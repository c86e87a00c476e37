------------------------ MODULE CommandBufferProofs ------------------------
(***************************************************************************)
(* Theorems about CommandBuffer, for every set of queue sizes and every    *)
(* number of lines and of empty reads: the safety properties the run       *)
(* command_buffer checks, from one inductive invariant, and the refinement *)
(* of CommandFeed.                                                         *)
(***************************************************************************)
EXTENDS CommandBuffer, SequenceTheorems, TLAPS

\* A buffer is in the thread's hand between getBuffer() and the end of the
\* read(), and at no other place of getNext(); getNext() reaches its end with
\* an empty queue only when a read() has returned 0.
HandInv ==
    /\ pc \in {"idle", "drain", "serve", "deliver"} => hand = 0
    /\ pc \in {"fill", "wait"} => hand # 0
    /\ pc = "deliver" /\ queue = <<>> => leaked # 0

\* Under POL_LOWLAT the drain loop ends only when it has read every line that
\* was there when getNext() was called.
DrainedInv ==
    /\ atCall <= arrived
    /\ policy = "LOWLAT" /\ pc \in {"serve", "wait", "deliver"} => atCall <= nread

\* The inductive invariant.
IInv ==
    /\ TypeInv
    /\ NoAliasing
    /\ Conservation
    /\ Accounting
    /\ QueueInOrder
    /\ NoDropNeverDiscards
    /\ SoundWhileInputIs
    /\ HandInv
    /\ DrainedInv

-----------------------------------------------------------------------------
\* What the constructor's loop over pool.push_back() leaves.
LEMMA InitialPool ==
    ASSUME NEW n \in Nat, NEW p, p = [i \in 1 .. n |-> i]
    PROVE  p \in Seq(1 .. n) /\ Len(p) = n
<1>1. p \in [1 .. n -> 1 .. n]
  OBVIOUS
<1>2. p \in Seq(1 .. n)
  BY <1>1, SeqDef
<1>3. Len(p) \in Nat /\ DOMAIN p = 1 .. Len(p)
  BY <1>2, LenProperties
<1>4. 1 .. Len(p) = 1 .. n
  BY <1>1, <1>3
<1>5. Len(p) = n
  BY <1>3, <1>4, SMT
<1> QED
  BY <1>2, <1>5

\* The initial state satisfies the inductive invariant.
LEMMA InitIInv == Init => IInv
<1> SUFFICES ASSUME Init PROVE IInv
  OBVIOUS
<1>1. maxq \in Nat \ {0}
  BY QueueSizesAssumption DEF Init
<1>2. pool \in Seq(Buffer) /\ Len(pool) = maxq
  BY <1>1, InitialPool DEF Init, Buffer
<1>3. \A i \in 1 .. Len(pool) : pool[i] = i
  BY <1>2 DEF Init
<1>4. queue = <<>> /\ Len(queue) = 0 /\ queue \in Seq(Buffer)
  BY EmptySeq DEF Init
<1>5. TypeInv
  <2>1. text \in [Buffer -> Nat]
    BY DEF Init
  <2>2. nodata \in BOOLEAN
    BY Zenon DEF Init
  <2>3. policy \in {"NODROP", "LOWLAT"} /\ pc \in ControlPoint
    BY DEF Init, ControlPoint
  <2> QED
    BY <1>1, <1>2, <1>4, <2>1, <2>2, <2>3 DEF Init, TypeInv
<1>6. NoAliasing
  BY <1>1, <1>2, <1>3, <1>4 DEF Init, NoAliasing
<1>7. Conservation /\ Accounting /\ QueueInOrder
  BY <1>1, <1>2, <1>4 DEF Init, Conservation, Accounting, QueueInOrder
<1>8. NoDropNeverDiscards /\ SoundWhileInputIs /\ HandInv /\ DrainedInv
  BY DEF Init, NoDropNeverDiscards, SoundWhileInputIs, HandInv, DrainedInv
<1> QED
  BY <1>5, <1>6, <1>7, <1>8 DEF IInv

-----------------------------------------------------------------------------
\* The invariants that speak of the buffers and their lines.
BufferInv == NoAliasing /\ Conservation /\ Accounting /\ QueueInOrder

\* The types of the variables they speak of.
BufferTypes ==
    /\ maxq \in Nat \ {0}
    /\ pool \in Seq(Buffer)
    /\ queue \in Seq(Buffer)
    /\ text \in [Buffer -> Nat]
    /\ hand \in 0 .. maxq
    /\ leaked \in Nat
    /\ discards \in Nat
    /\ processed \in Nat
    /\ nread \in Nat
    /\ arrived \in Nat

\* Taking the first element of a list.
LEMMA PopFront ==
    ASSUME NEW S, NEW s \in Seq(S), s # <<>>
    PROVE  /\ Len(s) \in Nat \ {0}
           /\ Head(s) = s[1] /\ Head(s) \in S
           /\ Tail(s) \in Seq(S) /\ Len(Tail(s)) = Len(s) - 1
           /\ \A i \in 1 .. Len(s) - 1 : Tail(s)[i] = s[i + 1]
BY EmptySeq, HeadTailProperties

\* getBuffer() from the pool, and the memset() of the buffer, keep the
\* invariants of the buffers.
LEMMA FromPoolBuffers ==
    ASSUME BufferTypes, BufferInv, hand = 0, FromPool,
           text' = [text EXCEPT ![hand'] = 0],
           UNCHANGED <<maxq, leaked, processed, nread, arrived>>
    PROVE  BufferTypes' /\ BufferInv' /\ hand' # 0
<1>1. /\ Len(pool) \in Nat \ {0}
      /\ hand' = pool[1] /\ hand' \in Buffer
      /\ pool' \in Seq(Buffer) /\ Len(pool') = Len(pool) - 1
      /\ \A i \in 1 .. Len(pool) - 1 : pool'[i] = pool[i + 1]
      /\ queue' = queue /\ discards' = discards
  BY PopFront DEF FromPool, BufferTypes
<1>2. hand' \in 1 .. maxq /\ Buffer' = Buffer
  BY <1>1 DEF Buffer
<1>3. BufferTypes' /\ hand' # 0
  BY <1>1, <1>2 DEF BufferTypes, Buffer
<1>4. Len(queue) \in Nat
  BY LenProperties DEF BufferTypes
<1>5. NoAliasing'
  BY <1>1, <1>4 DEF BufferInv, NoAliasing
<1>6. Conservation'
  BY <1>1, <1>3, <1>4 DEF BufferInv, BufferTypes, Conservation
<1>7. Accounting'
  BY <1>1 DEF BufferInv, Accounting
<1>8. QueueInOrder'
  <2>1. \A j \in 1 .. Len(queue) : queue[j] # hand' /\ queue[j] \in Buffer
    BY <1>1, <1>4, ElementOfSeq DEF BufferInv, NoAliasing, BufferTypes
  <2> QED
    BY <1>1, <2>1 DEF BufferInv, BufferTypes, QueueInOrder
<1> QED
  BY <1>3, <1>5, <1>6, <1>7, <1>8 DEF BufferInv

\* getBuffer() from the front of the queue keeps them too: the line it takes
\* is the oldest one and is counted in discards.
LEMMA StealBuffers ==
    ASSUME BufferTypes, BufferInv, hand = 0, Steal,
           text' = [text EXCEPT ![hand'] = 0],
           UNCHANGED <<maxq, leaked, processed, nread, arrived>>
    PROVE  BufferTypes' /\ BufferInv' /\ hand' # 0
<1>1. /\ Len(queue) \in Nat \ {0}
      /\ hand' = queue[1] /\ hand' \in Buffer
      /\ queue' \in Seq(Buffer) /\ Len(queue') = Len(queue) - 1
      /\ \A i \in 1 .. Len(queue) - 1 : queue'[i] = queue[i + 1]
      /\ pool' = pool /\ discards' = discards + 1
  BY PopFront DEF Steal, BufferTypes
<1>2. hand' \in 1 .. maxq /\ Buffer' = Buffer
  BY <1>1 DEF Buffer
<1>3. BufferTypes' /\ hand' # 0
  BY <1>1, <1>2 DEF BufferTypes, Buffer
<1>4. Len(pool) \in Nat
  BY LenProperties DEF BufferTypes
<1>5. NoAliasing'
  BY <1>1, <1>4 DEF BufferInv, NoAliasing
<1>6. Conservation'
  <2>1. Len(pool) + Len(queue) + leaked = maxq
    BY <1>1, <1>4 DEF BufferInv, BufferTypes, Conservation
  <2>2. Len(pool') + Len(queue') + 1 + leaked' = maxq'
    BY <1>1, <1>4, <2>1 DEF BufferTypes
  <2> QED
    BY <1>3, <2>2 DEF Conservation
<1>7. Accounting'
  BY <1>1, <1>3 DEF BufferInv, BufferTypes, Accounting
<1>8. QueueInOrder'
  <2>1. \A j \in 2 .. Len(queue) : queue[j] # hand' /\ queue[j] \in Buffer
    BY <1>1, ElementOfSeq DEF BufferInv, NoAliasing, BufferTypes
  <2>2. ASSUME NEW i \in 1 .. Len(queue')
        PROVE  text'[queue'[i]] = text[queue[i + 1]]
    <3>1. i + 1 \in 2 .. Len(queue) /\ queue'[i] = queue[i + 1]
      BY <1>1
    <3> QED
      BY <2>1, <3>1 DEF BufferTypes
  <2>3. \A i \in 1 .. Len(queue') :
            text[queue[i + 1]] = processed + discards + (i + 1)
    BY <1>1 DEF BufferInv, QueueInOrder
  <2> QED
    BY <1>1, <2>2, <2>3 DEF BufferTypes, QueueInOrder
<1> QED
  BY <1>3, <1>5, <1>6, <1>7, <1>8 DEF BufferInv

\* A read() that returned a line and the push_back() keep them.
LEMMA PushQueueBuffers ==
    ASSUME BufferTypes, BufferInv, hand # 0, PushQueue,
           UNCHANGED <<maxq, discards, processed>>
    PROVE  BufferTypes' /\ BufferInv' /\ hand' = 0 /\ queue' # <<>>
<1>1. hand \in Buffer /\ Len(queue) \in Nat /\ Len(pool) \in Nat /\ Buffer' = Buffer
  BY LenProperties DEF BufferTypes, Buffer
<1>2. /\ queue' \in Seq(Buffer) /\ queue' # <<>>
      /\ Len(queue') = Len(queue) + 1
      /\ \A i \in 1 .. Len(queue) : queue'[i] = queue[i]
      /\ queue'[Len(queue) + 1] = hand
  BY <1>1, AppendProperties DEF PushQueue, BufferTypes
<1>3. /\ text' = [text EXCEPT ![hand] = nread + 1]
      /\ nread' = nread + 1 /\ nread < arrived /\ arrived' = arrived
      /\ hand' = 0 /\ pool' = pool /\ leaked' = leaked
  BY DEF PushQueue
<1>4. BufferTypes'
  BY <1>1, <1>2, <1>3 DEF BufferTypes
<1>5. NoAliasing'
  <2>1. \A i \in 1 .. Len(pool) : pool[i] \in Buffer
    BY ElementOfSeq DEF BufferTypes
  <2>2. \A i \in 1 .. Len(queue') : queue'[i] \in Buffer
    BY <1>1, <1>2, ElementOfSeq DEF BufferTypes
  <2>3. \A b \in Buffer : b # 0
    BY DEF Buffer
  <2>4. \A i, j \in 1 .. Len(queue') : queue'[i] = queue'[j] => i = j
    BY <1>1, <1>2 DEF BufferInv, NoAliasing
  <2>5. \A i \in 1 .. Len(pool), j \in 1 .. Len(queue') : pool[i] # queue'[j]
    BY <1>1, <1>2 DEF BufferInv, NoAliasing
  <2> QED
    BY <1>3, <2>1, <2>2, <2>3, <2>4, <2>5 DEF BufferInv, NoAliasing
<1>6. Conservation'
  BY <1>1, <1>2, <1>3 DEF BufferInv, BufferTypes, Conservation
<1>7. Accounting'
  BY <1>1, <1>2, <1>3 DEF BufferInv, BufferTypes, Accounting
<1>8. QueueInOrder'
  <2>1. \A j \in 1 .. Len(queue) : queue[j] # hand /\ queue[j] \in Buffer
    BY <1>1, ElementOfSeq DEF BufferInv, NoAliasing, BufferTypes
  <2>2. \A j \in 1 .. Len(queue) : text'[queue'[j]] = text[queue[j]]
    BY <1>2, <1>3, <2>1 DEF BufferTypes
  <2>3. text'[queue'[Len(queue) + 1]] = nread + 1
    BY <1>1, <1>2, <1>3 DEF BufferTypes
  <2>4. nread = processed + discards + Len(queue)
    BY DEF BufferInv, Accounting
  <2> SUFFICES ASSUME NEW i \in 1 .. Len(queue')
               PROVE  text'[queue'[i]] = processed + discards + i
    BY DEF PushQueue, QueueInOrder
  <2>5. CASE i \in 1 .. Len(queue)
    BY <2>2, <2>5 DEF BufferInv, QueueInOrder
  <2>6. CASE i = Len(queue) + 1
    BY <1>1, <2>3, <2>4, <2>6 DEF BufferTypes
  <2> QED
    BY <1>1, <1>2, <2>5, <2>6
<1> QED
  BY <1>2, <1>3, <1>4, <1>5, <1>6, <1>7, <1>8 DEF BufferInv

\* A read() that returned 0 loses the buffer in hand and nothing else.
LEMMA ReadReturnsZeroBuffers ==
    ASSUME BufferTypes, BufferInv, hand # 0, ReadReturnsZero,
           UNCHANGED <<maxq, discards, processed>>
    PROVE  BufferTypes' /\ BufferInv' /\ hand' = 0 /\ leaked' # 0
<1>1. /\ hand' = 0 /\ leaked' = leaked + 1
      /\ UNCHANGED <<pool, queue, text, arrived, nread>>
  BY DEF ReadReturnsZero
<1>2. Len(queue) \in Nat /\ Len(pool) \in Nat /\ Buffer' = Buffer
  BY LenProperties DEF BufferTypes, Buffer
<1>3. BufferTypes' /\ leaked' # 0
  BY <1>1, <1>2 DEF BufferTypes
<1>4. NoAliasing'
  <2>1. /\ \A i \in 1 .. Len(pool) : pool[i] # 0
        /\ \A i \in 1 .. Len(queue) : queue[i] # 0
    BY ElementOfSeq DEF BufferTypes, Buffer
  <2> QED
    BY <1>1, <2>1 DEF BufferInv, NoAliasing
<1>5. Conservation'
  BY <1>1, <1>2 DEF BufferInv, BufferTypes, Conservation
<1>6. Accounting' /\ QueueInOrder'
  BY <1>1 DEF BufferInv, Accounting, QueueInOrder
<1> QED
  BY <1>1, <1>3, <1>4, <1>5, <1>6 DEF BufferInv

\* Handing over the front of the queue returns its buffer to the pool.
LEMMA DeliverBuffers ==
    ASSUME BufferTypes, BufferInv, hand = 0, Deliver, maxq' = maxq
    PROVE  BufferTypes' /\ BufferInv' /\ ubuf' = processed + discards + 1
<1>1. /\ Len(queue) \in Nat \ {0} /\ Head(queue) = queue[1] /\ queue[1] \in Buffer
      /\ queue' \in Seq(Buffer) /\ Len(queue') = Len(queue) - 1
      /\ \A i \in 1 .. Len(queue) - 1 : queue'[i] = queue[i + 1]
  BY PopFront DEF Deliver, BufferTypes
<1>2. Len(pool) \in Nat /\ Buffer' = Buffer
  BY LenProperties DEF BufferTypes, Buffer
<1>3. /\ pool' \in Seq(Buffer) /\ Len(pool') = Len(pool) + 1
      /\ \A i \in 1 .. Len(pool) : pool'[i] = pool[i]
      /\ pool'[Len(pool) + 1] = queue[1]
  BY <1>1, <1>2, AppendProperties DEF Deliver, BufferTypes
<1>4. /\ ubuf' = text[queue[1]] /\ processed' = processed + 1
      /\ UNCHANGED <<text, hand, leaked, discards, nread, arrived>>
  BY <1>1 DEF Deliver, device
<1>5. BufferTypes'
  BY <1>1, <1>2, <1>3, <1>4 DEF BufferTypes
<1>6. NoAliasing'
  <2>1. \A i, j \in 1 .. Len(pool') : pool'[i] = pool'[j] => i = j
    BY <1>1, <1>2, <1>3 DEF BufferInv, NoAliasing
  <2>2. \A i, j \in 1 .. Len(queue') : queue'[i] = queue'[j] => i = j
    BY <1>1 DEF BufferInv, NoAliasing
  <2>3. \A i \in 1 .. Len(pool'), j \in 1 .. Len(queue') : pool'[i] # queue'[j]
    BY <1>1, <1>2, <1>3 DEF BufferInv, NoAliasing
  <2>4. \A i \in 1 .. Len(pool') : pool'[i] # hand'
    BY <1>1, <1>2, <1>3, <1>4 DEF BufferInv, NoAliasing
  <2>5. \A i \in 1 .. Len(queue') : queue'[i] # hand'
    BY <1>1, <1>4 DEF BufferInv, NoAliasing
  <2> QED
    BY <2>1, <2>2, <2>3, <2>4, <2>5 DEF NoAliasing
<1>7. Conservation'
  <2>1. Len(pool) + Len(queue) + leaked = maxq
    BY <1>1, <1>2 DEF BufferInv, BufferTypes, Conservation
  <2>2. /\ Len(pool') = Len(pool) + 1 /\ Len(queue') = Len(queue) - 1
        /\ leaked' = leaked /\ leaked \in Nat
        /\ Len(pool) \in Nat /\ Len(queue) \in Nat
    BY <1>1, <1>2, <1>3, <1>4 DEF BufferTypes
  <2>3. Len(pool') + Len(queue') + leaked' = maxq'
    BY <2>1, <2>2
  <2> QED
    BY <1>4, <2>3 DEF Conservation
<1>8. Accounting'
  BY <1>1, <1>4 DEF BufferInv, BufferTypes, Accounting
<1>9. ubuf' = processed + discards + 1
  BY <1>1, <1>4 DEF BufferInv, QueueInOrder
<1>10. QueueInOrder'
  <2> SUFFICES ASSUME NEW i \in 1 .. Len(queue')
               PROVE  text'[queue'[i]] = processed' + discards' + i
    BY DEF QueueInOrder
  <2>1. i + 1 \in 1 .. Len(queue) /\ queue'[i] = queue[i + 1]
    BY <1>1
  <2>2. text[queue[i + 1]] = processed + discards + (i + 1)
    BY <2>1 DEF BufferInv, QueueInOrder
  <2> QED
    BY <1>4, <2>1, <2>2 DEF BufferTypes
<1> QED
  BY <1>5, <1>6, <1>7, <1>8, <1>9, <1>10 DEF BufferInv

\* The head of readLinePushQueue(): it leaves a buffer in hand, or stops the
\* process when every buffer has leaked; it discards a line only when the pool
\* is empty and the queue is not.
LEMMA GetBufferBuffers ==
    ASSUME NEW next, BufferTypes, BufferInv, hand = 0, GetBuffer(next),
           UNCHANGED <<maxq, nread, arrived>>
    PROVE  /\ BufferTypes' /\ BufferInv'
           /\ \/ pc' = next /\ hand' # 0
              \/ pc' = "aborted" /\ leaked' # 0
           /\ leaked' = leaked /\ processed' = processed
           /\ no_data_waiting' = no_data_waiting
           /\ discards' # discards => pool = <<>> /\ queue # <<>>
<1>1. leaked' = leaked /\ processed' = processed /\ no_data_waiting' = no_data_waiting
  BY DEF GetBuffer
<1>2. CASE FromPool /\ text' = [text EXCEPT ![hand'] = 0] /\ pc' = next
  <2>1. BufferTypes' /\ BufferInv' /\ hand' # 0
    BY <1>1, <1>2, FromPoolBuffers
  <2>2. discards' = discards
    BY <1>2 DEF FromPool
  <2> QED
    BY <1>1, <1>2, <2>1, <2>2
<1>3. CASE Steal /\ text' = [text EXCEPT ![hand'] = 0] /\ pc' = next
  <2>1. BufferTypes' /\ BufferInv' /\ hand' # 0
    BY <1>1, <1>3, StealBuffers
  <2>2. pool = <<>> /\ queue # <<>>
    BY <1>3 DEF Steal
  <2> QED
    BY <1>1, <1>3, <2>1, <2>2
<1>4. CASE AssertFails /\ text' = text /\ pc' = "aborted"
  <2>1. /\ UNCHANGED <<pool, queue, text, hand, discards>>
        /\ pool = <<>> /\ queue = <<>>
    BY <1>4 DEF AssertFails
  <2>2. Len(pool) = 0 /\ Len(queue) = 0
    BY <2>1, EmptySeq
  <2>3. leaked' # 0
    BY <1>1, <2>2 DEF BufferTypes, BufferInv, Conservation
  <2>4. BufferTypes'
    BY <1>1, <2>1 DEF BufferTypes, Buffer
  <2>5. BufferInv'
    BY <1>1, <2>1 DEF BufferInv, NoAliasing, Conservation, Accounting, QueueInOrder
  <2> QED
    BY <1>1, <1>4, <2>1, <2>3, <2>4, <2>5
<1> QED
  BY <1>2, <1>3, <1>4 DEF GetBuffer

\* The tail of readLinePushQueue(): the hand is empty again, and a line is in
\* the queue unless a read() has returned 0.
LEMMA ReadBuffers ==
    ASSUME NEW next, BufferTypes, BufferInv, hand # 0, Read(next),
           UNCHANGED <<maxq, discards, processed>>
    PROVE  /\ BufferTypes' /\ BufferInv' /\ hand' = 0
           /\ queue' # <<>> \/ leaked' # 0
           /\ leaked = 0 \/ leaked' # 0
           /\ nread' >= nread /\ arrived' = arrived
           /\ pc' = next
<1>1. CASE PushQueue
  <2>1. BufferTypes' /\ BufferInv' /\ hand' = 0 /\ queue' # <<>>
    BY <1>1, PushQueueBuffers
  <2>2. nread' = nread + 1 /\ leaked' = leaked /\ arrived' = arrived
    BY <1>1 DEF PushQueue
  <2>3. nread' >= nread
    BY <2>2 DEF BufferTypes
  <2> QED
    BY <2>1, <2>2, <2>3 DEF Read
<1>2. CASE ReadReturnsZero
  <2>1. BufferTypes' /\ BufferInv' /\ hand' = 0 /\ leaked' # 0
    BY <1>2, ReadReturnsZeroBuffers
  <2>2. nread' = nread /\ arrived' = arrived
    BY <1>2 DEF ReadReturnsZero
  <2>3. nread' >= nread
    BY <2>2 DEF BufferTypes
  <2> QED
    BY <2>1, <2>2, <2>3 DEF Read
<1> QED
  BY <1>1, <1>2 DEF Read

-----------------------------------------------------------------------------
\* The types of the other variables.
CallTypes ==
    /\ policy \in {"NODROP", "LOWLAT"}
    /\ no_data_waiting \in Nat /\ blocked_on_read \in Nat
    /\ ubuf \in Nat /\ atCall \in Nat
    /\ pc \in ControlPoint
    /\ empties \in Nat

LEMMA TypeInvParts == TypeInv <=> BufferTypes /\ CallTypes /\ nodata \in BOOLEAN
BY DEF TypeInv, BufferTypes, CallTypes

LEMMA TypeInvPartsNext ==
    TypeInv' <=> BufferTypes' /\ CallTypes' /\ (nodata \in BOOLEAN)'
BY DEF TypeInv, BufferTypes, CallTypes

\* Steps of the environment and of the run loop that leave the buffers alone.
LEMMA BuffersUnchanged ==
    ASSUME BufferTypes, BufferInv, UNCHANGED <<maxq, buffers, counters, nread>>,
           arrived' \in Nat, arrived' >= arrived
    PROVE  BufferTypes' /\ BufferInv'
<1>1. BufferTypes'
  BY DEF BufferTypes, Buffer, buffers, counters
<1>2. NoAliasing' /\ Conservation' /\ QueueInOrder'
  BY DEF BufferInv, NoAliasing, Conservation, QueueInOrder, buffers, counters
<1>3. Accounting'
  BY DEF BufferInv, BufferTypes, Accounting, buffers, counters
<1> QED
  BY <1>1, <1>2, <1>3 DEF BufferInv

\* The conjuncts of the inductive invariant that follow the thread through
\* getNext().
ControlInv ==
    /\ CallTypes
    /\ NoDropNeverDiscards
    /\ SoundWhileInputIs
    /\ HandInv
    /\ DrainedInv

LEMMA IInvParts ==
    /\ IInv <=> BufferTypes /\ BufferInv /\ ControlInv /\ nodata \in BOOLEAN
    /\ IInv' <=> BufferTypes' /\ BufferInv' /\ ControlInv' /\ (nodata \in BOOLEAN)'
BY TypeInvParts, TypeInvPartsNext DEF IInv, BufferInv, ControlInv

\* The cases below have these hypotheses in common.
Ready == BufferTypes /\ BufferInv /\ ControlInv

\* A line or an empty read arrives.
LEMMA ArriveStep ==
    ASSUME Ready, ArriveLine \/ ArriveEmpty
    PROVE  BufferTypes' /\ BufferInv' /\ ControlInv'
<1>1. /\ UNCHANGED <<config, buffers, counters, call, pc, nread>>
      /\ arrived' \in {arrived, arrived + 1}
      /\ empties' \in {empties, empties + 1}
  BY DEF ArriveLine, ArriveEmpty
<1>2. arrived' \in Nat /\ arrived' >= arrived /\ empties' \in Nat
  BY <1>1 DEF Ready, BufferTypes, ControlInv, CallTypes
<1>3. BufferTypes' /\ BufferInv'
  BY <1>1, <1>2, BuffersUnchanged DEF Ready, config
<1>4. CallTypes'
  BY <1>1, <1>2 DEF Ready, ControlInv, CallTypes, config, call, counters
<1>5. NoDropNeverDiscards' /\ SoundWhileInputIs' /\ HandInv'
  BY <1>1 DEF Ready, ControlInv, NoDropNeverDiscards, SoundWhileInputIs,
              HandInv, config, buffers, counters
<1>6. DrainedInv'
  BY <1>1, <1>2 DEF Ready, ControlInv, CallTypes, BufferTypes, DrainedInv,
                    config, call
<1> QED
  BY <1>3, <1>4, <1>5, <1>6 DEF ControlInv

\* Steps of getNext() that move neither buffers nor lines: its entry, the end
\* of the drain loop, its return from an empty queue, and _exit().
LEMMA QuietStep ==
    ASSUME Ready,
           \/ GetNext
           \/ DrainEnds
           \/ Drain /\ UNCHANGED <<buffers, counters>> /\ policy = "NODROP" /\ pc' = "serve"
           \/ DeliverNothing
           \/ IOError
    PROVE  BufferTypes' /\ BufferInv' /\ ControlInv'
<1>1. /\ UNCHANGED <<config, buffers, counters, ubuf, device>>
      /\ atCall' \in {atCall, arrived}
  BY DEF GetNext, DrainEnds, Drain, DeliverNothing, IOError, call
<1>2. BufferTypes' /\ BufferInv'
  BY <1>1, BuffersUnchanged DEF Ready, BufferTypes, config, device
<1>3. CallTypes'
  <2>1. pc' \in ControlPoint
    BY DEF GetNext, DrainEnds, Drain, DeliverNothing, IOError, ControlPoint
  <2> QED
    BY <1>1, <2>1 DEF Ready, BufferTypes, ControlInv, CallTypes, config,
                      counters, device
<1>4. NoDropNeverDiscards'
  BY <1>1 DEF Ready, ControlInv, NoDropNeverDiscards, config, counters
<1>5. SoundWhileInputIs' /\ HandInv'
  BY <1>1 DEF Ready, ControlInv, SoundWhileInputIs, HandInv, buffers,
              GetNext, DrainEnds, Drain, DeliverNothing, IOError
<1>6. DrainedInv'
  <2>1. DrainEnds => arrived <= nread
    BY DEF DrainEnds, InputDataAvailable, Ready, BufferTypes
  <2> QED
    BY <1>1, <2>1 DEF Ready, ControlInv, BufferTypes, CallTypes, DrainedInv,
        config, device, call, GetNext, DrainEnds, Drain, DeliverNothing, IOError
<1> QED
  BY <1>2, <1>3, <1>4, <1>5, <1>6 DEF ControlInv

\* getBuffer(), in the drain loop and before the blocking read.
LEMMA GetBufferStep ==
    ASSUME NEW next, Ready, hand = 0, GetBuffer(next),
           UNCHANGED <<config, blocked_on_read, ubuf, atCall, device>>,
           \/ next = "fill" /\ pc = "drain" /\ ~(policy = "NODROP" /\ pool = <<>>)
           \/ next = "wait" /\ pc = "serve" /\ queue = <<>>
    PROVE  BufferTypes' /\ BufferInv' /\ ControlInv'
<1>1. /\ BufferTypes' /\ BufferInv'
      /\ \/ pc' = next /\ hand' # 0
         \/ pc' = "aborted" /\ leaked' # 0
      /\ leaked' = leaked /\ processed' = processed
      /\ no_data_waiting' = no_data_waiting
      /\ discards' # discards => pool = <<>> /\ queue # <<>>
  BY GetBufferBuffers DEF Ready, config, device
<1>2. CallTypes'
  BY <1>1 DEF Ready, ControlInv, CallTypes, ControlPoint, config, device
<1>3. NoDropNeverDiscards'
  BY <1>1 DEF Ready, ControlInv, NoDropNeverDiscards, config
<1>4. SoundWhileInputIs' /\ HandInv'
  BY <1>1 DEF SoundWhileInputIs, HandInv
<1>5. DrainedInv'
  BY <1>1 DEF Ready, ControlInv, DrainedInv, config, device
<1> QED
  BY <1>1, <1>2, <1>3, <1>4, <1>5 DEF ControlInv

\* The two reads.
LEMMA ReadStep ==
    ASSUME Ready, Fill \/ Wait
    PROVE  BufferTypes' /\ BufferInv' /\ ControlInv'
<1>1. PICK next \in {"drain", "deliver"} :
        /\ Read(next) /\ hand # 0
        /\ next = "deliver" => pc = "wait"
        /\ UNCHANGED <<config, discards, processed, no_data_waiting, ubuf, atCall>>
        /\ blocked_on_read' \in {blocked_on_read, blocked_on_read + 1}
  BY DEF Fill, Wait, call, counters, Ready, ControlInv, HandInv
<1>2. /\ BufferTypes' /\ BufferInv' /\ hand' = 0
      /\ queue' # <<>> \/ leaked' # 0
      /\ leaked = 0 \/ leaked' # 0
      /\ nread' >= nread /\ arrived' = arrived
      /\ pc' = next
  BY <1>1, ReadBuffers DEF Ready, config
<1>3. empties' \in Nat
  BY <1>1 DEF Read, PushQueue, ReadReturnsZero, Ready, ControlInv, CallTypes
<1>4. CallTypes'
  BY <1>1, <1>2, <1>3 DEF Ready, ControlInv, CallTypes, ControlPoint, config
<1>5. NoDropNeverDiscards' /\ SoundWhileInputIs' /\ HandInv'
  BY <1>1, <1>2 DEF Ready, ControlInv, NoDropNeverDiscards, SoundWhileInputIs,
                    HandInv, config
<1>6. DrainedInv'
  BY <1>1, <1>2 DEF Ready, ControlInv, DrainedInv, BufferTypes, CallTypes, config
<1> QED
  BY <1>2, <1>4, <1>5, <1>6 DEF ControlInv

\* The line is handed over.
LEMMA DeliverStep ==
    ASSUME Ready, Deliver
    PROVE  BufferTypes' /\ BufferInv' /\ ControlInv'
<1>1. hand = 0 /\ maxq' = maxq
  BY DEF Deliver, Ready, ControlInv, HandInv, config
<1>2. BufferTypes' /\ BufferInv' /\ ubuf' = processed + discards + 1
  BY <1>1, DeliverBuffers DEF Ready
<1>3. CallTypes'
  BY <1>2 DEF Deliver, Ready, ControlInv, CallTypes, BufferTypes, ControlPoint,
              config, device
<1>4. NoDropNeverDiscards' /\ SoundWhileInputIs' /\ HandInv' /\ DrainedInv'
  BY <1>1 DEF Deliver, Ready, ControlInv, NoDropNeverDiscards,
              SoundWhileInputIs, HandInv, DrainedInv, config, device
<1> QED
  BY <1>2, <1>3, <1>4 DEF ControlInv

\* nodata is set by getNext() and cleared by the drain loop.
LEMMA NodataStep ==
    ASSUME nodata \in BOOLEAN, Next
    PROVE  nodata' \in BOOLEAN
<1>1. nodata' = nodata \/ nodata' = TRUE \/ nodata' = FALSE
  BY Zenon DEF Next, Step, ArriveLine, ArriveEmpty, GetNext, Drain, DrainEnds,
      Fill, Block, Wait, Deliver, DeliverNothing, IOError, call
<1> QED
  BY <1>1, Zenon

\* One step of the thread or of the device, or a stutter, preserves the
\* inductive invariant.
LEMMA NextIInv == IInv /\ [Next]_vars => IInv'
<1> SUFFICES ASSUME IInv, [Next]_vars PROVE IInv'
  OBVIOUS
<1>1. Ready /\ nodata \in BOOLEAN
  BY IInvParts DEF Ready
<1>2. CASE UNCHANGED vars
  <2>1. UNCHANGED <<maxq, policy, pool, queue, text, hand, leaked, discards,
                    processed, no_data_waiting, blocked_on_read, nodata, ubuf,
                    atCall, pc, arrived, nread, empties>>
    BY <1>2 DEF vars, config, buffers, counters, call, device
  <2>2. TypeInv'
    BY <2>1 DEF IInv, TypeInv, Buffer
  <2>3. BufferInv'
    BY <2>1 DEF IInv, BufferInv, NoAliasing, Conservation, Accounting, QueueInOrder
  <2> QED
    BY <2>1, <2>2, <2>3 DEF IInv, BufferInv, NoDropNeverDiscards,
        SoundWhileInputIs, HandInv, DrainedInv
<1>3. CASE Next
  <2> SUFFICES BufferTypes' /\ BufferInv' /\ ControlInv'
    BY <1>1, <1>3, NodataStep, IInvParts
  <2>1. CASE ArriveLine \/ ArriveEmpty
    BY <1>1, <2>1, ArriveStep
  <2>2. CASE GetNext \/ DrainEnds \/ DeliverNothing \/ IOError
    BY <1>1, <2>2, QuietStep
  <2>3. CASE Drain
    <3>1. CASE policy = "NODROP" /\ pool = <<>>
      <4>1. UNCHANGED <<buffers, counters>> /\ pc' = "serve"
        BY <2>3, <3>1 DEF Drain
      <4> QED
        BY <1>1, <2>3, <3>1, <4>1, QuietStep
    <3>2. CASE ~(policy = "NODROP" /\ pool = <<>>)
      <4>1. /\ hand = 0 /\ pc = "drain" /\ GetBuffer("fill")
            /\ UNCHANGED <<config, blocked_on_read, ubuf, atCall, device>>
        BY <1>1, <2>3, <3>2 DEF Drain, Ready, ControlInv, HandInv
      <4> QED
        BY <1>1, <3>2, <4>1, GetBufferStep
    <3> QED
      BY <3>1, <3>2
  <2>4. CASE Block
    <3>1. /\ hand = 0 /\ pc = "serve" /\ queue = <<>> /\ GetBuffer("wait")
          /\ UNCHANGED <<config, blocked_on_read, ubuf, atCall, device>>
      BY <1>1, <2>4 DEF Block, Ready, ControlInv, HandInv, call
    <3> QED
      BY <1>1, <3>1, GetBufferStep
  <2>5. CASE Fill \/ Wait
    BY <1>1, <2>5, ReadStep
  <2>6. CASE Deliver
    BY <1>1, <2>6, DeliverStep
  <2> QED
    BY <1>3, <2>1, <2>2, <2>3, <2>4, <2>5, <2>6 DEF Next, Step
<1> QED
  BY <1>2, <1>3

\* Every reachable state of CommandBuffer satisfies the inductive invariant.
THEOREM Invariance == Spec => []IInv
<1>1. Init => IInv
  BY InitIInv
<1>2. IInv /\ [Next]_vars => IInv'
  BY NextIInv
<1> QED
  BY <1>1, <1>2, PTL DEF Spec

\* The variables keep their types: every element of the pool and of the queue
\* is one of the buffers of the constructor.
THEOREM TypeCorrect == Spec => []TypeInv
<1>1. IInv => TypeInv
  BY DEF IInv
<1> QED
  BY <1>1, Invariance, PTL

\* No buffer is ever in two of the pool, the queue and the hand, nor twice in
\* one of them, whatever maxq is and however often read() returns 0.
THEOREM NoBufferAliased == Spec => []NoAliasing
<1>1. IInv => NoAliasing
  BY DEF IInv
<1> QED
  BY <1>1, Invariance, PTL

\* Buffers disappear through reads that return 0 and in no other way.
THEOREM BuffersConserved == Spec => []Conservation
<1>1. IInv => Conservation
  BY DEF IInv
<1> QED
  BY <1>1, Invariance, PTL

\* POL_NODROP never discards a line.
THEOREM NoDropKeepsLines == Spec => []NoDropNeverDiscards
<1>1. IInv => NoDropNeverDiscards
  BY DEF IInv
<1> QED
  BY <1>1, Invariance, PTL

\* getBuffer()'s assertion holds, and getNext() never pops an empty queue,
\* until the first read() that returns 0.
THEOREM SoundUntilEmptyRead == Spec => []SoundWhileInputIs
<1>1. IInv => SoundWhileInputIs
  BY DEF IInv
<1> QED
  BY <1>1, Invariance, PTL

-----------------------------------------------------------------------------
\* Under POL_LOWLAT a step that hands a line over hands over one of the maxq
\* newest lines that the device had written when getNext() was called.
LEMMA FreshStep ==
    ASSUME IInv, [Next]_vars, policy = "LOWLAT", processed' # processed
    PROVE  ubuf' + maxq > atCall
<1>1. Ready
  BY IInvParts DEF Ready
<1>2. Deliver
  BY DEF Next, Step, ArriveLine, ArriveEmpty, GetNext, Drain, DrainEnds, Fill,
         Block, Wait, DeliverNothing, IOError, GetBuffer, vars, counters
<1>3. hand = 0 /\ maxq' = maxq /\ pc \in {"serve", "deliver"}
  BY <1>1, <1>2 DEF Deliver, Ready, ControlInv, HandInv, config
<1>4. ubuf' = processed + discards + 1
  BY <1>1, <1>2, <1>3, DeliverBuffers DEF Ready
<1>5. atCall <= nread
  BY <1>1, <1>3 DEF Ready, ControlInv, DrainedInv
<1>6. nread = processed + discards + Len(queue)
  BY <1>1 DEF Ready, BufferInv, Accounting
<1>7. Len(queue) <= maxq /\ Len(queue) \in Nat
  <2>1. Len(queue) \in Nat /\ Len(pool) \in Nat
    BY <1>1, LenProperties DEF Ready, BufferTypes
  <2> QED
    BY <1>1, <1>3, <2>1 DEF Ready, BufferTypes, BufferInv, Conservation
<1>8. /\ atCall \in Nat /\ processed \in Nat /\ discards \in Nat
      /\ maxq \in Nat
  BY <1>1 DEF Ready, BufferTypes, ControlInv, CallTypes
<1> QED
  BY <1>4, <1>5, <1>6, <1>7, <1>8

\* The latency bound of POL_LOWLAT.
THEOREM Fresh == Spec => Freshness
<1>1. IInv /\ [Next]_vars =>
          [policy = "LOWLAT" /\ processed' # processed => ubuf' + maxq > atCall]_vars
  BY FreshStep
<1> QED
  BY <1>1, Invariance, PTL DEF Spec, Freshness

-----------------------------------------------------------------------------
\* Every step of the buffer is a step of the abstract feed, or changes nothing
\* that the feed shows.
LEMMA FeedStep == IInv /\ [Next]_vars => [Feed!Next]_(Feed!vars)
<1> SUFFICES ASSUME IInv, [Next]_vars PROVE [Feed!Next]_(Feed!vars)
  OBVIOUS
<1> USE DEF Feed!Next, Feed!Arrive, Feed!Give, Feed!Lose, Feed!Take, Feed!vars
<1>1. Ready
  BY IInvParts DEF Ready
<1>2. CASE UNCHANGED vars
  BY <1>2 DEF vars, config, counters, call, device
<1>3. CASE ArriveLine
  BY <1>3 DEF ArriveLine, config, counters, call
<1>4. CASE \/ ArriveEmpty \/ GetNext \/ DrainEnds \/ Fill
           \/ DeliverNothing \/ IOError
  BY <1>4 DEF ArriveEmpty, GetNext, DrainEnds, Fill, DeliverNothing, IOError,
              Read, PushQueue, ReadReturnsZero, config, counters, call, device
<1>5. CASE Wait
  BY <1>5 DEF Wait, Read, PushQueue, ReadReturnsZero, config, call
<1>6. CASE Drain \/ Block
  <2>1. UNCHANGED <<policy, arrived, processed, ubuf>>
    BY <1>6 DEF Drain, Block, GetBuffer, config, counters, call, device
  <2>2. \/ discards' = discards
        \/ Steal /\ discards' = discards + 1
    BY <1>6 DEF Drain, Block, GetBuffer, FromPool, AssertFails, Steal, counters
  <2>3. CASE discards' = discards
    BY <2>1, <2>3
  <2>4. CASE Steal /\ discards' = discards + 1
    <3>1. policy = "LOWLAT"
      BY <1>1, <1>6, <2>4 DEF Drain, Block, Steal, Ready, BufferTypes,
                              ControlInv, CallTypes, counters
    <3>2. Len(queue) \in Nat \ {0}
      BY <1>1, <2>4, EmptySeq DEF Steal, Ready, BufferTypes
    <3>3. processed + discards < arrived
      BY <1>1, <3>2 DEF Ready, BufferTypes, BufferInv, Accounting
    <3>4. processed' + discards' = (processed + discards) + 1
      BY <1>1, <2>1, <2>4 DEF Ready, BufferTypes
    <3> QED
      BY <2>1, <2>4, <3>1, <3>3, <3>4
  <2> QED
    BY <2>2, <2>3, <2>4
<1>7. CASE Deliver
  <2>1. hand = 0 /\ maxq' = maxq
    BY <1>1, <1>7 DEF Deliver, Ready, ControlInv, HandInv, config
  <2>2. ubuf' = processed + discards + 1
    BY <1>1, <1>7, <2>1, DeliverBuffers DEF Ready
  <2>3. UNCHANGED <<policy, arrived, discards>> /\ processed' = processed + 1
    BY <1>7 DEF Deliver, config, device
  <2>4. Len(queue) \in Nat \ {0}
    BY <1>1, <1>7, EmptySeq DEF Deliver, Ready, BufferTypes
  <2>5. processed + discards < arrived
    BY <1>1, <2>4 DEF Ready, BufferTypes, BufferInv, Accounting
  <2>6. processed' + discards' = (processed + discards) + 1
    BY <1>1, <2>3 DEF Ready, BufferTypes
  <2> QED
    BY <2>2, <2>3, <2>5, <2>6
<1> QED
  BY <1>2, <1>3, <1>4, <1>5, <1>6, <1>7 DEF Next, Step

\* CommandBuffer implements CommandFeed: its lines reach the caller once each,
\* in the order the device wrote them, and only POL_LOWLAT loses any.
THEOREM ImplementsFeed == Spec => FeedSpec
<1>1. Init => Feed!Init
  <2>1. (policy = "LOWLAT") \in BOOLEAN
    OBVIOUS
  <2> QED
    BY <2>1 DEF Init, Feed!Init
<1> QED
  BY <1>1, FeedStep, Invariance, PTL DEF Spec, FeedSpec, Feed!Spec
=============================================================================
