--------------------------- MODULE CommandBuffer ---------------------------
(***************************************************************************)
(* CommandBufferImpl of CommandBuffer.cpp: a fixed set of line buffers     *)
(* that circulate between a free pool and a queue of lines read from the   *)
(* command device but not yet handed to the caller of getNext().           *)
(*                                                                         *)
(* A line is its arrival number: nothing depends on its text.  The device  *)
(* (outside this repository) delivers one line per read(); it may also     *)
(* report itself readable and then return 0, which the code handles.       *)
(***************************************************************************)
EXTENDS Naturals, Sequences

CONSTANTS
    QueueSizes,     \* the values of the constructor's maxq
    MaxLines,       \* bound: lines the device writes
    MaxEmpty        \* bound: reads that return 0

ASSUME QueueSizesAssumption == QueueSizes \subseteq Nat \ {0}
ASSUME BoundsAssumption == MaxLines \in Nat /\ MaxEmpty \in Nat

VARIABLES
    maxq,               \* buffers the constructor allocated, named 1 .. maxq
    policy,             \* "NODROP" or "LOWLAT"
    pool,               \* list of free buffers
    queue,              \* list of buffers that hold a line
    text,               \* buffer -> the line in it, 0 when blank
    hand,               \* buffer held by readLinePushQueue, 0 when none
    leaked,             \* buffers lost in readLinePushQueue
    discards, processed, no_data_waiting, blocked_on_read,
    nodata,             \* local of getNext
    ubuf,               \* line last copied to the caller
    atCall,             \* history: lines written when getNext was entered
    pc,                 \* where the thread is in getNext
    arrived,            \* lines written by the device
    nread,              \* lines read from the device
    empties             \* pending reads that will return 0

buffers == <<pool, queue, text, hand, leaked>>
counters == <<discards, processed, no_data_waiting, blocked_on_read>>
device == <<arrived, nread, empties>>
config == <<maxq, policy>>
call == <<nodata, ubuf, atCall>>
vars == <<config, buffers, counters, call, pc, device>>

Buffer == 1 .. maxq

\* Control points that end the process.
Stopped == pc \in {"exited", "aborted", "undefined"}

Init ==
    /\ maxq \in QueueSizes
    /\ policy = IF maxq > 2 THEN "NODROP" ELSE "LOWLAT"
    /\ pool = [i \in 1 .. maxq |-> i]
    /\ queue = <<>>
    /\ text = [b \in Buffer |-> 0]
    /\ hand = 0 /\ leaked = 0
    /\ discards = 0 /\ processed = 0
    /\ no_data_waiting = 0 /\ blocked_on_read = 0
    /\ nodata = FALSE /\ ubuf = 0 /\ atCall = 0
    /\ pc = "idle"
    /\ arrived = 0 /\ nread = 0 /\ empties = 0

-----------------------------------------------------------------------------
\* The device: external, seen through select() and read().

ArriveLine ==
    /\ arrived < MaxLines
    /\ arrived' = arrived + 1
    /\ UNCHANGED <<config, buffers, counters, call, pc, nread, empties>>

ArriveEmpty ==
    /\ leaked + empties < MaxEmpty
    /\ empties' = empties + 1
    /\ UNCHANGED <<config, buffers, counters, call, pc, arrived, nread>>

\* inputDataAvailable(): select() with a zero timeout.
InputDataAvailable == nread < arrived \/ empties > 0

\* hasDataAvailable(), which the run loop asks before it quits.
HasDataAvailable == queue # <<>> \/ InputDataAvailable

-----------------------------------------------------------------------------
\* getBuffer(): from the pool, else stolen from the front of the queue; the
\* assertion stops the process when both are empty.

FromPool ==
    /\ pool # <<>>
    /\ hand' = Head(pool)
    /\ pool' = Tail(pool)
    /\ UNCHANGED <<queue, discards>>

\* Mutants of Steal: pop_front() forgotten; the newest line stolen.
StealWithoutPop ==
    /\ pool = <<>> /\ queue # <<>>
    /\ hand' = Head(queue)
    /\ discards' = discards + 1
    /\ UNCHANGED <<pool, queue>>

StealNewest ==
    /\ pool = <<>> /\ queue # <<>>
    /\ hand' = queue[Len(queue)]
    /\ queue' = SubSeq(queue, 1, Len(queue) - 1)
    /\ discards' = discards + 1
    /\ UNCHANGED pool

Steal ==
    /\ pool = <<>>
    /\ queue # <<>>
    /\ hand' = Head(queue)
    /\ queue' = Tail(queue)
    /\ discards' = discards + 1
    /\ UNCHANGED pool

AssertFails ==
    /\ pool = <<>>
    /\ queue = <<>>
    /\ UNCHANGED <<hand, pool, queue, discards>>

\* The head of readLinePushQueue(): getBuffer(), then memset() of the buffer.
GetBuffer(next) ==
    /\ \/ /\ FromPool \/ Steal
          /\ text' = [text EXCEPT ![hand'] = 0]
          /\ pc' = next
       \/ /\ AssertFails
          /\ text' = text
          /\ pc' = "aborted"
    /\ UNCHANGED <<leaked, processed, no_data_waiting>>

\* The tail of readLinePushQueue(): read() > 0 queues the buffer; read() = 0
\* drops the only reference to it; read() < 0 ends the process.

PushQueue ==
    /\ nread < arrived
    /\ nread' = nread + 1
    /\ text' = [text EXCEPT ![hand] = nread']
    /\ queue' = Append(queue, hand)
    /\ hand' = 0
    /\ UNCHANGED <<pool, leaked, arrived, empties>>

ReadReturnsZero ==
    /\ empties > 0
    /\ empties' = empties - 1
    /\ leaked' = leaked + 1
    /\ hand' = 0
    /\ UNCHANGED <<pool, queue, text, arrived, nread>>

Read(next) ==
    /\ PushQueue \/ ReadReturnsZero
    /\ pc' = next

-----------------------------------------------------------------------------
\* getNext().

GetNext ==
    /\ pc = "idle"
    /\ nodata' = TRUE
    /\ atCall' = arrived
    /\ pc' = "drain"
    /\ UNCHANGED <<config, buffers, counters, ubuf, device>>

\* Mutants of Drain: the policy ignored, either way; continue for break.
DrainAndSteal ==
    /\ pc = "drain" /\ InputDataAvailable
    /\ nodata' = FALSE
    /\ GetBuffer("fill")
    /\ UNCHANGED <<config, blocked_on_read, ubuf, atCall, device>>

DrainUntilFull ==
    /\ pc = "drain" /\ InputDataAvailable
    /\ nodata' = FALSE
    /\ IF pool = <<>>
       THEN pc' = "serve" /\ UNCHANGED <<buffers, counters>>
       ELSE GetBuffer("fill") /\ UNCHANGED blocked_on_read
    /\ UNCHANGED <<config, ubuf, atCall, device>>

DrainSpins ==
    /\ pc = "drain" /\ InputDataAvailable
    /\ nodata' = FALSE
    /\ IF policy = "NODROP" /\ pool = <<>>
       THEN UNCHANGED <<pc, buffers, counters>>
       ELSE GetBuffer("fill") /\ UNCHANGED blocked_on_read
    /\ UNCHANGED <<config, ubuf, atCall, device>>

\* The condition of the while loop and the test of the policy in its body.
Drain ==
    /\ pc = "drain"
    /\ InputDataAvailable
    /\ nodata' = FALSE
    /\ IF policy = "NODROP" /\ pool = <<>>
       THEN pc' = "serve" /\ UNCHANGED <<buffers, counters>>
       ELSE GetBuffer("fill") /\ UNCHANGED blocked_on_read
    /\ UNCHANGED <<config, ubuf, atCall, device>>

DrainEnds ==
    /\ pc = "drain"
    /\ ~InputDataAvailable
    /\ pc' = "serve"
    /\ UNCHANGED <<config, buffers, counters, call, device>>

Fill ==
    /\ pc = "fill"
    /\ Read("drain")
    /\ UNCHANGED <<config, counters, call>>

\* if (queue.empty()) readLinePushQueue(), which blocks in read().
Block ==
    /\ pc = "serve"
    /\ queue = <<>>
    /\ GetBuffer("wait")
    /\ UNCHANGED <<config, blocked_on_read, call, device>>

Wait ==
    /\ pc = "wait"
    /\ Read("deliver")
    /\ blocked_on_read' = blocked_on_read + 1
    /\ UNCHANGED <<config, discards, processed, no_data_waiting, call>>

\* Mutant of Deliver: pool.push_back(cmd) forgotten.
DeliverWithoutRecycle ==
    /\ pc \in {"serve", "deliver"} /\ queue # <<>>
    /\ ubuf' = text[Head(queue)]
    /\ queue' = Tail(queue)
    /\ processed' = processed + 1
    /\ pc' = "idle"
    /\ UNCHANGED <<config, pool, text, hand, leaked, discards, no_data_waiting,
                   blocked_on_read, nodata, atCall, device>>

Deliver ==
    /\ pc \in {"serve", "deliver"}
    /\ queue # <<>>
    /\ ubuf' = text[Head(queue)]
    /\ queue' = Tail(queue)
    /\ pool' = Append(pool, Head(queue))
    /\ processed' = processed + 1
    /\ no_data_waiting' = IF nodata THEN no_data_waiting + 1 ELSE no_data_waiting
    /\ pc' = "idle"
    /\ UNCHANGED <<config, text, hand, leaked, discards, blocked_on_read,
                   nodata, atCall, device>>

\* Mutant of DeliverNothing: a null buffer goes round like any other.
DeliverNull ==
    /\ pc = "deliver" /\ queue = <<>>
    /\ pool' = Append(pool, 0)
    /\ pc' = "idle"
    /\ UNCHANGED <<config, queue, text, hand, leaked, counters, call, device>>

\* The blocking read returned 0: queue.front() of an empty list is undefined.
DeliverNothing ==
    /\ pc = "deliver"
    /\ queue = <<>>
    /\ pc' = "undefined"
    /\ UNCHANGED <<config, buffers, counters, call, device>>

\* select() or read() fails: _exit(errno).
IOError ==
    /\ pc \in {"drain", "fill", "wait"}
    /\ pc' = "exited"
    /\ UNCHANGED <<config, buffers, counters, call, device>>

Step ==
    \/ GetNext \/ Drain \/ DrainEnds \/ Fill
    \/ Block \/ Wait \/ Deliver \/ DeliverNothing

Next == ArriveLine \/ ArriveEmpty \/ Step \/ IOError

Spec == Init /\ [][Next]_vars

\* The run loop calls getNext() for ever and nothing in it waits but read().
FairSpec == Spec /\ WF_vars(Step)

-----------------------------------------------------------------------------
ControlPoint ==
    {"idle", "drain", "fill", "serve", "wait", "deliver",
     "exited", "aborted", "undefined"}

TypeInv ==
    /\ maxq \in Nat \ {0}
    /\ policy \in {"NODROP", "LOWLAT"}
    /\ pool \in Seq(Buffer)
    /\ queue \in Seq(Buffer)
    /\ text \in [Buffer -> Nat]
    /\ hand \in 0 .. maxq
    /\ leaked \in Nat
    /\ discards \in Nat /\ processed \in Nat
    /\ no_data_waiting \in Nat /\ blocked_on_read \in Nat
    /\ nodata \in BOOLEAN
    /\ ubuf \in Nat /\ atCall \in Nat
    /\ pc \in ControlPoint
    /\ arrived \in Nat /\ nread \in Nat /\ empties \in Nat

\* No buffer is in two places: the pool, the queue and the hand are disjoint
\* and hold no buffer twice, so a line waiting in the queue is never
\* overwritten by the next read() and no buffer is freed twice.
NoAliasing ==
    /\ \A i, j \in 1 .. Len(pool) : pool[i] = pool[j] => i = j
    /\ \A i, j \in 1 .. Len(queue) : queue[i] = queue[j] => i = j
    /\ \A i \in 1 .. Len(pool), j \in 1 .. Len(queue) : pool[i] # queue[j]
    /\ \A i \in 1 .. Len(pool) : pool[i] # hand
    /\ \A j \in 1 .. Len(queue) : queue[j] # hand

\* Every buffer of the constructor is accounted for, and the only way to lose
\* one is a read() that returned 0.
Conservation ==
    Len(pool) + Len(queue) + (IF hand = 0 THEN 0 ELSE 1) + leaked = maxq

\* The figures of dump(), "proc:processed/discards+processed": each line that
\* was read has been handed over, discarded, or is still queued.
Accounting == nread = processed + discards + Len(queue) /\ nread <= arrived

\* The queue holds the most recent lines read, oldest first: getNext() hands
\* lines over in the order the device wrote them, none of them twice.
QueueInOrder ==
    \A i \in 1 .. Len(queue) : text[queue[i]] = processed + discards + i

\* POL_NODROP never steals a queued line, even after buffers have leaked: the
\* loop stops reading at an empty pool and the queue is then not empty.
NoDropNeverDiscards == policy = "NODROP" => discards = 0

\* While no read() has returned 0, the assertion in getBuffer() holds and
\* getNext() never pops an empty queue.
SoundWhileInputIs == leaked = 0 => pc \notin {"aborted", "undefined"}

\* getBuffer()'s assert(!queue.empty()), for the constructor's sizes.
AssertNeverFails == pc # "aborted"

\* POL_LOWLAT's latency bound: the line handed over is one of the newest maxq
\* lines the device had written when getNext() was called.
Freshness ==
    [][policy = "LOWLAT" /\ processed' # processed => ubuf' + maxq > atCall]_vars

\* The buffer implements the abstract feed, which loses lines under
\* POL_LOWLAT only.
Feed == INSTANCE CommandFeed WITH
            lossy <- policy = "LOWLAT",
            taken <- processed + discards,
            lost <- discards,
            given <- ubuf

FeedSpec == Feed!Spec

\* A line in the device is in the end handed over or, under POL_LOWLAT,
\* discarded, unless the process stops first.
EveryLineIsServed ==
    \A n \in 1 .. MaxLines :
        arrived >= n ~> (processed + discards >= n \/ Stopped)
=============================================================================
