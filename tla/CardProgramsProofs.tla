-------------------------- MODULE CardProgramsProofs --------------------------
(***************************************************************************)
(* Theorems about the programs of CardPrograms and the connections of      *)
(* Connections: what the tests say of a capture, what a script prints, and *)
(* which descriptors and replies a caller of the library has, for every    *)
(* script, every sequence of calls, every answer of the card, and every    *)
(* limit on lines, descriptors and samples.                                *)
(***************************************************************************)
EXTENDS SessionProofs, FiniteSetTheorems

-----------------------------------------------------------------------------
\* The connections of the library.

\* What can be read on a descriptor.
Texts == [what : {"greeting", "prompt", "reply"}, call : Nat, len : Nat]

\* A call is in progress; it has a descriptor.
Busy == {"socket", "connect", "greeting", "prompt", "signed", "asked", "died"}
Open == {"connect", "greeting", "prompt", "signed", "asked"}

\* Calls that have returned.
done == IF at \in Busy THEN called - 1 ELSE called

\* The caller's calls, the descriptors of the process and what it has read.
CallerTypes ==
    /\ caller \in Callers \cup {NoCaller}
    /\ called \in 0 .. Len(caller.calls)
    /\ at \in {"none", "returned"} \cup Busy
    /\ DOMAIN descriptors \subseteq 0 .. MaxDescriptors - 1
    /\ descriptors \in [DOMAIN descriptors -> Seq(Texts)]
    /\ socks \in [Sockets -> 0 .. MaxDescriptors] /\ sd \in 0 .. MaxDescriptors
    /\ replies \in Seq(Seq(Texts)) /\ Len(replies) = done

\* The call in progress and its descriptor.
CallInv ==
    /\ at \in Busy => called > 0 /\ What # "stopStreaming"
    /\ at = "socket" /\ Kept => socks[SocketOf[What]] = 0
    /\ at \in Open => /\ sd \in DOMAIN descriptors
                      /\ Kept => socks[SocketOf[What]] = sd
                      /\ ~ Kept => \A k \in Sockets : socks[k] # 0 => socks[k] # sd

\* Each connection that is kept has a descriptor of its own, and until a
\* descriptor was closed by mistake it is none of the standard files.
SocksInv ==
    /\ \A k \in Sockets : socks[k] # 0 => socks[k] \in DOMAIN descriptors
    /\ \A j, k \in Sockets : j # k /\ socks[j] # 0 => socks[j] # socks[k]
    /\ ~ Stray => /\ {0, 1, 2} \subseteq DOMAIN descriptors
                  /\ \A k \in Sockets : socks[k] \notin {1, 2}
                  /\ at \in Open => sd \notin {0, 1, 2}

\* Greeting and prompt are read in one piece.
Fits == caller.greeting <= LINE /\ caller.prompt <= LINE

\* What can be read on the descriptor of the call, and on the others.
HeardInv ==
    /\ at = "connect" => descriptors[sd] = <<>>
    /\ at = "greeting" => descriptors[sd] = <<Text("greeting", caller.greeting)>>
    /\ at \in {"prompt", "asked"} => descriptors[sd] # <<>>
    /\ Fits => /\ at = "prompt" => descriptors[sd] = <<Text("prompt", caller.prompt)>>
               /\ at = "asked" => descriptors[sd] = <<Text("reply", 1)>>
               /\ \A d \in DOMAIN descriptors :
                    (d = sd /\ at \in {"greeting", "prompt", "asked"}) \/ descriptors[d] = <<>>

\* One of the first n calls was acq2sh().
Asked(n) == \E j \in 1 .. n : caller.calls[j] = "acq2sh"

\* After its first reply the connection of acq2sh() is silent between calls.
CmdInv ==
    ~ Stray /\ Asked(done) =>
        /\ socks["cmd"] # 0
        /\ IF at \in Busy /\ What = "acq2sh"
           THEN /\ at \in {"signed", "asked"}
                /\ descriptors[sd] = IF at = "asked" THEN <<Text("reply", 1)>> ELSE <<>>
           ELSE descriptors[socks["cmd"]] = <<>>

\* While there may be frames the stream has its connection.
StreamInv == ~ Stray /\ Streamed(done + 1) => socks["stream"] # 0

\* The connections that are kept, and those of readChannel().
KeptSet == { k \in Sockets : socks[k] # 0 }
Opened ==
    LET reads == { i \in 1 .. called : caller.calls[i] = "readChannel" }
    IN  IF at \in {"socket", "died"} THEN reads \ {called} ELSE reads

\* Descriptors that are neither: a call that dies may leave one.
Extra == Cardinality(DOMAIN descriptors) - 3 - Cardinality(KeptSet) - Cardinality(Opened)

CountInv == ~ Stray => Extra \in IF at = "died" THEN {0, 1} ELSE {0}

\* The inductive invariant of the connections.
ConnInvariant ==
    /\ CallerTypes /\ CallInv /\ SocksInv /\ HeardInv /\ CmdInv /\ StreamInv
    /\ OwnReplies /\ CountInv

\* What a caller is.
LEMMA CallersAre ==
    ASSUME NEW c \in Callers \cup {NoCaller}
    PROVE  /\ c \in [calls : Seq(CallNames), greeting : Nat, prompt : Nat, known : BOOLEAN]
           /\ c.calls \in Seq(CallNames)
<1>1. <<>> \in Seq(CallNames)
  BY EmptySeq
<1>2. NoCaller \in [calls : Seq(CallNames), greeting : Nat, prompt : Nat, known : BOOLEAN]
  BY <1>1 DEF NoCaller
<1>3. Callers \subseteq [calls : Seq(CallNames), greeting : Nat, prompt : Nat, known : BOOLEAN]
  BY CallersAssumption
<1>4. c \in [calls : Seq(CallNames), greeting : Nat, prompt : Nat, known : BOOLEAN]
  BY <1>2, <1>3
<1> QED
  BY <1>4

\* The caller of a state.
LEMMA CallerKnown ==
    ASSUME CallerTypes
    PROVE  /\ caller.calls \in Seq(CallNames) /\ Len(caller.calls) \in Nat
           /\ caller.greeting \in Nat /\ caller.prompt \in Nat
           /\ \A i \in 1 .. Len(caller.calls) : caller.calls[i] \in CallNames
           /\ called \in Nat
<1>1. caller \in [calls : Seq(CallNames), greeting : Nat, prompt : Nat, known : BOOLEAN]
  BY CallersAre DEF CallerTypes
<1>2. caller.calls \in Seq(CallNames)
  BY <1>1
<1>3. Len(caller.calls) \in Nat /\ \A i \in 1 .. Len(caller.calls) : caller.calls[i] \in CallNames
  BY <1>2, LenProperties, ElementOfSeq
<1>4. called \in Nat
  BY <1>3 DEF CallerTypes
<1> QED
  BY <1>1, <1>2, <1>3, <1>4

\* A process has a free descriptor until it has MaxDescriptors.
LEMMA FreeDescriptor ==
    ASSUME CallerTypes, Cardinality(DOMAIN descriptors) # MaxDescriptors
    PROVE  LET new == Min(0 .. MaxDescriptors \ DOMAIN descriptors)
           IN  new \in 0 .. MaxDescriptors - 1 /\ new \notin DOMAIN descriptors
<1> DEFINE D == DOMAIN descriptors
           free == 0 .. MaxDescriptors \ D
<1>1. MaxDescriptors \in Nat /\ D \subseteq 0 .. MaxDescriptors - 1
  BY CallersAssumption DEF CallerTypes
<1>2. Cardinality(0 .. MaxDescriptors - 1) = MaxDescriptors
  <2>1. 0 \in Int /\ MaxDescriptors - 1 \in Int
    BY <1>1
  <2>2. Cardinality(0 .. MaxDescriptors - 1)
          = IF 0 > MaxDescriptors - 1 THEN 0 ELSE MaxDescriptors - 1 - 0 + 1
    BY <2>1, FS_Interval
  <2> QED
    BY <1>1, <2>2
<1>3. D # 0 .. MaxDescriptors - 1
  BY <1>2
<1> HIDE DEF D
<1>4. PICK d \in 0 .. MaxDescriptors - 1 : d \notin D
  BY <1>1, <1>3
<1>5. d \in free /\ free \subseteq Nat
  BY <1>1, <1>4
<1>6. \E m \in free : \A k \in free : m <= k
  BY <1>5, LeastElement
<1>7. Min(free) \in free /\ Min(free) <= d
  <2> HIDE DEF free
  <2> QED
    BY <1>5, <1>6, Zenon DEF Min
<1>8. Min(free) \in 0 .. MaxDescriptors - 1 /\ Min(free) \notin D
  BY <1>1, <1>4, <1>7
<1> QED
  BY <1>8, Zenon DEF free, D

\* A line that has been read is away, or the rest of it is another line.
LEMMA AfterLineTypes ==
    ASSUME NEW texts \in Seq(Texts), texts # <<>>
    PROVE  AfterLine(texts) \in Seq(Texts)
<1>1. Head(texts) \in Texts /\ Tail(texts) \in Seq(Texts)
  BY HeadTailProperties
<1> DEFINE rest == [Head(texts) EXCEPT !.len = @ - LINE]
<1>2. CASE Head(texts).len <= LINE
  BY <1>1, <1>2 DEF AfterLine
<1>3. CASE ~ (Head(texts).len <= LINE)
  <2>1. rest \in Texts
    <3> DEFINE t == Head(texts)
               m == t.len - LINE
    <3>1. t \in Texts /\ LINE \in Nat
      BY <1>1, CallersAssumption
    <3>2. m \in Nat
      BY <1>3, <3>1 DEF Texts
    <3> HIDE DEF m, t
    <3>3. [t EXCEPT !.len = m] \in Texts
      BY <3>1, <3>2 DEF Texts
    <3> QED
      BY <3>3, Zenon DEF m, t
  <2> HIDE DEF rest
  <2>2. <<rest>> \in Seq(Texts)
    BY <2>1
  <2>3. <<rest>> \o Tail(texts) \in Seq(Texts)
    BY <1>1, <2>2, ConcatProperties
  <2> QED
    BY <1>3, <2>3, Zenon DEF AfterLine, rest
<1> QED
  BY <1>2, <1>3

\* A line that fits is read in one piece.
LEMMA LineFits ==
    ASSUME NEW text, text.len <= LINE
    PROVE  AfterLine(<<text>>) = <<>>
BY DEF AfterLine

-----------------------------------------------------------------------------
\* Which socket each call uses.
LEMMA SocketNames ==
    /\ DOMAIN SocketOf = {"acq2sh", "waitStateChange", "readStreamingFrame"}
    /\ \A w \in DOMAIN SocketOf :
          /\ SocketOf[w] \in Sockets
          /\ SocketOf[w] = "cmd" <=> w = "acq2sh"
          /\ SocketOf[w] = "stream" <=> w = "readStreamingFrame"
    /\ CallNames = DOMAIN SocketOf \cup {"readChannel", "stopStreaming"}
BY DEF SocketOf, Sockets, CallNames

\* A call begins: the calls before it have returned, and only stopStreaming()
\* without a stream closes a descriptor by mistake.
LEMMA CallBegins ==
    ASSUME CallerTypes, NEW names, Calling(names)
    PROVE  /\ at = "returned" /\ done = called /\ called \in Nat
           /\ called' = called + 1 /\ caller' = caller
           /\ called' \in 1 .. Len(caller.calls)
           /\ What' = caller.calls[called + 1] /\ What' \in names \cap CallNames
           /\ Stray => Stray'
           /\ Stray' /\ What' # "stopStreaming" => Stray
           /\ What' = "stopStreaming" /\ ~ Stray' => Streamed(called + 1)
<1>1. called \in Nat /\ Len(caller.calls) \in Nat
      /\ \A i \in 1 .. Len(caller.calls) : caller.calls[i] \in CallNames
  BY CallerKnown
<1>2. /\ at = "returned" /\ called < Len(caller.calls)
      /\ caller.calls[called + 1] \in names
      /\ called' = called + 1 /\ caller' = caller
  BY DEF Calling
<1>3. done = called
  BY <1>2 DEF done, Busy
<1>4. called + 1 \in 1 .. Len(caller.calls) /\ What' = caller.calls[called + 1]
  BY <1>1, <1>2 DEF What
<1>5. 1 .. called + 1 = 1 .. called \cup {called + 1}
  BY <1>1
<1>9. ASSUME NEW i PROVE Streamed(i)' = Streamed(i)
  BY <1>2 DEF Streamed
<1>6. Stray => Stray'
  BY <1>2, <1>5, <1>9 DEF Stray
<1>7. Stray' /\ What' # "stopStreaming" => Stray
  BY <1>2, <1>4, <1>5, <1>9 DEF Stray
<1>8. What' = "stopStreaming" /\ ~ Stray' => Streamed(called + 1)
  BY <1>2, <1>4, <1>5, <1>9 DEF Stray
<1> QED
  BY <1>1, <1>2, <1>3, <1>4, <1>6, <1>7, <1>8

\* A call goes on.
LEMMA CallGoesOn ==
    ASSUME CallerTypes, CallInv, at \in Busy, UNCHANGED <<caller, called>>
    PROVE  /\ called \in Nat \ {0} /\ done = called - 1 /\ called \in 1 .. Len(caller.calls)
           /\ What' = What /\ Kept' = Kept /\ What \in CallNames \ {"stopStreaming"}
           /\ Stray' = Stray
           /\ What = caller.calls[called]
<1>1. called \in Nat /\ Len(caller.calls) \in Nat
      /\ \A i \in 1 .. Len(caller.calls) : caller.calls[i] \in CallNames
  BY CallerKnown
<1>2. called > 0 /\ What # "stopStreaming" /\ done = called - 1
  BY DEF CallInv, done
<1>3. called \in 1 .. Len(caller.calls)
  BY <1>1, <1>2 DEF CallerTypes
<1> QED
  BY <1>1, <1>2, <1>3 DEF What, Kept, Stray, Streamed

\* What a call has read stays true of it.
LEMMA RepliesStay ==
    ASSUME OwnReplies, UNCHANGED <<caller, replies>>, Stray => Stray'
    PROVE  OwnReplies'
BY DEF OwnReplies

\* A call that finds no socket yet, or reads a channel, opens nothing.
LEMMA NothingOpened ==
    ASSUME CallerTypes, NEW names, Calling(names),
           at' # "died",
           What' = "readChannel" => at' = "socket",
           at' \in {"socket", "signed"}
    PROVE  Opened' = Opened
<1>1. /\ at = "returned" /\ called \in Nat /\ called' = called + 1 /\ caller' = caller
      /\ What' = caller.calls[called + 1]
  BY CallBegins
<1>2. 1 .. called + 1 = 1 .. called \cup {called + 1} /\ called + 1 \notin 1 .. called
  BY <1>1
<1> DEFINE reads == { i \in 1 .. called : caller.calls[i] = "readChannel" }
<1>3. Opened = reads
  BY <1>1 DEF Opened
<1>4. Opened' = IF at' = "socket" THEN reads' \ {called + 1} ELSE reads'
  BY <1>1 DEF Opened
<1>5. reads' = IF What' = "readChannel" THEN reads \cup {called + 1} ELSE reads
  BY <1>1, <1>2
<1>6. called + 1 \notin reads
  BY <1>2
<1> HIDE DEF reads
<1> QED
  BY <1>3, <1>4, <1>5, <1>6

\* A call that finds its connection open, or asks for one.
LEMMA FindSocketKeeps ==
    ASSUME ConnInvariant, FindSocket
    PROVE  ConnInvariant'
<1> DEFINE k == SocketOf[What']
           s == socks[k]
<1>1. Calling(DOMAIN SocketOf) /\ UNCHANGED <<descriptors, socks, replies>>
  BY DEF FindSocket
<1>2. /\ at = "returned" /\ done = called /\ called \in Nat
      /\ called' = called + 1 /\ caller' = caller
      /\ called' \in 1 .. Len(caller.calls)
      /\ What' = caller.calls[called + 1] /\ What' \in DOMAIN SocketOf
      /\ Stray' = Stray
  <2>1. CallerTypes
    BY DEF ConnInvariant
  <2>2. Stray' \in BOOLEAN /\ Stray \in BOOLEAN
    BY DEF Stray
  <2>3. "stopStreaming" \notin DOMAIN SocketOf
    BY SocketNames
  <2> QED
    BY <1>1, <2>1, <2>2, <2>3, CallBegins
<1>3. IF s # 0 THEN sd' = s /\ at' = "signed" ELSE at' = "socket" /\ UNCHANGED sd
  BY <1>2 DEF FindSocket
<1>4. done' = done /\ at' \in {"socket", "signed"} /\ at' \in Busy
  BY <1>2, <1>3 DEF done, Busy
<1>5. k \in Sockets /\ What' # "readChannel" /\ What' # "stopStreaming" /\ Kept'
      /\ (k = "cmd" <=> What' = "acq2sh") /\ (k = "stream" <=> What' = "readStreamingFrame")
  BY <1>2, SocketNames DEF Kept
<1>6. s \in 0 .. MaxDescriptors
  BY <1>5 DEF ConnInvariant, CallerTypes
<1> HIDE DEF k
<1>7. CallerTypes'
  BY <1>1, <1>2, <1>3, <1>4, <1>6 DEF ConnInvariant, CallerTypes
<1>8. CallInv'
  <2>1. at' = "socket" => socks'[k] = 0
    BY <1>1, <1>3
  <2>2. at' = "signed" => sd' \in DOMAIN descriptors' /\ socks'[k] = sd'
    BY <1>1, <1>3, <1>5 DEF ConnInvariant, SocksInv
  <2> QED
    BY <1>2, <1>4, <1>5, <2>1, <2>2 DEF CallInv, k, Open
<1>9. SocksInv'
  <2>1. ~ Stray /\ at' = "signed" => sd' \notin {0, 1, 2}
    BY <1>3, <1>5 DEF ConnInvariant, SocksInv
  <2> QED
    BY <1>1, <1>2, <1>4, <2>1 DEF ConnInvariant, SocksInv, Open
<1>10. HeardInv'
  BY <1>1, <1>2, <1>4 DEF ConnInvariant, HeardInv, Fits
<1>11. CmdInv'
  <2> SUFFICES ASSUME ~ Stray, Asked(done)
               PROVE  /\ socks["cmd"] # 0
                      /\ IF What' = "acq2sh"
                         THEN at' = "signed" /\ descriptors[sd'] = <<>>
                         ELSE descriptors[socks["cmd"]] = <<>>
    BY <1>1, <1>2, <1>4 DEF CmdInv, Asked
  <2>1. socks["cmd"] # 0 /\ descriptors[socks["cmd"]] = <<>>
    BY <1>2 DEF ConnInvariant, CmdInv, Busy
  <2> QED
    BY <1>3, <1>5, <2>1
<1>12. StreamInv'
  <2>1. Streamed(done + 1)' = Streamed(done + 1)
    BY <1>2, <1>4 DEF Streamed
  <2> QED
    BY <1>1, <1>2, <2>1 DEF ConnInvariant, StreamInv
<1>13. OwnReplies'
  BY <1>1, <1>2, RepliesStay DEF ConnInvariant
<1>14. CountInv'
  <2>1. Opened' = Opened
    BY <1>1, <1>4, <1>5, NothingOpened DEF ConnInvariant
  <2> QED
    BY <1>1, <1>2, <1>4, <2>1 DEF ConnInvariant, CountInv, Extra, KeptSet
<1> QED
  BY <1>7, <1>8, <1>9, <1>10, <1>11, <1>12, <1>13, <1>14 DEF ConnInvariant

\* readChannel() opens a connection for itself.
LEMMA ReadChannelKeeps ==
    ASSUME ConnInvariant, ReadChannel
    PROVE  ConnInvariant'
<1>1. /\ Calling({"readChannel"}) /\ UNCHANGED <<descriptors, socks, sd, replies>>
      /\ at' = "socket"
  BY DEF ReadChannel
<1>2. /\ at = "returned" /\ done = called /\ called \in Nat
      /\ called' = called + 1 /\ caller' = caller
      /\ called' \in 1 .. Len(caller.calls)
      /\ What' = caller.calls[called + 1] /\ What' = "readChannel"
      /\ Stray' = Stray
  <2>1. CallerTypes
    BY DEF ConnInvariant
  <2>2. Stray' \in BOOLEAN /\ Stray \in BOOLEAN
    BY DEF Stray
  <2> QED
    BY <1>1, <2>1, <2>2, CallBegins
<1>3. done' = done
  BY <1>1, <1>2 DEF done, Busy
<1>4. ~ Kept'
  BY <1>2, SocketNames DEF Kept
<1>5. CallerTypes'
  BY <1>1, <1>2, <1>3 DEF ConnInvariant, CallerTypes, Busy
<1>6. CallInv'
  BY <1>1, <1>2, <1>4 DEF CallInv, Open
<1>7. SocksInv'
  BY <1>1, <1>2 DEF ConnInvariant, SocksInv, Open
<1>8. HeardInv'
  BY <1>1, <1>2 DEF ConnInvariant, HeardInv, Fits
<1>9. CmdInv'
  BY <1>1, <1>2, <1>3 DEF ConnInvariant, CmdInv, Asked, Busy
<1>10. StreamInv'
  <2>1. Streamed(done + 1)' = Streamed(done + 1)
    BY <1>2, <1>3 DEF Streamed
  <2> QED
    BY <1>1, <1>2, <2>1 DEF ConnInvariant, StreamInv
<1>11. OwnReplies'
  BY <1>1, <1>2, RepliesStay DEF ConnInvariant
<1>12. CountInv'
  <2>1. Opened' = Opened
    BY <1>1, NothingOpened DEF ConnInvariant
  <2> QED
    BY <1>1, <1>2, <2>1 DEF ConnInvariant, CountInv, Extra, KeptSet
<1> QED
  BY <1>5, <1>6, <1>7, <1>8, <1>9, <1>10, <1>11, <1>12 DEF ConnInvariant

\* What a step of a call that hears on its own descriptor leaves true.
HearingSafe ==
    /\ CallerTypes /\ CallInv /\ SocksInv /\ StreamInv /\ OwnReplies /\ CountInv

\* A step that reads or writes on the connection of the call in progress.
LEMMA HearingKeeps ==
    ASSUME ConnInvariant, at \in Open, at' \in Open,
           UNCHANGED <<caller, called, socks, sd, replies>>,
           NEW texts \in Seq(Texts), Hears(texts)
    PROVE  /\ HearingSafe'
           /\ What # "acq2sh" => CmdInv'
           /\ DOMAIN descriptors' = DOMAIN descriptors /\ descriptors'[sd] = texts
           /\ \A d \in DOMAIN descriptors : d # sd => descriptors'[d] = descriptors[d]
<1>1. at \in Busy /\ at' \in Busy /\ at \notin {"socket", "died"} /\ at' \notin {"socket", "died"}
  BY DEF Busy, Open
<1>2. /\ called \in Nat \ {0} /\ done = called - 1
      /\ What' = What /\ Kept' = Kept /\ What \in CallNames \ {"stopStreaming"}
      /\ Stray' = Stray
  BY <1>1, CallGoesOn DEF ConnInvariant
<1>3. done' = done
  BY <1>1 DEF done
<1>4. sd \in DOMAIN descriptors
  BY DEF ConnInvariant, CallInv
<1>5. /\ DOMAIN descriptors' = DOMAIN descriptors /\ descriptors'[sd] = texts
      /\ \A d \in DOMAIN descriptors : d # sd => descriptors'[d] = descriptors[d]
  BY <1>4 DEF Hears
<1>6. descriptors' \in [DOMAIN descriptors' -> Seq(Texts)]
  BY <1>4, <1>5 DEF ConnInvariant, CallerTypes, Hears
<1>7. CallerTypes'
  BY <1>1, <1>3, <1>5, <1>6 DEF ConnInvariant, CallerTypes
<1>8. CallInv'
  BY <1>1, <1>2, <1>5 DEF ConnInvariant, CallInv
<1>9. SocksInv'
  BY <1>2, <1>5 DEF ConnInvariant, SocksInv
<1>10. StreamInv'
  <2>1. Streamed(done + 1)' = Streamed(done + 1)
    BY <1>3 DEF Streamed
  <2> QED
    BY <1>2, <2>1 DEF ConnInvariant, StreamInv
<1>11. OwnReplies'
  BY <1>2, RepliesStay DEF ConnInvariant
<1>12. CountInv'
  <2>1. Opened' = Opened
    BY <1>1 DEF Opened
  <2> QED
    BY <1>1, <1>2, <1>5, <2>1 DEF ConnInvariant, CountInv, Extra, KeptSet
<1>13. ASSUME What # "acq2sh" PROVE CmdInv'
  <2> SUFFICES ASSUME ~ Stray, Asked(done)
               PROVE  socks["cmd"] # 0 /\ descriptors'[socks["cmd"]] = <<>>
    BY <1>2, <1>3, <1>13 DEF CmdInv, Asked
  <2>1. socks["cmd"] # 0 /\ descriptors[socks["cmd"]] = <<>>
    BY <1>13 DEF ConnInvariant, CmdInv
  <2>2. socks["cmd"] # sd
    <3>1. CASE Kept
      <4> DEFINE k == SocketOf[What]
      <4>1. k \in Sockets /\ k # "cmd" /\ socks[k] = sd
        BY <1>13, <3>1, SocketNames DEF Kept, ConnInvariant, CallInv
      <4> HIDE DEF k
      <4>2. "cmd" \in Sockets
        BY DEF Sockets
      <4> QED
        BY <2>1, <4>1, <4>2 DEF ConnInvariant, SocksInv
    <3>2. CASE ~ Kept
      <4>1. "cmd" \in Sockets
        BY DEF Sockets
      <4> QED
        BY <2>1, <3>2, <4>1 DEF ConnInvariant, CallInv
    <3> QED
      BY <3>1, <3>2
  <2>3. socks["cmd"] \in DOMAIN descriptors
    <3>1. "cmd" \in Sockets
      BY DEF Sockets
    <3> QED
      BY <2>1, <3>1 DEF ConnInvariant, SocksInv
  <2> QED
    BY <1>5, <2>1, <2>2, <2>3
<1> QED
  BY <1>5, <1>7, <1>8, <1>9, <1>10, <1>11, <1>12, <1>13 DEF HearingSafe

\* A text about a call is one.
LEMMA TextTypes ==
    ASSUME called \in Nat, NEW what \in {"greeting", "prompt", "reply"}, NEW n \in Nat
    PROVE  Text(what, n) \in Texts
BY DEF Text, Texts

\* The greeting is read, in one piece or more.
LEMMA ReadGreetingKeeps ==
    ASSUME ConnInvariant, ReadGreeting
    PROVE  ConnInvariant'
<1> DEFINE greeting == Text("greeting", caller.greeting)
           prompt == Text("prompt", caller.prompt)
           texts == Append(AfterLine(descriptors[sd]), prompt)
<1>1. /\ at = "greeting" /\ at' = "prompt" /\ at \in Open /\ at' \in Open
      /\ Hears(texts) /\ UNCHANGED <<caller, called, socks, sd, replies>>
  BY DEF ReadGreeting, Open
<1>2. caller.greeting \in Nat /\ caller.prompt \in Nat /\ called \in Nat
  BY CallerKnown DEF ConnInvariant
<1>3. greeting \in Texts /\ prompt \in Texts /\ greeting.len = caller.greeting
      /\ prompt' = prompt
  <2>1. greeting.len = caller.greeting /\ prompt' = prompt
    BY <1>1 DEF Text
  <2> QED
    BY <1>2, <2>1, TextTypes
<1>4. descriptors[sd] = <<greeting>>
  BY <1>1 DEF ConnInvariant, HeardInv
<1> HIDE DEF greeting, prompt
<1>5. AfterLine(descriptors[sd]) \in Seq(Texts)
  <2>1. <<greeting>> \in Seq(Texts) /\ <<greeting>> # <<>>
    BY <1>3
  <2> QED
    BY <1>4, <2>1, AfterLineTypes
<1>6. texts \in Seq(Texts) /\ texts # <<>>
  BY <1>3, <1>5, AppendProperties
<1>7. Fits => texts = <<prompt>>
  <2>1. Fits => AfterLine(descriptors[sd]) = <<>>
    BY <1>3, <1>4, LineFits DEF Fits
  <2>2. Append(<<>>, prompt) = <<prompt>>
    OBVIOUS
  <2> QED
    BY <2>1, <2>2, Zenon
<1> HIDE DEF texts
<1>8. /\ HearingSafe'
      /\ What # "acq2sh" => CmdInv'
      /\ DOMAIN descriptors' = DOMAIN descriptors /\ descriptors'[sd] = texts
      /\ \A d \in DOMAIN descriptors : d # sd => descriptors'[d] = descriptors[d]
  BY <1>1, <1>6, HearingKeeps
<1>9. HeardInv'
  <2>1. descriptors'[sd'] # <<>>
    BY <1>1, <1>6, <1>8
  <2>2. Fits' => /\ Fits
                /\ descriptors'[sd'] = <<Text("prompt", caller.prompt)>>'
    <3>1. Fits' = Fits
      BY <1>1 DEF Fits
    <3>2. Fits => descriptors'[sd'] = <<prompt>>'
      BY <1>1, <1>3, <1>7, <1>8
    <3> QED
      BY <3>1, <3>2 DEF prompt
  <2>3. Fits => \A d \in DOMAIN descriptors' : d = sd' \/ descriptors'[d] = <<>>
    BY <1>1, <1>8 DEF ConnInvariant, HeardInv
  <2> QED
    BY <1>1, <2>1, <2>2, <2>3 DEF HeardInv
<1>10. CmdInv'
  <2>1. at \in Busy /\ at' \in Busy /\ What' = What /\ Stray' = Stray /\ done' = done
    <3>1. at \in Busy /\ at' \in Busy
      BY <1>1 DEF Busy
    <3> QED
      BY <1>1, <3>1, CallGoesOn DEF ConnInvariant, done
  <2>2. What = "acq2sh" => Stray \/ ~ Asked(done)
    BY <1>1, <2>1 DEF ConnInvariant, CmdInv
  <2> QED
    BY <1>1, <1>8, <2>1, <2>2 DEF CmdInv, Asked
<1> QED
  BY <1>8, <1>9, <1>10 DEF ConnInvariant, HearingSafe

\* So is the prompt.
LEMMA ReadPromptKeeps ==
    ASSUME ConnInvariant, ReadPrompt
    PROVE  ConnInvariant'
<1> DEFINE prompt == Text("prompt", caller.prompt)
           texts == AfterLine(descriptors[sd])
<1>1. /\ at = "prompt" /\ at' = "signed" /\ at \in Open /\ at' \in Open
      /\ at \in Busy /\ at' \in Busy
      /\ Hears(texts) /\ UNCHANGED <<caller, called, socks, sd, replies>>
  BY DEF ReadPrompt, Open, Busy
<1>2. texts \in Seq(Texts)
  <2>1. sd \in DOMAIN descriptors
    BY <1>1 DEF ConnInvariant, CallInv
  <2>2. descriptors[sd] \in Seq(Texts) /\ descriptors[sd] # <<>>
    BY <1>1, <2>1 DEF ConnInvariant, CallerTypes, HeardInv
  <2> QED
    BY <2>2, AfterLineTypes
<1>3. Fits => texts = <<>>
  <2>1. Fits => descriptors[sd] = <<prompt>>
    BY <1>1 DEF ConnInvariant, HeardInv
  <2>2. prompt.len = caller.prompt
    BY DEF Text
  <2> HIDE DEF prompt
  <2> QED
    BY <2>1, <2>2, LineFits DEF Fits
<1> HIDE DEF texts
<1>4. /\ HearingSafe'
      /\ What # "acq2sh" => CmdInv'
      /\ DOMAIN descriptors' = DOMAIN descriptors /\ descriptors'[sd] = texts
      /\ \A d \in DOMAIN descriptors : d # sd => descriptors'[d] = descriptors[d]
  BY <1>1, <1>2, HearingKeeps
<1>5. HeardInv'
  <2>1. Fits' = Fits
    BY <1>1 DEF Fits
  <2>2. Fits => \A d \in DOMAIN descriptors' : descriptors'[d] = <<>>
    BY <1>1, <1>3, <1>4 DEF ConnInvariant, HeardInv
  <2> QED
    BY <1>1, <2>1, <2>2 DEF HeardInv
<1>6. CmdInv'
  <2>1. What' = What /\ Stray' = Stray /\ done' = done
    BY <1>1, CallGoesOn DEF ConnInvariant, done
  <2>2. What = "acq2sh" => Stray \/ ~ Asked(done)
    BY <1>1 DEF ConnInvariant, CmdInv
  <2> QED
    BY <1>1, <1>4, <2>1, <2>2 DEF CmdInv, Asked
<1> QED
  BY <1>4, <1>5, <1>6 DEF ConnInvariant, HearingSafe

\* The call is asked: what is left of the prompt stays before its reply.
LEMMA AsksKeeps ==
    ASSUME ConnInvariant, Asks
    PROVE  ConnInvariant'
<1> DEFINE reply == Text("reply", 1)
           texts == Append(descriptors[sd], reply)
<1>1. /\ at = "signed" /\ at' = "asked" /\ at \in Open /\ at' \in Open
      /\ at \in Busy /\ at' \in Busy
      /\ Hears(texts) /\ UNCHANGED <<caller, called, socks, sd, replies>>
  BY DEF Asks, Open, Busy
<1>2. reply \in Texts /\ reply' = reply
  <2>1. called \in Nat
    BY CallerKnown DEF ConnInvariant
  <2>2. reply' = reply
    BY <1>1 DEF Text
  <2> QED
    BY <2>1, <2>2, TextTypes
<1> HIDE DEF reply
<1>3. sd \in DOMAIN descriptors /\ descriptors[sd] \in Seq(Texts)
  BY <1>1 DEF ConnInvariant, CallInv, CallerTypes
<1>4. texts \in Seq(Texts) /\ texts # <<>>
  BY <1>2, <1>3, AppendProperties
<1>5. descriptors[sd] = <<>> => texts = <<reply>>
  <2>1. Append(<<>>, reply) = <<reply>>
    OBVIOUS
  <2> QED
    BY <2>1, Zenon
<1> HIDE DEF texts
<1>6. /\ HearingSafe'
      /\ What # "acq2sh" => CmdInv'
      /\ DOMAIN descriptors' = DOMAIN descriptors /\ descriptors'[sd] = texts
      /\ \A d \in DOMAIN descriptors : d # sd => descriptors'[d] = descriptors[d]
  BY <1>1, <1>4, HearingKeeps
<1>7. HeardInv'
  <2>1. Fits' = Fits
    BY <1>1 DEF Fits
  <2>2. Fits => descriptors'[sd'] = <<reply>>'
    BY <1>1, <1>2, <1>3, <1>5, <1>6 DEF ConnInvariant, HeardInv
  <2>3. Fits => \A d \in DOMAIN descriptors' : d = sd' \/ descriptors'[d] = <<>>
    BY <1>1, <1>6 DEF ConnInvariant, HeardInv
  <2>4. descriptors'[sd'] # <<>>
    BY <1>1, <1>4, <1>6
  <2> QED
    BY <1>1, <2>1, <2>2, <2>3, <2>4 DEF HeardInv, reply
<1>8. CmdInv'
  <2>1. What' = What /\ Stray' = Stray /\ done' = done
    BY <1>1, CallGoesOn DEF ConnInvariant, done
  <2>2. SUFFICES ASSUME What = "acq2sh", ~ Stray, Asked(done) PROVE CmdInv'
    BY <1>1, <1>6, <2>1 DEF CmdInv, Asked
  <2>3. socks["cmd"] # 0 /\ descriptors[sd] = <<>>
    BY <1>1, <2>2 DEF ConnInvariant, CmdInv
  <2>4. descriptors'[sd'] = <<reply>>'
    BY <1>1, <1>2, <1>5, <1>6, <2>3
  <2> QED
    BY <1>1, <2>1, <2>2, <2>3, <2>4 DEF CmdInv, reply
<1> QED
  BY <1>6, <1>7, <1>8 DEF ConnInvariant, HearingSafe

\* What there is of each kind can be counted.
LEMMA Counts ==
    ASSUME CallerTypes
    PROVE  /\ IsFiniteSet(DOMAIN descriptors) /\ Cardinality(DOMAIN descriptors) \in Nat
           /\ IsFiniteSet(KeptSet) /\ Cardinality(KeptSet) \in Nat
           /\ IsFiniteSet(Opened) /\ Cardinality(Opened) \in Nat
           /\ IsFiniteSet({ i \in 1 .. called : caller.calls[i] = "readChannel" })
<1>1. MaxDescriptors \in Nat /\ called \in Nat
  BY CallersAssumption, CallerKnown
<1>2. IsFiniteSet(0 .. MaxDescriptors - 1) /\ IsFiniteSet(1 .. called)
  BY <1>1, FS_Interval
<1>3. IsFiniteSet(DOMAIN descriptors)
  BY <1>2, FS_Subset DEF CallerTypes
<1>4. IsFiniteSet(Sockets)
  <2>1. IsFiniteSet({}) /\ Sockets = ((({}) \cup {"cmd"}) \cup {"stat"}) \cup {"stream"}
    BY FS_EmptySet DEF Sockets
  <2> QED
    BY <2>1, FS_AddElement
<1>5. KeptSet \subseteq Sockets
  BY DEF KeptSet
<1>6. IsFiniteSet(KeptSet)
  BY <1>4, <1>5, FS_Subset
<1> DEFINE reads == { i \in 1 .. called : caller.calls[i] = "readChannel" }
<1>7. IsFiniteSet(reads)
  <2>1. reads \subseteq 1 .. called
    OBVIOUS
  <2> QED
    BY <1>2, <2>1, FS_Subset
<1>8. IsFiniteSet(Opened)
  <2>1. Opened \subseteq reads
    BY DEF Opened
  <2> QED
    BY <1>7, <2>1, FS_Subset
<1> QED
  BY <1>3, <1>6, <1>7, <1>8, FS_CardinalityType

\* A process that dies counts its calls no more.
LEMMA DiesKeeps ==
    ASSUME ConnInvariant, at \in {"socket", "connect"}, Dies
    PROVE  ConnInvariant'
<1>1. at' = "died" /\ UNCHANGED <<caller, called, descriptors, socks, sd, replies>>
      /\ at \in Busy /\ at' \in Busy /\ at' \notin Open
  BY DEF Dies, Busy, Open
<1>2. /\ called \in Nat \ {0} /\ done = called - 1
      /\ What' = What /\ What \in CallNames \ {"stopStreaming"}
      /\ Stray' = Stray
      /\ What = caller.calls[called]
  BY <1>1, CallGoesOn DEF ConnInvariant
<1>3. done' = done
  BY <1>1 DEF done
<1>4. CallerTypes'
  BY <1>1, <1>3 DEF ConnInvariant, CallerTypes
<1>5. CallInv'
  BY <1>1, <1>2 DEF ConnInvariant, CallInv
<1>6. SocksInv'
  BY <1>1, <1>2 DEF ConnInvariant, SocksInv
<1>7. HeardInv'
  BY <1>1 DEF ConnInvariant, HeardInv, Fits
<1>8. CmdInv'
  <2> SUFFICES ASSUME ~ Stray, Asked(done)
               PROVE  socks["cmd"] # 0 /\ What # "acq2sh" /\ descriptors[socks["cmd"]] = <<>>
    BY <1>1, <1>2, <1>3 DEF CmdInv, Asked
  <2> QED
    BY <1>1 DEF ConnInvariant, CmdInv
<1>9. StreamInv'
  <2>1. Streamed(done + 1)' = Streamed(done + 1)
    BY <1>1, <1>3 DEF Streamed
  <2> QED
    BY <1>1, <1>2, <2>1 DEF ConnInvariant, StreamInv
<1>10. OwnReplies'
  BY <1>1, <1>2, RepliesStay DEF ConnInvariant
<1>11. CountInv'
  <2> DEFINE D == Cardinality(DOMAIN descriptors)
             K == Cardinality(KeptSet)
             reads == { i \in 1 .. called : caller.calls[i] = "readChannel" }
             o == Cardinality(Opened)
  <2>1. D \in Nat /\ K \in Nat /\ o \in Nat /\ IsFiniteSet(reads)
    BY Counts DEF ConnInvariant
  <2>2. Opened' = reads \ {called} /\ KeptSet' = KeptSet
    BY <1>1 DEF Opened, KeptSet
  <2>3. Cardinality(Opened') \in {o, o - 1}
    <3>1. CASE at = "socket"
      BY <2>2, <3>1 DEF Opened
    <3>2. CASE at = "connect"
      <4>1. Opened = reads
        BY <3>2 DEF Opened
      <4> HIDE DEF reads
      <4>2. Cardinality(reads \ {called})
              = IF called \in reads THEN Cardinality(reads) - 1 ELSE Cardinality(reads)
        BY <2>1, FS_RemoveElement
      <4> QED
        BY <2>2, <4>1, <4>2
    <3> QED
      BY <3>1, <3>2
  <2>4. ~ Stray => D - 3 - K - o = 0
    BY DEF ConnInvariant, CountInv, Extra
  <2>5. Extra' = D - 3 - K - Cardinality(Opened')
    BY <1>1, <2>2 DEF Extra
  <2> HIDE DEF D, K, o
  <2>6. ~ Stray => Extra' \in {0, 1}
    <3> DEFINE p == Cardinality(Opened')
    <3>1. p \in {o, o - 1} /\ Extra' = D - 3 - K - p
      BY <2>3, <2>5
    <3> HIDE DEF p
    <3> QED
      BY <2>1, <2>4, <3>1
  <2> QED
    BY <1>1, <1>2, <2>6 DEF CountInv
<1> QED
  BY <1>4, <1>5, <1>6, <1>7, <1>8, <1>9, <1>10, <1>11 DEF ConnInvariant

\* The card accepts the connection and greets.
LEMMA ConnectToKeeps ==
    ASSUME ConnInvariant, ConnectTo
    PROVE  ConnInvariant'
<1> DEFINE texts == <<Text("greeting", caller.greeting)>>
<1>1. at = "connect"
  BY DEF ConnectTo
<1>2. CASE Dies
  BY <1>1, <1>2, DiesKeeps
<1>3. CASE /\ Hears(texts) /\ at' = "greeting"
           /\ UNCHANGED <<caller, called, socks, sd, replies>>
  <2>1. at \in Open /\ at' \in Open /\ at \in Busy /\ at' \in Busy
    BY <1>1, <1>3 DEF Open, Busy
  <2>2. texts \in Seq(Texts) /\ texts' = texts
    <3>1. called \in Nat /\ caller.greeting \in Nat
      BY CallerKnown DEF ConnInvariant
    <3>2. Text("greeting", caller.greeting) \in Texts
      BY <3>1, TextTypes
    <3>3. texts' = texts
      BY <1>3 DEF Text
    <3> QED
      BY <3>2, <3>3
  <2> HIDE DEF texts
  <2>3. /\ HearingSafe'
        /\ What # "acq2sh" => CmdInv'
        /\ DOMAIN descriptors' = DOMAIN descriptors /\ descriptors'[sd] = texts
        /\ \A d \in DOMAIN descriptors : d # sd => descriptors'[d] = descriptors[d]
    BY <1>3, <2>1, <2>2, HearingKeeps
  <2>4. HeardInv'
    <3>1. Fits' = Fits
      BY <1>3 DEF Fits
    <3>2. descriptors'[sd'] = texts'
      BY <1>3, <2>2, <2>3
    <3>3. Fits => \A d \in DOMAIN descriptors' : d = sd' \/ descriptors'[d] = <<>>
      BY <1>1, <1>3, <2>3 DEF ConnInvariant, HeardInv
    <3> QED
      BY <1>3, <3>1, <3>2, <3>3 DEF HeardInv, texts
  <2>5. CmdInv'
    <3>1. What' = What /\ Stray' = Stray /\ done' = done
      BY <1>3, <2>1, CallGoesOn DEF ConnInvariant, done
    <3>2. What = "acq2sh" => Stray \/ ~ Asked(done)
      BY <1>1, <2>1 DEF ConnInvariant, CmdInv
    <3> QED
      BY <1>3, <2>1, <2>3, <3>1, <3>2 DEF CmdInv, Asked
  <2> QED
    BY <2>3, <2>4, <2>5 DEF ConnInvariant, HearingSafe
<1> QED
  BY <1>2, <1>3 DEF ConnectTo

\* socket() gives the least descriptor that is free, or the call dies.
LEMMA GetSockKeeps ==
    ASSUME ConnInvariant, GetSock
    PROVE  ConnInvariant'
<1>1. at = "socket" /\ at \in Busy
  BY DEF GetSock, Busy
<1>2. CASE Cardinality(DOMAIN descriptors) = MaxDescriptors
  BY <1>1, <1>2, DiesKeeps DEF GetSock
<1>3. CASE Cardinality(DOMAIN descriptors) # MaxDescriptors
  <2>1. /\ sd' \in 0 .. MaxDescriptors - 1 /\ sd' \notin DOMAIN descriptors
        /\ descriptors' = [d \in DOMAIN descriptors \cup {sd'} |->
                         IF d = sd' THEN <<>> ELSE descriptors[d]]
        /\ socks' = IF Kept THEN [socks EXCEPT ![SocketOf[What]] = sd'] ELSE socks
        /\ at' = "connect"
        /\ UNCHANGED <<caller, called, replies>>
    BY <1>3, FreeDescriptor DEF GetSock, ConnInvariant
  <2>2. /\ DOMAIN descriptors' = DOMAIN descriptors \cup {sd'}
        /\ descriptors'[sd'] = <<>>
        /\ \A d \in DOMAIN descriptors : descriptors'[d] = descriptors[d] /\ d # sd'
    BY <2>1
  <2>3. descriptors' \in [DOMAIN descriptors' -> Seq(Texts)]
    <3>1. <<>> \in Seq(Texts)
      BY EmptySeq
    <3>2. \A d \in DOMAIN descriptors : descriptors[d] \in Seq(Texts)
      BY DEF ConnInvariant, CallerTypes
    <3>3. \A d \in DOMAIN descriptors' : descriptors'[d] \in Seq(Texts)
      BY <2>2, <3>1, <3>2
    <3>4. descriptors' = [d \in DOMAIN descriptors' |-> descriptors'[d]]
      BY <2>1
    <3> HIDE DEF Texts
    <3> QED
      BY <3>3, <3>4
  <2>4. at \in Busy /\ at' \in Busy /\ at' \in Open
    BY <1>1, <2>1 DEF Busy, Open
  <2>5. /\ called \in Nat \ {0} /\ done = called - 1
        /\ What' = What /\ Kept' = Kept /\ What \in CallNames \ {"stopStreaming"}
        /\ Stray' = Stray
        /\ What = caller.calls[called]
    BY <2>1, <2>4, CallGoesOn DEF ConnInvariant
  <2>6. done' = done
    BY <2>1, <2>4 DEF done
  <2> DEFINE k == SocketOf[What]
  <2>7. Kept => /\ k \in Sockets /\ (k = "cmd" <=> What = "acq2sh")
                /\ (k = "stream" <=> What = "readStreamingFrame")
                /\ What # "readChannel"
    BY <2>5, SocketNames DEF Kept
  <2>8. ~ Kept => What = "readChannel"
    BY <2>5, SocketNames DEF Kept
  <2> HIDE DEF k
  <2>9. /\ \A j \in Sockets : socks'[j] = IF Kept /\ j = k THEN sd' ELSE socks[j]
        /\ socks' \in [Sockets -> 0 .. MaxDescriptors]
    <3>1. socks \in [Sockets -> 0 .. MaxDescriptors] /\ MaxDescriptors \in Nat
      BY CallersAssumption DEF ConnInvariant, CallerTypes
    <3>2. sd' \in 0 .. MaxDescriptors
      BY <2>1, <3>1
    <3>3. socks' = IF Kept THEN [socks EXCEPT ![k] = sd'] ELSE socks
      BY <2>1 DEF k
    <3> QED
      BY <2>7, <3>1, <3>2, <3>3
  <2>10. Kept => socks[k] = 0
    BY <1>1 DEF ConnInvariant, CallInv, k
  <2>11. CallerTypes'
    <3>1. MaxDescriptors \in Nat
      BY CallersAssumption
    <3>2. sd' \in 0 .. MaxDescriptors /\ DOMAIN descriptors' \subseteq 0 .. MaxDescriptors - 1
      BY <2>1, <2>2, <3>1 DEF ConnInvariant, CallerTypes
    <3> QED
      BY <2>1, <2>3, <2>4, <2>6, <2>9, <3>2 DEF ConnInvariant, CallerTypes
  <2>12. CallInv'
    <3>1. sd' \in DOMAIN descriptors'
      BY <2>2
    <3>2. Kept => socks'[k] = sd'
      BY <2>7, <2>9
    <3>3. ~ Kept => \A j \in Sockets : socks'[j] # 0 => socks'[j] # sd'
      BY <2>1, <2>9 DEF ConnInvariant, SocksInv
    <3> QED
      BY <2>1, <2>5, <3>1, <3>2, <3>3 DEF CallInv, k
  <2>13. SocksInv'
    <3>1. \A j \in Sockets : socks'[j] # 0 => socks'[j] \in DOMAIN descriptors'
      BY <2>2, <2>9 DEF ConnInvariant, SocksInv
    <3>2. ASSUME NEW i \in Sockets, NEW j \in Sockets, i # j, socks'[i] # 0
          PROVE  socks'[i] # socks'[j]
      BY <2>1, <2>9, <3>2 DEF ConnInvariant, SocksInv
    <3>3. ~ Stray => sd' \notin {0, 1, 2}
      BY <2>1 DEF ConnInvariant, SocksInv
    <3>4. ~ Stray => \A j \in Sockets : socks'[j] \notin {1, 2}
      BY <2>9, <3>3 DEF ConnInvariant, SocksInv
    <3>5. ~ Stray => {0, 1, 2} \subseteq DOMAIN descriptors'
      BY <2>2 DEF ConnInvariant, SocksInv
    <3> QED
      BY <2>5, <3>1, <3>2, <3>3, <3>4, <3>5 DEF SocksInv
  <2>14. HeardInv'
    <3>1. Fits' = Fits
      BY <2>1 DEF Fits
    <3>2. Fits => \A d \in DOMAIN descriptors' : descriptors'[d] = <<>>
      BY <1>1, <2>2 DEF ConnInvariant, HeardInv
    <3> QED
      BY <2>1, <2>2, <3>1, <3>2 DEF HeardInv
  <2>15. CmdInv'
    <3> SUFFICES ASSUME ~ Stray, Asked(done)
                 PROVE  /\ What # "acq2sh" /\ socks'["cmd"] # 0
                        /\ descriptors'[socks'["cmd"]] = <<>>
      BY <2>1, <2>5, <2>6 DEF CmdInv, Asked
    <3>1. What # "acq2sh" /\ socks["cmd"] # 0 /\ descriptors[socks["cmd"]] = <<>>
      BY <1>1 DEF ConnInvariant, CmdInv, Busy
    <3>2. "cmd" \in Sockets
      BY DEF Sockets
    <3>3. socks'["cmd"] = socks["cmd"] /\ socks["cmd"] \in DOMAIN descriptors
      BY <2>7, <2>9, <3>1, <3>2 DEF ConnInvariant, SocksInv
    <3> QED
      BY <2>2, <3>1, <3>3
  <2>16. StreamInv'
    <3>1. Streamed(done + 1)' = Streamed(done + 1)
      BY <2>1, <2>6 DEF Streamed
    <3> SUFFICES ASSUME ~ Stray, Streamed(done + 1) PROVE socks'["stream"] # 0
      BY <2>5, <3>1 DEF StreamInv
    <3>2. socks["stream"] # 0 /\ "stream" \in Sockets
      BY DEF ConnInvariant, StreamInv, Sockets
    <3> QED
      BY <2>9, <2>10, <3>2
  <2>17. OwnReplies'
    BY <2>1, <2>5, RepliesStay DEF ConnInvariant
  <2>18. CountInv'
    <3> SUFFICES ASSUME ~ Stray PROVE Extra' = 0
      BY <2>1, <2>5 DEF CountInv
    <3> DEFINE reads == { i \in 1 .. called : caller.calls[i] = "readChannel" }
               D == Cardinality(DOMAIN descriptors)
               K == Cardinality(KeptSet)
               o == Cardinality(Opened)
    <3>1. /\ IsFiniteSet(DOMAIN descriptors) /\ D \in Nat /\ IsFiniteSet(KeptSet) /\ K \in Nat
          /\ IsFiniteSet(Opened) /\ o \in Nat /\ IsFiniteSet(reads)
      BY Counts DEF ConnInvariant
    <3>2. Cardinality(DOMAIN descriptors') = D + 1
      BY <2>1, <2>2, <3>1, FS_AddElement
    <3>3. D - 3 - K - o = 0
      BY <1>1 DEF ConnInvariant, CountInv, Extra
    <3>4. Opened = reads \ {called} /\ Opened' = reads
      BY <1>1, <2>1 DEF Opened
    <3>5. sd' # 0
      BY <2>1 DEF ConnInvariant, SocksInv
    <3>6. CASE Kept
      <4>1. Opened' = Opened
        BY <2>5, <2>7, <3>4, <3>6
      <4>2. KeptSet' = KeptSet \cup {k} /\ k \notin KeptSet
        BY <2>7, <2>9, <2>10, <3>5, <3>6 DEF KeptSet
      <4>3. Cardinality(KeptSet') = K + 1
        BY <3>1, <4>2, FS_AddElement
      <4>4. Extra' = (D + 1) - 3 - (K + 1) - o
        BY <3>2, <4>1, <4>3 DEF Extra
      <4> HIDE DEF D, K, o
      <4> QED
        BY <3>1, <3>3, <4>4
    <3>7. CASE ~ Kept
      <4>1. called \in reads /\ Opened' = Opened \cup {called} /\ called \notin Opened
        BY <2>5, <2>8, <3>4, <3>7
      <4>2. Cardinality(Opened') = o + 1
        BY <3>1, <4>1, FS_AddElement
      <4>3. KeptSet' = KeptSet
        BY <2>9, <3>7 DEF KeptSet
      <4>4. Extra' = (D + 1) - 3 - K - (o + 1)
        BY <3>2, <4>2, <4>3 DEF Extra
      <4> HIDE DEF D, K, o
      <4> QED
        BY <3>1, <3>3, <4>4
    <3> QED
      BY <3>6, <3>7
  <2> QED
    BY <2>11, <2>12, <2>13, <2>14, <2>15, <2>16, <2>17, <2>18 DEF ConnInvariant
<1> QED
  BY <1>2, <1>3

\* A call that returns has its reply behind those of the calls before it.
LEMMA ReplyAdded ==
    ASSUME CallerTypes, NEW reply \in Seq(Texts), replies' = Append(replies, reply),
           done \in Nat
    PROVE  /\ replies' \in Seq(Seq(Texts)) /\ Len(replies') = done + 1
           /\ DOMAIN replies = 1 .. done /\ DOMAIN replies' = 1 .. done + 1
           /\ replies'[done + 1] = reply
           /\ \A i \in DOMAIN replies : replies'[i] = replies[i]
<1> DEFINE T == Seq(Texts)
<1>1. replies \in Seq(T) /\ Len(replies) = done /\ reply \in T
  BY DEF CallerTypes
<1> HIDE DEF T
<1>2. /\ replies' \in Seq(T) /\ Len(replies') = done + 1
      /\ \A i \in 1 .. done : replies'[i] = replies[i]
      /\ replies'[done + 1] = reply
  BY <1>1, AppendProperties
<1>3. DOMAIN replies = 1 .. done /\ DOMAIN replies' = 1 .. done + 1
  BY <1>1, <1>2, LenProperties
<1> QED
  BY <1>2, <1>3 DEF T

\* A reply that is taken is that of its call.
LEMMA TakeReplyKeeps ==
    ASSUME ConnInvariant, TakeReply
    PROVE  ConnInvariant'
<1> DEFINE heard == descriptors[sd]
           reply == IF What = "acq2sh" THEN heard ELSE <<Head(heard)>>
           rest == IF What = "acq2sh" THEN <<>> ELSE Tail(heard)
           whole == <<[what |-> "reply", call |-> called, len |-> 1]>>
<1>1. /\ at = "asked" /\ at' = "returned" /\ at \in Busy /\ at' \notin Busy
      /\ at \in Open /\ at' \notin Open
      /\ UNCHANGED <<caller, called, socks, sd>>
  BY DEF TakeReply, Busy, Open
<1>2. replies' = Append(replies, reply) /\ Hears(rest)
  BY DEF TakeReply
<1>3. /\ called \in Nat \ {0} /\ done = called - 1 /\ called \in 1 .. Len(caller.calls)
      /\ What' = What /\ Kept' = Kept /\ What \in CallNames \ {"stopStreaming"}
      /\ Stray' = Stray
      /\ What = caller.calls[called]
  BY <1>1, CallGoesOn DEF ConnInvariant
<1>4. done' = done + 1 /\ done' = called /\ done \in Nat
  BY <1>1, <1>3 DEF done
<1>5. sd \in DOMAIN descriptors /\ heard \in Seq(Texts) /\ heard # <<>>
  BY <1>1 DEF ConnInvariant, CallInv, CallerTypes, HeardInv
<1>6. reply \in Seq(Texts) /\ rest \in Seq(Texts)
  <2>1. Head(heard) \in Texts /\ Tail(heard) \in Seq(Texts) /\ <<>> \in Seq(Texts)
    BY <1>5, HeadTailProperties, EmptySeq
  <2> HIDE DEF heard
  <2>2. <<Head(heard)>> \in Seq(Texts)
    BY <2>1
  <2> QED
    BY <1>5, <2>1, <2>2, Zenon
<1>7. heard = whole => reply = whole /\ rest = <<>>
  <2> HIDE DEF heard
  <2> QED
    OBVIOUS
<1>8. What = "acq2sh" => reply = heard /\ rest = <<>>
  OBVIOUS
<1>9. <<Text("reply", 1)>> = whole
  BY DEF Text
<1> HIDE DEF heard, reply, rest, whole
<1>10. /\ DOMAIN descriptors' = DOMAIN descriptors /\ descriptors'[sd] = rest
       /\ \A d \in DOMAIN descriptors : d # sd => descriptors'[d] = descriptors[d]
  BY <1>2, <1>5 DEF Hears
<1>11. /\ replies' \in Seq(Seq(Texts)) /\ Len(replies') = done + 1
       /\ DOMAIN replies = 1 .. done /\ DOMAIN replies' = 1 .. done + 1
       /\ replies'[done + 1] = reply
       /\ \A i \in DOMAIN replies : replies'[i] = replies[i]
  BY <1>2, <1>4, <1>6, ReplyAdded DEF ConnInvariant
<1>12. CallerTypes'
  <2>1. descriptors' \in [DOMAIN descriptors' -> Seq(Texts)]
    BY <1>2, <1>5, <1>6, <1>10 DEF ConnInvariant, CallerTypes, Hears
  <2> QED
    BY <1>1, <1>4, <1>10, <1>11, <2>1 DEF ConnInvariant, CallerTypes
<1>13. CallInv'
  BY <1>1 DEF CallInv, Busy
<1>14. SocksInv'
  BY <1>1, <1>3, <1>10 DEF ConnInvariant, SocksInv
<1>15. HeardInv'
  <2>1. Fits' = Fits
    BY <1>1 DEF Fits
  <2>2. Fits => heard = whole
    BY <1>1, <1>9 DEF ConnInvariant, HeardInv, heard
  <2>3. Fits => \A d \in DOMAIN descriptors' : descriptors'[d] = <<>>
    BY <1>1, <1>7, <1>10, <2>2 DEF ConnInvariant, HeardInv
  <2> QED
    BY <1>1, <2>1, <2>3 DEF HeardInv
<1> DEFINE w == socks["cmd"]
<1>16. CmdInv'
  <2> SUFFICES ASSUME ~ Stray, Asked(done')
               PROVE  w # 0 /\ descriptors'[w] = <<>>
    BY <1>1, <1>3 DEF CmdInv, Asked
  <2>1. "cmd" \in Sockets
    BY DEF Sockets
  <2>2. CASE What = "acq2sh"
    <3>1. Kept /\ SocketOf[What] = "cmd"
      BY <2>2, SocketNames DEF Kept
    <3>2. w = sd /\ sd # 0
      BY <1>1, <3>1 DEF ConnInvariant, CallInv, SocksInv
    <3> QED
      BY <1>8, <1>10, <2>2, <3>2
  <2>3. CASE What # "acq2sh"
    <3>1. Asked(done)
      BY <1>3, <1>4, <2>3 DEF Asked
    <3>2. w # 0 /\ descriptors[w] = <<>>
      BY <2>3, <3>1 DEF ConnInvariant, CmdInv
    <3>3. w # sd
      <4>1. CASE Kept
        <5> DEFINE k == SocketOf[What]
        <5>1. k \in Sockets /\ k # "cmd" /\ socks[k] = sd
          BY <1>1, <2>3, <4>1, SocketNames DEF Kept, ConnInvariant, CallInv
        <5> HIDE DEF k
        <5> QED
          BY <2>1, <3>2, <5>1 DEF ConnInvariant, SocksInv
      <4>2. CASE ~ Kept
        BY <1>1, <2>1, <3>2, <4>2 DEF ConnInvariant, CallInv
      <4> QED
        BY <4>1, <4>2
    <3>4. w \in DOMAIN descriptors
      BY <2>1, <3>2 DEF ConnInvariant, SocksInv
    <3> QED
      BY <1>10, <3>2, <3>3, <3>4
  <2> QED
    BY <2>2, <2>3
<1>17. StreamInv'
  <2> SUFFICES ASSUME ~ Stray, Streamed(done + 1)' PROVE socks["stream"] # 0
    BY <1>1, <1>3 DEF StreamInv
  <2>1. CASE What = "readStreamingFrame"
    <3>1. Kept /\ SocketOf[What] = "stream"
      BY <2>1, SocketNames DEF Kept
    <3> QED
      BY <1>1, <3>1 DEF ConnInvariant, CallInv, SocksInv
  <2>2. CASE What # "readStreamingFrame"
    <3>1. Streamed(done + 1)
      <4>1. DOMAIN caller.calls \subseteq Int
        <5>1. caller.calls \in Seq(CallNames)
          BY CallerKnown DEF ConnInvariant
        <5> QED
          BY <5>1, LenProperties
      <4>2. \E j \in DOMAIN caller.calls :
              /\ j < called + 1 /\ caller.calls[j] = "readStreamingFrame"
              /\ \A k \in DOMAIN caller.calls :
                   j < k /\ k < called + 1 => caller.calls[k] # "stopStreaming"
        BY <1>1, <1>4 DEF Streamed
      <4>3. \A j \in DOMAIN caller.calls :
               caller.calls[j] = "readStreamingFrame" /\ j < called + 1 => j < called
        BY <1>3, <2>2, <4>1
      <4>4. \A k \in DOMAIN caller.calls : k < called => k < called + 1
        BY <1>3, <4>1
      <4>5. done + 1 = called
        BY <1>3
      <4> QED
        BY <4>2, <4>3, <4>4, <4>5 DEF Streamed
    <3> QED
      BY <3>1 DEF ConnInvariant, StreamInv
  <2> QED
    BY <2>1, <2>2
<1>18. OwnReplies'
  <2>1. reply = whole \/ ((caller.greeting > LINE \/ caller.prompt > LINE)
                        /\ (What = "acq2sh" =>
                              Stray \/ \A j \in 1 .. called - 1 : caller.calls[j] # What))
    <3>1. Fits => heard = whole
      BY <1>1, <1>9 DEF ConnInvariant, HeardInv, heard
    <3>2. ~ Fits => caller.greeting > LINE \/ caller.prompt > LINE
      <4>1. caller.greeting \in Nat /\ caller.prompt \in Nat /\ LINE \in Nat
        BY CallerKnown, CallersAssumption DEF ConnInvariant
      <4> QED
        BY <4>1 DEF Fits
    <3>3. What = "acq2sh" /\ ~ Stray /\ Asked(done) => heard = whole
      BY <1>1, <1>9 DEF ConnInvariant, CmdInv, heard
    <3>4. What = "acq2sh" /\ ~ Asked(done) => \A j \in 1 .. called - 1 : caller.calls[j] # What
      BY <1>3 DEF Asked
    <3> QED
      BY <1>7, <3>1, <3>2, <3>3, <3>4
  <2>2. done + 1 = called
    BY <1>3
  <2> SUFFICES ASSUME NEW i \in DOMAIN replies'
               PROVE  \/ caller.calls[i] = "stopStreaming"
                      \/ replies'[i] = <<[what |-> "reply", call |-> i, len |-> 1]>>
                      \/ /\ caller.greeting > LINE \/ caller.prompt > LINE
                         /\ caller.calls[i] = "acq2sh" =>
                              (\A j \in 1 .. i - 1 : caller.calls[j] # caller.calls[i]) \/ Stray
    BY <1>1, <1>3 DEF OwnReplies
  <2>3. CASE i \in DOMAIN replies
    BY <1>11, <2>3 DEF ConnInvariant, OwnReplies
  <2>4. CASE i \notin DOMAIN replies
    <3>1. i = called /\ replies'[i] = reply
      BY <1>4, <1>11, <2>2, <2>4
    <3> QED
      BY <1>3, <2>1, <3>1 DEF whole
  <2> QED
    BY <2>3, <2>4
<1>19. CountInv'
  <2>1. Opened' = Opened
    BY <1>1 DEF Opened
  <2> QED
    BY <1>1, <1>3, <1>10, <2>1 DEF ConnInvariant, CountInv, Extra, KeptSet
<1> QED
  BY <1>12, <1>13, <1>14, <1>15, <1>16, <1>17, <1>18, <1>19 DEF ConnInvariant

\* stopStreaming() closes what it believes to be its connection.
LEMMA StopStreamingKeeps ==
    ASSUME ConnInvariant, StopStreaming
    PROVE  ConnInvariant'
<1> DEFINE s == socks["stream"]
<1>1. /\ Calling({"stopStreaming"})
      /\ descriptors' = [d \in DOMAIN descriptors \ {s} |-> descriptors[d]]
      /\ socks' = [socks EXCEPT !["stream"] = 0]
      /\ replies' = Append(replies, <<>>)
      /\ UNCHANGED <<at, sd>>
  BY DEF StopStreaming
<1>2. CallerTypes
  BY DEF ConnInvariant
<1>3. /\ at = "returned" /\ done = called /\ called \in Nat
      /\ called' = called + 1 /\ caller' = caller
      /\ called' \in 1 .. Len(caller.calls)
      /\ What' = caller.calls[called + 1] /\ What' = "stopStreaming"
      /\ (Stray => Stray') /\ (~ Stray' => ~ Stray /\ Streamed(called + 1))
  BY <1>1, <1>2, CallBegins
<1>4. at \notin Busy /\ at' \notin Busy /\ at' \notin Open /\ done' = called + 1
  BY <1>1, <1>3 DEF Busy, Open, done
<1>5. /\ DOMAIN descriptors' = DOMAIN descriptors \ {s}
      /\ \A d \in DOMAIN descriptors' : descriptors'[d] = descriptors[d]
  BY <1>1
<1>6. /\ "stream" \in Sockets /\ "cmd" \in Sockets
      /\ \A k \in Sockets : socks'[k] = IF k = "stream" THEN 0 ELSE socks[k]
      /\ socks' \in [Sockets -> 0 .. MaxDescriptors]
  <2>1. socks \in [Sockets -> 0 .. MaxDescriptors] /\ "stream" \in Sockets /\ "cmd" \in Sockets
    BY <1>2 DEF CallerTypes, Sockets
  <2>2. 0 \in 0 .. MaxDescriptors
    BY CallersAssumption
  <2> QED
    BY <1>1, <2>1, <2>2
<1>7. /\ replies' \in Seq(Seq(Texts)) /\ Len(replies') = done + 1
      /\ DOMAIN replies = 1 .. done /\ DOMAIN replies' = 1 .. done + 1
      /\ \A i \in DOMAIN replies : replies'[i] = replies[i]
  <2>1. <<>> \in Seq(Texts) /\ done \in Nat
    BY <1>3, EmptySeq
  <2> QED
    BY <1>1, <1>2, <2>1, ReplyAdded
<1>8. ~ Stray' => s # 0
  BY <1>3 DEF ConnInvariant, StreamInv
<1>9. s # 0 => \A k \in Sockets : k # "stream" => socks[k] # s
  BY <1>6 DEF ConnInvariant, SocksInv
<1> HIDE DEF s
<1>10. CallerTypes'
  <2>1. descriptors' \in [DOMAIN descriptors' -> Seq(Texts)]
    BY <1>1, <1>2, <1>5 DEF CallerTypes
  <2> QED
    BY <1>1, <1>2, <1>3, <1>4, <1>5, <1>6, <1>7, <2>1 DEF CallerTypes
<1>11. CallInv'
  BY <1>1, <1>3, <1>4 DEF CallInv
<1>12. SocksInv'
  <2>1. ASSUME NEW k \in Sockets, socks'[k] # 0 PROVE socks'[k] \in DOMAIN descriptors'
    <3>1. k # "stream" /\ socks'[k] = socks[k] /\ socks[k] # 0
      BY <1>6, <2>1
    <3>2. socks[k] # s
      BY <1>6, <3>1 DEF ConnInvariant, SocksInv, s
    <3> QED
      BY <1>5, <3>1, <3>2 DEF ConnInvariant, SocksInv
  <2>2. \A j, k \in Sockets : j # k /\ socks'[j] # 0 => socks'[j] # socks'[k]
    BY <1>6 DEF ConnInvariant, SocksInv
  <2>3. ASSUME ~ Stray' PROVE {0, 1, 2} \subseteq DOMAIN descriptors'
    <3>1. s \notin {0, 1, 2}
      BY <1>3, <1>6, <1>8, <2>3 DEF ConnInvariant, SocksInv, s
    <3> QED
      BY <1>3, <1>5, <2>3, <3>1 DEF ConnInvariant, SocksInv
  <2>4. ~ Stray' => \A k \in Sockets : socks'[k] \notin {1, 2}
    BY <1>3, <1>6 DEF ConnInvariant, SocksInv
  <2> QED
    BY <1>4, <2>1, <2>2, <2>3, <2>4 DEF SocksInv
<1>13. HeardInv'
  BY <1>1, <1>3, <1>5 DEF ConnInvariant, HeardInv, Fits
<1>14. CmdInv'
  <2> DEFINE w == socks["cmd"]
  <2> SUFFICES ASSUME ~ Stray', Asked(called + 1)
               PROVE  w # 0 /\ descriptors'[w] = <<>>
    BY <1>3, <1>4, <1>6 DEF CmdInv, Asked
  <2>1. Asked(done)
    <3>1. PICK j \in 1 .. called + 1 : caller.calls[j] = "acq2sh"
      BY DEF Asked
    <3>2. j # called + 1
      BY <1>3, <3>1
    <3>3. j \in 1 .. called
      <4>1. called \in Nat /\ j \in 1 .. called + 1
        BY <1>3
      <4> QED
        BY <3>2, <4>1
    <3> QED
      BY <1>3, <3>1, <3>3 DEF Asked
  <2>2. w # 0 /\ descriptors[w] = <<>>
    BY <1>3, <1>4, <2>1 DEF ConnInvariant, CmdInv
  <2>3. w \in DOMAIN descriptors'
    BY <1>5, <1>6, <1>8, <1>9, <2>2 DEF ConnInvariant, SocksInv
  <2> QED
    BY <1>5, <2>2, <2>3
<1>15. StreamInv'
  <2> SUFFICES ASSUME Streamed(done + 1)' PROVE FALSE
    BY DEF StreamInv
  <2>1. caller.calls \in Seq(CallNames)
    BY <1>2, CallerKnown
  <2>2. DOMAIN caller.calls = 1 .. Len(caller.calls) /\ Len(caller.calls) \in Nat
    BY <2>1, LenProperties
  <2>3. PICK j \in DOMAIN caller.calls :
          /\ j < called + 2 /\ caller.calls[j] = "readStreamingFrame"
          /\ \A k \in DOMAIN caller.calls :
               j < k /\ k < called + 2 => caller.calls[k] # "stopStreaming"
    <3>1. done' + 1 = called + 2
      BY <1>3, <1>4
    <3> QED
      BY <1>3, <3>1 DEF Streamed
  <2>4. /\ called \in Nat /\ called + 1 \in DOMAIN caller.calls
        /\ caller.calls[called + 1] = "stopStreaming"
    BY <1>3, <2>2
  <2>5. j # called + 1 /\ j \in Nat
    BY <2>2, <2>3, <2>4
  <2>6. j < called + 1 /\ called + 1 < called + 2
    <3>1. called \in Nat /\ j < called + 2
      BY <2>3, <2>4
    <3> QED
      BY <2>5, <3>1
  <2> QED
    BY <2>3, <2>4, <2>6
<1>16. OwnReplies'
  <2> SUFFICES ASSUME NEW i \in DOMAIN replies'
               PROVE  \/ caller.calls[i] = "stopStreaming"
                      \/ replies'[i] = <<[what |-> "reply", call |-> i, len |-> 1]>>
                      \/ /\ caller.greeting > LINE \/ caller.prompt > LINE
                         /\ caller.calls[i] = "acq2sh" =>
                              (\A j \in 1 .. i - 1 : caller.calls[j] # caller.calls[i]) \/ Stray'
    BY <1>3 DEF OwnReplies
  <2>1. CASE i \in DOMAIN replies
    BY <1>3, <1>7, <2>1 DEF ConnInvariant, OwnReplies
  <2>2. CASE i \notin DOMAIN replies
    <3>1. i = called + 1
      BY <1>3, <1>7, <2>2
    <3> QED
      BY <1>3, <3>1
  <2> QED
    BY <2>1, <2>2
<1>17. CountInv'
  <2> SUFFICES ASSUME ~ Stray' PROVE Extra' = 0
    BY <1>1, <1>3 DEF CountInv
  <2> DEFINE D == Cardinality(DOMAIN descriptors)
             K == Cardinality(KeptSet)
             o == Cardinality(Opened)
  <2>1. /\ IsFiniteSet(DOMAIN descriptors) /\ D \in Nat /\ IsFiniteSet(KeptSet) /\ K \in Nat
        /\ o \in Nat
    BY <1>2, Counts
  <2>2. s \in DOMAIN descriptors /\ "stream" \in KeptSet
    BY <1>6, <1>8 DEF ConnInvariant, SocksInv, KeptSet, s
  <2>3. KeptSet' = KeptSet \ {"stream"}
    BY <1>6 DEF KeptSet
  <2>4. Cardinality(DOMAIN descriptors') = D - 1
    BY <1>5, <2>1, <2>2, FS_RemoveElement
  <2>5. Cardinality(KeptSet') = K - 1
    BY <2>1, <2>2, <2>3, FS_RemoveElement
  <2>6. Opened' = Opened
    <3> DEFINE reads == { i \in 1 .. called : caller.calls[i] = "readChannel" }
    <3>1. 1 .. called + 1 = 1 .. called \cup {called + 1}
      BY <1>3
    <3>2. reads' = reads
      BY <1>3, <3>1
    <3>3. Opened = reads /\ Opened' = reads'
      BY <1>1, <1>3 DEF Opened
    <3> QED
      BY <3>2, <3>3
  <2>7. D - 3 - K - o = 0
    BY <1>3 DEF ConnInvariant, CountInv, Extra
  <2>8. Extra' = (D - 1) - 3 - (K - 1) - o
    BY <2>4, <2>5, <2>6 DEF Extra
  <2> HIDE DEF D, K, o
  <2> QED
    BY <2>1, <2>7, <2>8
<1> QED
  BY <1>10, <1>11, <1>12, <1>13, <1>14, <1>15, <1>16, <1>17 DEF ConnInvariant

\* The invariant of the connections is inductive.
LEMMA ConnectionsKeep == ConnInvariant /\ [ConnectionsNext]_connections => ConnInvariant'
<1> SUFFICES ASSUME ConnInvariant, [ConnectionsNext]_connections PROVE ConnInvariant'
  OBVIOUS
<1>1. CASE ConnectionsNext
  BY <1>1, FindSocketKeeps, ReadChannelKeeps, StopStreamingKeeps, GetSockKeeps, ConnectToKeeps,
     ReadGreetingKeeps, ReadPromptKeeps, AsksKeeps, TakeReplyKeeps DEF ConnectionsNext
<1>2. CASE UNCHANGED connections
  <2>1. /\ caller' = caller /\ called' = called /\ at' = at /\ descriptors' = descriptors
        /\ socks' = socks /\ sd' = sd /\ replies' = replies
    BY <1>2 DEF connections
  <2>2. /\ CallerTypes' /\ CallInv' /\ SocksInv' /\ HeardInv' /\ CmdInv' /\ StreamInv'
    BY <2>1 DEF ConnInvariant, CallerTypes, CallInv, SocksInv, HeardInv, CmdInv, StreamInv, done,
       What, Kept, Stray, Streamed, Fits, Text, Asked
  <2>3. OwnReplies' /\ CountInv'
    BY <2>1 DEF ConnInvariant, OwnReplies, CountInv, Extra, KeptSet, Opened, Stray, Streamed
  <2> QED
    BY <2>2, <2>3 DEF ConnInvariant
<1> QED
  BY <1>1, <1>2

\* It holds at first, with a caller or without.
LEMMA ConnectionsBegin == ASSUME NEW on \in BOOLEAN, ConnectionsInit(on) PROVE ConnInvariant
<1>1. /\ caller \in Callers \cup {NoCaller} /\ at \in {"none", "returned"}
      /\ descriptors = [d \in {0, 1, 2} |-> <<>>]
      /\ socks = [k \in Sockets |-> 0]
      /\ called = 0 /\ sd = 0 /\ replies = <<>>
  BY DEF ConnectionsInit
<1>2. MaxDescriptors \in Nat /\ MaxDescriptors > 2
  BY CallersAssumption
<1>3. done = 0 /\ at \notin Busy /\ at \notin Open /\ 1 .. called = {} /\ 1 .. done = {}
  BY <1>1 DEF done, Busy, Open
<1>4. CallerTypes
  <2>1. <<>> \in Seq(Texts) /\ <<>> \in Seq(Seq(Texts)) /\ Len(<<>>) = 0
    BY EmptySeq
  <2>2. {0, 1, 2} \subseteq 0 .. MaxDescriptors - 1 /\ 0 \in 0 .. MaxDescriptors
    BY <1>2
  <2>3. called \in 0 .. Len(caller.calls)
    <3>1. caller.calls \in Seq(CallNames)
      BY <1>1, CallersAre
    <3> QED
      BY <1>1, <3>1, LenProperties
  <2>4. DOMAIN descriptors = {0, 1, 2} /\ descriptors \in [DOMAIN descriptors -> Seq(Texts)]
    BY <1>1, <2>1
  <2>5. socks \in [Sockets -> 0 .. MaxDescriptors]
    BY <1>1, <2>2
  <2> QED
    BY <1>1, <1>3, <2>1, <2>2, <2>3, <2>4, <2>5 DEF CallerTypes
<1>5. CallInv /\ SocksInv
  BY <1>1, <1>3 DEF CallInv, SocksInv, Busy
<1>6. HeardInv
  BY <1>1 DEF HeardInv
<1>7. CmdInv
  BY <1>3 DEF CmdInv, Asked
<1>8. StreamInv
  <2> SUFFICES ASSUME Streamed(1) PROVE FALSE
    BY <1>3 DEF StreamInv
  <2>1. caller.calls \in Seq(CallNames)
    BY <1>4, CallerKnown
  <2>2. DOMAIN caller.calls = 1 .. Len(caller.calls) /\ Len(caller.calls) \in Nat
    BY <2>1, LenProperties
  <2> QED
    BY <2>2 DEF Streamed
<1>9. OwnReplies
  BY <1>1 DEF OwnReplies
<1>10. CountInv
  <2>1. Cardinality(DOMAIN descriptors) = 3
    <3>1. IsFiniteSet({}) /\ Cardinality({}) = 0
      BY FS_EmptySet
    <3>2. IsFiniteSet({} \cup {0}) /\ Cardinality({} \cup {0}) = 1
      BY <3>1, FS_AddElement
    <3>3. IsFiniteSet({} \cup {0} \cup {1}) /\ Cardinality({} \cup {0} \cup {1}) = 2
      BY <3>2, FS_AddElement
    <3>4. Cardinality({} \cup {0} \cup {1} \cup {2}) = 3
      BY <3>3, FS_AddElement
    <3>5. DOMAIN descriptors = {} \cup {0} \cup {1} \cup {2}
      BY <1>1
    <3> QED
      BY <3>4, <3>5
  <2>2. KeptSet = {} /\ Opened = {}
    BY <1>1, <1>3 DEF KeptSet, Opened
  <2>3. Cardinality(KeptSet) = 0 /\ Cardinality(Opened) = 0
    BY <2>2, FS_EmptySet
  <2>4. Extra = 0
    BY <2>1, <2>3 DEF Extra
  <2> QED
    BY <2>4 DEF CountInv
<1> QED
  BY <1>4, <1>5, <1>6, <1>7, <1>8, <1>9, <1>10 DEF ConnInvariant

\* It says that replies are of their calls and descriptors are kept once.
LEMMA ConnectionsHold == ConnInvariant => ConnectionsTypes /\ ConnectionsTrue
<1> SUFFICES ASSUME ConnInvariant PROVE ConnectionsTypes /\ ConnectionsTrue
  OBVIOUS
<1>1. ConnectionsTypes
  <2>1. MaxDescriptors \in Nat /\ called \in Nat
    BY CallersAssumption, CallerKnown DEF ConnInvariant
  <2>2. DOMAIN descriptors \subseteq 0 .. MaxDescriptors
    BY <2>1 DEF ConnInvariant, CallerTypes
  <2>3. Len(replies) \in {called - 1, called}
    BY DEF ConnInvariant, CallerTypes, done
  <2> QED
    BY <2>2, <2>3 DEF ConnInvariant, CallerTypes, ConnectionsTypes, Busy
<1>2. KeptOnce
  <2>1. ~ Stray => /\ {0, 1, 2} \subseteq DOMAIN descriptors
                   /\ \A j, k \in KeptSet : j # k => socks[j] # socks[k]
                   /\ Extra \in IF at = "died" THEN {0, 1} ELSE {0}
    BY DEF ConnInvariant, SocksInv, CountInv, KeptSet
  <2> QED
    BY <2>1, Zenon DEF KeptOnce, KeptSet, Opened, Extra
<1> QED
  BY <1>1, <1>2 DEF ConnInvariant, ConnectionsTrue

-----------------------------------------------------------------------------
\* The programs.

\* The calls of the API are those that were asked, command by command.
ApiInv ==
    /\ asked \in Seq(Calls) /\ Len(asked) = sent
    /\ task \in {"none", "data"} \cup Calls
    /\ ranges \in {Null} \cup 0 .. Channels
    /\ failed \in BOOLEAN /\ volts \in {"none", "calibrated", "raw"}

\* The counts a card may give.
Samples == 0 .. MaxTotal

\* The card, and what a program has heard of it.
DeviceInv ==
    /\ program \in Programs /\ name \in CardStates
    /\ card \in [state : CardStates, total : Samples] /\ arms \in 0 .. MaxArms
    /\ answer \in [state : CardStates, total : Samples]
    /\ shown \in [state : CardStates \cup {"none"}, total : Samples]
    /\ interrupted \in BOOLEAN
    /\ stat = NoStat \/ stat \in Seq(CardStates \cup {End})
    /\ status \in {"running", "ok", "error"}

\* Only a script prints.
OtherInv ==
    program \notin Shells => printed = <<>> /\ step \in 0 .. Len(Setup) + 2

\* The call in progress is the one that the steps so far lead to, and it has
\* been sent; once the setup is done the card has been armed.
TestInv ==
    program \in Tests =>
        /\ task # "none" =>
              /\ status = "running" /\ sent > 0 /\ asked[sent] = task
              /\ IF step < Len(Setup) THEN task = Setup[step + 1]
                 ELSE \/ step = Len(Setup) /\ task \in {"setAbort", "getState"}
                      \/ step = Len(Setup) + 1 /\ task = "getState"
                      \/ step = Len(Setup) + 2 /\ task = "getNumSamples"
        /\ step >= Len(Setup) => \E n \in DOMAIN asked : asked[n] = "setArm"

\* A card that has said it has stopped has, and what it says of its samples
\* from then on is final.
CaptureInv ==
    program \in Tests /\ Intact =>
        /\ shown.state = "STOP" => card.state = "STOP" /\ step >= Len(Setup)
        /\ task = "getState" /\ answer.state = "STOP" => card.state = "STOP"
        /\ task = "getNumSamples" /\ shown.state = "STOP" => answer = card
        /\ status = "ok" => shown.state = "STOP" /\ shown.total = card.total

\* What is printed of a command, and the commands among the first k lines.
Prints == [text : Seq(Token), output : Nat, code : Nat]
CommandsIn(k) == { i \in 1 .. k : script.lines[i] = "command" }

\* Every command that has returned has been printed.
ShellInv ==
    program \in Shells =>
        /\ script \in Scripts /\ step \in 0 .. Len(script.lines)
        /\ task \in {"none"} \cup Words
        /\ sent = Cardinality(CommandsIn(step))
        /\ printed \in Seq(Prints) /\ Len(printed) = IF task = "none" THEN sent ELSE sent - 1
        /\ task # "none" => status = "running" /\ sent > 0
        /\ task = "none" => sock = "idle"
        /\ status = "ok" => step = Len(script.lines)

\* A script ends when a command is given up on a driver's file.
LateInv ==
    program \in Shells /\ status = "running" /\ transport # "dt100" =>
        /\ late # {} => sock = "idle" /\ task # "none" /\ rc < 0 /\ late = {fd}
        /\ task # "none" => ~ wasLate

\* Until it is, the whole answer has been read, the line that says that the
\* command has failed with it.
WholeInv ==
    program \in Shells /\ transport # "dt100" /\ overruns = 0 /\ status = "running"
    /\ sock = "idle" /\ sent > 0 /\ late = {} =>
        response = Front(Lines(sent, output, code))

\* What is printed of a command is its answer.
TextInv ==
    program \in Shells /\ Intact =>
        /\ \A i \in DOMAIN printed :
              \/ Says(printed[i].text, i, printed[i].output)
              \/ /\ i = sent /\ status = "error" /\ fd \in late
                 /\ \E len \in 0 .. printed[i].output : Says(printed[i].text, i, len)
        /\ \A i \in DOMAIN printed :
              (i < sent \/ status # "error") /\ transport # "dt100" =>
                  printed[i].code = 0
        /\ status = "error" => code > 0 \/ fd \in late \/ (output = 0 /\ transport # "dt100")

\* The inductive invariant of the programs, beside that of their sessions.
ProgramsInv ==
    /\ ApiInv /\ DeviceInv /\ OtherInv /\ TestInv /\ CaptureInv
    /\ ShellInv /\ LateInv /\ WholeInv /\ TextInv

\* What a program is given stays.
LEMMA GivenStays ==
    ASSUME CardNext
    PROVE  /\ program' = program /\ name' = name /\ script' = script /\ transport' = transport
           /\ program' \in Shells \/ printed' = printed
<1> USE DEF given, programs, vars, kdd
<1>1. ASSUME NEW what, Ask(what) PROVE transport' = transport
  BY <1>1 DEF Ask, SendLine
<1>2. ASSUME Transport PROVE transport' = transport
  BY <1>2 DEF Transport, Receives, ReadLine, CopyLine, CopyOverruns, EndOfReply, IncompleteReply,
     Reads, Closes
<1>3. CASE CardRuns \/ SomebodyArms
  BY <1>3 DEF CardRuns, SomebodyArms
<1>4. CASE Library
  <2>1. CASE Call
    BY <1>4, <2>1, <1>1 DEF Library, Call, CallVolts, CallOther
  <2>2. CASE Reply
    BY <1>4, <2>2, <1>1 DEF Library, Reply, OtherReply, ChannelsReply, RangesReply, Data, Fails
  <2> QED
    BY <1>4, <2>1, <2>2 DEF Library
<1>5. CASE Transport /\ UNCHANGED programs
  BY <1>5, <1>2
<1>6. CASE TestCalls
  BY <1>6, <1>1 DEF TestCalls, Command
<1>7. CASE TestReply
  BY <1>7 DEF TestReply
<1>8. CASE Interrupt
  BY <1>8 DEF Interrupt, ReadInterrupted, IncompleteReply
<1>9. CASE Poll
  BY <1>9, <1>1 DEF Poll, PollCalls, PollReply, PollEnds, OpenStat, ReadStat, NoStateChange, Command
<1>10. CASE StatEnds
  BY <1>10 DEF StatEnds
<1>11. CASE ShellCommand \/ ShellComment \/ ShellEnds
  BY <1>11, <1>1 DEF ShellCommand, ShellComment, ShellEnds
<1>12. CASE ShellReply
  BY <1>12 DEF ShellReply
<1> QED
  BY <1>3, <1>4, <1>5, <1>6, <1>7, <1>8, <1>9, <1>10, <1>11, <1>12 DEF CardNext

\* A command is asked behind those before it.
LEMMA AskMeans ==
    ASSUME ApiInv, sent \in Nat, NEW what \in Calls, Ask(what)
    PROVE  /\ sock = "idle" /\ sock' \in {"reading", "dead"} /\ sent' = sent + 1
           /\ asked' \in Seq(Calls) /\ Len(asked') = sent' /\ asked'[sent'] = what
           /\ DOMAIN asked = 1 .. sent /\ DOMAIN asked' = 1 .. sent'
           /\ \A i \in DOMAIN asked : asked'[i] = asked[i]
           /\ task' = what /\ UNCHANGED <<overruns, closed, transport, rc>>
<1>1. /\ sock = "idle" /\ sock' \in {"reading", "dead"} /\ sent' = sent + 1
      /\ UNCHANGED <<overruns, closed, transport, rc>>
  BY DEF Ask, Send, SendLine, kdd
<1>2. asked' = Append(asked, what) /\ task' = what
  BY DEF Ask
<1>3. asked \in Seq(Calls) /\ Len(asked) = sent
  BY DEF ApiInv
<1>4. /\ asked' \in Seq(Calls) /\ Len(asked') = sent + 1
      /\ \A i \in 1 .. sent : asked'[i] = asked[i]
      /\ asked'[sent + 1] = what
  BY <1>2, <1>3, AppendProperties
<1>5. DOMAIN asked = 1 .. sent /\ DOMAIN asked' = 1 .. sent + 1
  BY <1>3, <1>4, LenProperties
<1> QED
  BY <1>1, <1>2, <1>4, <1>5

\* What a transport reads is of the command it was sent.
LEMMA TransportMeans ==
    ASSUME Transport
    PROVE  /\ UNCHANGED <<sent, code, output, api, transport, fd, wasLate>>
           /\ UNCHANGED sock \/ (sock = "reading" /\ sock' \in {"idle", "dead"})
BY DEF Transport, Receives, Read, ReadToEOF, ReadMore, ReadToFull, Receive, ReadEnds, kdd, ReadLine,
   CopyLine, CopyOverruns, EndOfReply, IncompleteReply, Reads, Closes, CardCloses

\* The calls of a test, of which only setArm arms the card.
LEMMA SetupCalls ==
    /\ Len(Setup) \in Nat \ {0}
    /\ \A i \in 1 .. Len(Setup) : Setup[i] \in (Setters \cup Getters)
                                              \ {"getState", "getNumSamples", "setAbort"}
    /\ \A i \in 1 .. Len(Setup) : Setup[i] = "setArm" <=> i = Len(Setup)
    /\ Setters \cup Getters \cup Words \subseteq Calls
<1>1. CASE program = "api_test"
  <2>1. Setup = << "getAvailableChannels", "setInternalClock", "getInternalClock",
                   "selectChannels", "getSelectedChannels", "setRoute",
                   "setPrePostMode", "setArm" >>
    BY <1>1 DEF Setup
  <2>2. Len(Setup) = 8
    BY <2>1
  <2> QED
    BY <2>1, <2>2 DEF Setters, Getters, Fields, Words, Calls
<1>2. CASE program # "api_test"
  <2>1. Setup = << "getAvailableChannels", "setInternalClock", "getInternalClock",
                   "selectChannels", "getSelectedChannels", "setPrePostMode", "setArm" >>
    BY <1>2 DEF Setup
  <2>2. Len(Setup) = 7
    BY <2>1
  <2> QED
    BY <2>1, <2>2 DEF Setters, Getters, Fields, Words, Calls
<1> QED
  BY <1>1, <1>2

\* The next call of a test: of its setup, then of its rounds.
LEMMA NextCallMeans ==
    ASSUME step \in 0 .. Len(Setup) + 2
    PROVE  /\ NextCall \in Setters \cup Getters
           /\ IF step < Len(Setup) THEN NextCall = Setup[step + 1]
              ELSE \/ step = Len(Setup) /\ NextCall \in {"setAbort", "getState"}
                   \/ step = Len(Setup) + 1 /\ NextCall = "getState"
                   \/ step = Len(Setup) + 2 /\ NextCall = "getNumSamples"
<1> DEFINE n == Len(Setup)
<1>1. n \in Nat /\ \A i \in 1 .. n : Setup[i] \in Setters \cup Getters
  BY SetupCalls
<1>2. CASE step < n
  <2>1. step + 1 \in 1 .. n
    BY <1>1, <1>2
  <2> QED
    BY <1>1, <1>2, <2>1 DEF NextCall
<1>3. CASE ~ (step < n)
  <2> DEFINE i == (step - n) % 3
  <2>1. NextCall = IF i = 0 /\ ~ interrupted THEN Round[2] ELSE Round[i + 1]
    BY <1>3 DEF NextCall
  <2>2. 0 % 3 = 0 /\ 1 % 3 = 1 /\ 2 % 3 = 2
    OBVIOUS
  <2>3. \/ step = n /\ step - n = 0
        \/ step = n + 1 /\ step - n = 1
        \/ step = n + 2 /\ step - n = 2
    BY <1>1, <1>3
  <2>4. \/ step = n /\ i = 0
        \/ step = n + 1 /\ i = 1
        \/ step = n + 2 /\ i = 2
    BY <2>2, <2>3, Zenon
  <2> HIDE DEF i, n
  <2>5. /\ Round[1] = "setAbort" /\ Round[2] = "getState" /\ Round[3] = "getNumSamples"
        /\ Round[0 + 1] = Round[1] /\ Round[1 + 1] = Round[2] /\ Round[2 + 1] = Round[3]
    BY DEF Round
  <2>6. /\ i = 0 => NextCall \in {"setAbort", "getState"}
        /\ i = 1 => NextCall = "getState"
        /\ i = 2 => NextCall = "getNumSamples"
    BY <2>1, <2>5
  <2>7. {"setAbort", "getState", "getNumSamples"} \subseteq Setters \cup Getters
    BY DEF Setters, Getters, Fields
  <2> QED
    BY <1>3, <2>4, <2>6, <2>7 DEF n
<1> QED
  BY <1>2, <1>3

\* The types of what the calls keep.
LEMMA ApiStep ==
    ASSUME IInv, ApiInv, OtherInv, TestInv, CardNext
    PROVE  ApiInv'
<1>1. sent \in Nat
  BY DEF IInv, SessionInv, SessionTypes
<1>2. ai \in {-1} \cup 1 .. Channels /\ Channels \in Nat \ {0}
  BY ChannelsAssumption DEF IInv, TaskInv
<1>3. /\ Setters \cup Getters \cup Words \subseteq Calls
      /\ "getAvailableChannels" \in Calls /\ "getChannelRanges" \in Calls /\ "getState" \in Calls
      /\ LibraryCalls \subseteq Calls
  BY LibraryAssumption DEF Calls, Setters, Getters, Fields, Words
<1>4. ASSUME NEW what \in Calls, Ask(what), UNCHANGED <<failed, volts>>,
             ranges' \in {ranges, 0}
      PROVE  ApiInv'
  BY <1>1, <1>2, <1>4, AskMeans DEF ApiInv
<1>5. ASSUME UNCHANGED <<sent, asked>>, task' \in {"none", "data", task},
             ranges' \in {ranges} \cup 0 .. Channels, failed' \in {failed, TRUE},
             volts' \in {volts, "calibrated", "raw"}
      PROVE  ApiInv'
  BY <1>5 DEF ApiInv
<1>6. ASSUME UNCHANGED <<sent, api>> PROVE ApiInv'
  BY <1>6 DEF ApiInv, api
<1>7. CASE CardRuns \/ SomebodyArms
  BY <1>6, <1>7 DEF CardRuns, SomebodyArms, vars, session, api
<1>8. CASE Library
  <2>1. CASE CallVolts
    <3>1. CASE task' = "data"
      BY <1>5, <2>1, <3>1 DEF CallVolts, session, Ask
    <3>2. CASE Ask("getAvailableChannels") /\ UNCHANGED <<ranges, failed, volts>>
      BY <1>3, <1>4, <3>2
    <3>3. CASE Ask("getChannelRanges") /\ ranges' = 0 /\ UNCHANGED <<failed, volts>>
      BY <1>3, <1>4, <3>3
    <3> QED
      BY <2>1, <3>1, <3>2, <3>3 DEF CallVolts
  <2>2. CASE CallOther
    BY <1>3, <1>4, <2>2 DEF CallOther
  <2>3. CASE OtherReply \/ Data
    BY <1>5, <2>3 DEF OtherReply, Data, session
  <2>4. CASE ChannelsReply
    <3>1. CASE Fails /\ UNCHANGED ranges
      BY <1>5, <3>1 DEF Fails, session
    <3>2. CASE Ask("getChannelRanges") /\ ranges' = 0 /\ UNCHANGED <<failed, volts>>
      BY <1>3, <1>4, <3>2
    <3> QED
      BY <2>4, <3>1, <3>2 DEF ChannelsReply
  <2>5. CASE RangesReply
    <3>1. CASE rc < 0 /\ Fails /\ UNCHANGED ranges
      BY <1>5, <3>1 DEF Fails, session
    <3>2. ASSUME NEW n \in 0 .. ai - 1, ranges' = n, Fails PROVE ApiInv'
      <4>1. n \in 0 .. Channels
        BY <1>2
      <4> QED
        BY <1>5, <3>2, <4>1 DEF Fails, session
    <3>3. ASSUME NEW n \in ai .. Channels, Scans(n, "getChannelRanges"), rc >= 0, ranges' = ai,
                 task' = "data", UNCHANGED <<session, kdd, ai, asked, failed, volts>>
          PROVE  ApiInv'
      <4>1. ranges' \in {Null} \cup 0 .. Channels
        BY <1>2, <3>3 DEF Null
      <4> QED
        BY <3>3, <4>1 DEF ApiInv, session
    <3> QED
      BY <2>5, <3>1, <3>2, <3>3 DEF RangesReply
  <2> QED
    BY <1>8, <2>1, <2>2, <2>3, <2>4, <2>5 DEF Library, Call, Reply
<1>9. CASE Transport
  BY <1>6, <1>9, TransportMeans
<1>10. CASE TestCalls
  <2>1. NextCall \in Calls
    <3>1. step \in 0 .. Len(Setup) + 2
      BY <1>10 DEF TestCalls, OtherInv, Tests, Shells
    <3> QED
      BY <1>3, <3>1, NextCallMeans
  <2> QED
    BY <1>4, <1>10, <2>1 DEF TestCalls, Command
<1>11. CASE TestReply
  BY <1>5, <1>11 DEF TestReply, session
<1>12. CASE Interrupt
  BY <1>6, <1>12 DEF Interrupt, ReadInterrupted, IncompleteReply, vars, session, api
<1>13. CASE Poll
  <2>1. CASE PollCalls
    BY <1>3, <1>4, <2>1 DEF PollCalls, Command
  <2>2. CASE PollReply
    BY <1>5, <2>2 DEF PollReply, session
  <2>3. CASE PollEnds \/ OpenStat \/ ReadStat \/ NoStateChange
    BY <1>6, <2>3 DEF PollEnds, OpenStat, ReadStat, NoStateChange, vars, session, api
  <2> QED
    BY <1>13, <2>1, <2>2, <2>3 DEF Poll
<1>14. CASE StatEnds \/ ShellComment \/ ShellEnds
  BY <1>6, <1>14 DEF StatEnds, ShellComment, ShellEnds, vars, session, api
<1>15. CASE ShellCommand
  <2>1. "acqcmd" \in Calls /\ "acq2sh" \in Calls
    BY DEF Calls, Words
  <2> QED
    BY <1>4, <1>15, <2>1 DEF ShellCommand
<1>16. CASE ShellReply
  BY <1>5, <1>16 DEF ShellReply, session
<1> QED
  BY <1>7, <1>8, <1>9, <1>10, <1>11, <1>12, <1>13, <1>14, <1>15, <1>16 DEF CardNext

\* The card in another state, which whoever listens is told.
LEMMA CardTypes ==
    ASSUME DeviceInv, NEW state \in CardStates, NEW total \in Samples, CardBecomes(state, total)
    PROVE  /\ card' = [state |-> state, total |-> total]
           /\ card' \in [state : CardStates, total : Samples]
           /\ stat' = NoStat \/ stat' \in Seq(CardStates \cup {End})
<1> DEFINE S == CardStates \cup {End}
<1>1. stat = NoStat \/ stat \in Seq(S)
  BY DEF DeviceInv
<1>2. stat' = stat \/ (stat # NoStat /\ stat' = Append(stat, state))
  BY DEF CardBecomes, Listens
<1>3. state \in S
  OBVIOUS
<1> HIDE DEF S
<1>4. stat' = NoStat \/ stat' \in Seq(S)
  BY <1>1, <1>2, <1>3, AppendProperties
<1> QED
  BY <1>4 DEF CardBecomes, S

\* A command is answered by the card as it is, before it has any effect.
LEMMA CommandMeans ==
    ASSUME DeviceInv, NEW what, Command(what)
    PROVE  /\ Ask(what) /\ answer' = card
           /\ card' \in [state : CardStates, total : Samples]
           /\ stat' = NoStat \/ stat' \in Seq(CardStates \cup {End})
           /\ \/ card' = card
              \/ what = "setArm"
              \/ what = "setAbort" /\ card'.state = "STOP" /\ card'.total = card.total
<1>1. Ask(what) /\ answer' = card
  BY DEF Command
<1>2. CASE UNCHANGED <<card, stat>>
  BY <1>1, <1>2 DEF DeviceInv
<1>3. CASE what = "setArm" /\ CardBecomes("ARM", 0)
  <2>1. "ARM" \in CardStates /\ 0 \in Samples
    BY ProgramsAssumption DEF CardStates, Samples
  <2> QED
    BY <1>1, <1>3, <2>1, CardTypes
<1>4. CASE what = "setAbort" /\ CardBecomes("STOP", card.total)
  <2>1. "STOP" \in CardStates /\ card.total \in Samples
    BY DEF CardStates, DeviceInv
  <2> QED
    BY <1>1, <1>4, <2>1, CardTypes
<1> QED
  BY <1>2, <1>3, <1>4 DEF Command

\* A running card stops, or goes on.
LEMMA CardRunsMeans ==
    ASSUME DeviceInv, CardRuns
    PROVE  /\ card.state # "STOP"
           /\ card' \in [state : CardStates, total : Samples]
           /\ stat' = NoStat \/ stat' \in Seq(CardStates \cup {End})
           /\ UNCHANGED <<vars, given, arms, answer, step, shown, interrupted, status>>
<1>1. /\ MaxTotal \in Nat /\ card.total \in 0 .. MaxTotal
      /\ card \in [state : CardStates, total : Samples]
  BY ProgramsAssumption DEF DeviceInv, Samples
<1>2. "ARM" \in CardStates /\ "RUN" \in CardStates /\ "STOP" \in CardStates /\ 0 \in Samples
  BY <1>1 DEF CardStates, Samples
<1>3. card.total < MaxTotal => card.total + 1 \in Samples
  BY <1>1 DEF Samples
<1>4. card.total \in Samples
  BY <1>1 DEF Samples
<1>5. \E s \in CardStates, t \in Samples : CardBecomes(s, t) /\ card.state # "STOP"
  BY <1>2, <1>3, <1>4 DEF CardRuns
<1> QED
  BY <1>5, CardTypes DEF CardRuns

\* The card and what a program has heard of it keep their types.
LEMMA DeviceStep ==
    ASSUME DeviceInv, CardNext
    PROVE  DeviceInv'
<1> USE DEF given, vars, device
<1> DEFINE Known == [state : CardStates, total : Samples]
           Stats == {NoStat} \cup Seq(CardStates \cup {End})
<1>1. /\ program \in Programs /\ name \in CardStates /\ card \in Known
      /\ arms \in 0 .. MaxArms /\ answer \in Known
      /\ shown \in [state : CardStates \cup {"none"}, total : Samples]
      /\ interrupted \in BOOLEAN /\ stat \in Stats /\ status \in {"running", "ok", "error"}
  BY DEF DeviceInv
<1>2. program' = program /\ name' = name
  BY GivenStays
<1>3. ASSUME UNCHANGED <<card, arms, answer, interrupted, stat>>,
             shown' \in [state : CardStates \cup {"none"}, total : Samples],
             status' \in {"running", "ok", "error"}
      PROVE  DeviceInv'
  BY <1>1, <1>2, <1>3 DEF DeviceInv
<1>4. ASSUME UNCHANGED <<arms, shown, interrupted, status>>,
             card' \in Known, answer' \in Known, stat' \in Stats
      PROVE  DeviceInv'
  BY <1>1, <1>2, <1>4 DEF DeviceInv
<1>5. ASSUME UNCHANGED programs PROVE DeviceInv'
  BY <1>5 DEF DeviceInv, programs, own
<1> HIDE DEF Known, Stats
<1>6. CASE CardRuns
  BY <1>1, <1>4, <1>6, CardRunsMeans DEF Known, Stats
<1>7. CASE SomebodyArms
  <2>1. arms' \in 0 .. MaxArms
    BY <1>1, <1>7, ProgramsAssumption DEF SomebodyArms
  <2>2. "ARM" \in CardStates /\ 0 \in Samples
    BY ProgramsAssumption DEF CardStates, Samples
  <2>3. card' \in Known /\ stat' \in Stats
    BY <1>7, <2>2, CardTypes DEF SomebodyArms, Known, Stats
  <2> QED
    BY <1>1, <1>2, <1>7, <2>1, <2>3 DEF SomebodyArms, DeviceInv, Known, Stats
<1>8. CASE Library \/ (Transport /\ UNCHANGED programs)
  BY <1>5, <1>8 DEF Library
<1>9. CASE TestCalls
  <2>1. PICK what : Command(what)
    BY <1>9 DEF TestCalls
  <2> QED
    BY <1>1, <1>4, <1>9, <2>1, CommandMeans DEF TestCalls, Known, Stats
<1>10. CASE TestReply
  <2>1. Told \subseteq Known
    BY <1>1 DEF Told, Known, Samples
  <2>2. shown' \in [state : CardStates \cup {"none"}, total : Samples]
    <3>1. CASE UNCHANGED shown
      BY <1>1, <3>1
    <3>2. ASSUME NEW told \in Told, shown' = [shown EXCEPT !.state = told.state]
          PROVE  shown' \in [state : CardStates \cup {"none"}, total : Samples]
      <4>1. told.state \in CardStates
        BY <2>1 DEF Known
      <4> QED
        BY <1>1, <3>2, <4>1
    <3>3. ASSUME NEW told \in Told, shown' = [shown EXCEPT !.total = told.total]
          PROVE  shown' \in [state : CardStates \cup {"none"}, total : Samples]
      <4>1. told.total \in Samples
        BY <2>1 DEF Known
      <4> QED
        BY <1>1, <3>3, <4>1
    <3>4. \/ UNCHANGED shown
          \/ \E told \in Told : \/ shown' = [shown EXCEPT !.state = told.state]
                                \/ shown' = [shown EXCEPT !.total = told.total]
      BY <1>10 DEF TestReply
    <3> QED
      BY <3>1, <3>2, <3>3, <3>4
  <2>3. status' \in {"running", "ok", "error"}
    BY <1>10 DEF TestReply
  <2> QED
    BY <1>3, <1>10, <2>2, <2>3 DEF TestReply
<1>11. CASE Interrupt
  <2>1. interrupted' \in BOOLEAN
    BY <1>11 DEF Interrupt
  <2> QED
    BY <1>1, <1>2, <1>11, <2>1 DEF Interrupt, DeviceInv, Known, Stats
<1>12. CASE Poll
  <2>1. CASE PollCalls
    BY <1>1, <1>4, <2>1, CommandMeans DEF PollCalls, Known, Stats
  <2>2. CASE PollReply
    <3>1. answer.state \in CardStates
      BY <1>1 DEF Known
    <3>2. shown' \in [state : CardStates \cup {"none"}, total : Samples]
      BY <1>1, <2>2, <3>1 DEF PollReply
    <3> QED
      BY <1>1, <1>3, <2>2, <3>2 DEF PollReply
  <2>3. CASE PollEnds \/ NoStateChange
    BY <1>1, <1>3, <2>3 DEF PollEnds, NoStateChange
  <2>4. CASE OpenStat
    <3>1. stat' \in Stats
      <4>1. card.state \in CardStates \cup {End}
        BY <1>1 DEF Known
      <4>2. << card.state >> \in Seq(CardStates \cup {End})
        BY <4>1
      <4> QED
        BY <2>4, <4>2 DEF OpenStat, Stats
    <3> QED
      BY <1>1, <1>4, <2>4, <3>1 DEF OpenStat
  <2>5. CASE ReadStat
    <3> DEFINE S == CardStates \cup {End}
    <3>1. stat \in Seq(S) /\ stat # <<>>
      BY <1>1, <2>5 DEF ReadStat, Stats
    <3> HIDE DEF S
    <3>2. Head(stat) \in S /\ Tail(stat) \in Seq(S)
      BY <3>1, HeadTailProperties
    <3>3. Head(stat) \in CardStates /\ Tail(stat) \in Stats
      BY <2>5, <3>2 DEF ReadStat, S, Stats
    <3>4. shown' \in [state : CardStates \cup {"none"}, total : Samples] /\ stat' \in Stats
      BY <1>1, <2>5, <3>3 DEF ReadStat
    <3> QED
      BY <1>1, <1>2, <2>5, <3>4 DEF ReadStat, DeviceInv, Known, Stats
  <2> QED
    BY <1>12, <2>1, <2>2, <2>3, <2>4, <2>5 DEF Poll
<1>13. CASE StatEnds
  <2> DEFINE S == CardStates \cup {End}
  <2>1. stat \in Seq(S) /\ End \in S
    BY <1>1, <1>13 DEF StatEnds, Listens, Stats
  <2> HIDE DEF S
  <2>2. Append(stat, End) \in Seq(S)
    BY <2>1, AppendProperties
  <2>3. stat' \in Stats
    BY <1>13, <2>2 DEF StatEnds, Stats, S
  <2> QED
    BY <1>1, <1>4, <1>13, <2>3 DEF StatEnds
<1>14. CASE ShellCommand \/ ShellComment \/ ShellReply \/ ShellEnds
  BY <1>1, <1>3, <1>14 DEF ShellCommand, ShellComment, ShellReply, ShellEnds
<1> QED
  BY <1>6, <1>7, <1>8, <1>9, <1>10, <1>11, <1>12, <1>13, <1>14 DEF CardNext

\* What a step of a test may be.
LEMMA TestSteps ==
    ASSUME program \in Tests, CardNext
    PROVE  \/ CardRuns
           \/ Transport /\ UNCHANGED programs
           \/ TestCalls \/ TestReply \/ Interrupt
BY DEF CardNext, Tests, SomebodyArms, Polls, Library, Poll, PollCalls, PollReply, PollEnds,
   OpenStat,
   ReadStat, NoStateChange, StatEnds, Polling, ShellCommand, ShellComment, ShellReply, ShellEnds,
   Shell, Shells

\* Where a test goes on.
LEMMA ReturnedMeans ==
    ASSUME step \in 0 .. Len(Setup) + 2, program \in Tests, TestInv, task # "none"
    PROVE  /\ step < Len(Setup) => Returned(task) = step + 1
           /\ step >= Len(Setup) => Returned(task) = CASE task = "setAbort" -> Len(Setup) + 1
                                                       [] task = "getState" -> Len(Setup) + 2
                                                       [] task = "getNumSamples" -> Len(Setup)
           /\ Returned(task) \in 0 .. Len(Setup) + 2
<1> DEFINE n == Len(Setup)
           i == CHOOSE j \in 1 .. 3 : Round[j] = task
<1>1. n \in Nat \ {0}
  BY SetupCalls
<1>2. step < n => Returned(task) = step + 1
  BY DEF Returned
<1>3. step >= n => Returned(task) = IF i = 3 THEN n ELSE n + i
  BY <1>1 DEF Returned
<1>4. step >= n => task \in {"setAbort", "getState", "getNumSamples"}
  BY <1>1 DEF TestInv
<1>5. Round[1] = "setAbort" /\ Round[2] = "getState" /\ Round[3] = "getNumSamples"
  BY DEF Round
<1>6. step >= n => \E j \in 1 .. 3 : Round[j] = task
  BY <1>4, <1>5
<1>7. step >= n => i \in 1 .. 3 /\ Round[i] = task
  BY <1>6, Zenon
<1> HIDE DEF i, n
<1>8. i \in 1 .. 3 => i = 1 \/ i = 2 \/ i = 3
  OBVIOUS
<1>9. step >= n => /\ task = "setAbort" => i = 1
                   /\ task = "getState" => i = 2
                   /\ task = "getNumSamples" => i = 3
  BY <1>5, <1>7, <1>8
<1>10. step >= n => \/ task = "setAbort" /\ Returned(task) = n + 1
                    \/ task = "getState" /\ Returned(task) = n + 2
                    \/ task = "getNumSamples" /\ Returned(task) = n
  BY <1>3, <1>4, <1>9
<1>11. Returned(task) \in 0 .. n + 2
  BY <1>1, <1>2, <1>10 DEF n
<1> QED
  BY <1>2, <1>10, <1>11 DEF n

\* The order of a test's calls.
LEMMA TestStep ==
    ASSUME IInv, ApiInv, OtherInv, TestInv, CardNext
    PROVE  OtherInv' /\ TestInv'
<1> USE DEF given, vars, device
<1> DEFINE n == Len(Setup)
<1>1. program' = program /\ Setup' = Setup /\ (program \notin Shells => printed' = printed)
  BY GivenStays DEF Setup
<1>2. n \in Nat \ {0} /\ Len(Setup)' = n
  BY <1>1, SetupCalls
<1>3. sent \in Nat
  BY DEF IInv, SessionInv, SessionTypes
<1>4. CASE program \notin Tests
  <2>1. TestInv'
    BY <1>1, <1>4 DEF TestInv
  <2>2. program \notin Shells => step' \in {step, 1}
    BY <1>4 DEF CardNext, CardRuns, SomebodyArms, Library, TestCalls, TestReply, Interrupt, Poll,
       PollCalls, PollReply, PollEnds, OpenStat, ReadStat, NoStateChange, StatEnds, ShellCommand,
       ShellComment, ShellReply, ShellEnds, Shell, Tests, programs, own
  <2>3. program \notin Shells => step \in 0 .. n + 2
    BY DEF OtherInv
  <2>4. program \notin Shells => step' \in 0 .. n + 2
    BY <1>2, <2>2, <2>3
  <2> QED
    BY <1>1, <1>2, <2>1, <2>4 DEF OtherInv
<1>5. CASE program \in Tests
  <2>1. program \notin Shells /\ step \in 0 .. n + 2
    BY <1>5 DEF Tests, Shells, OtherInv
  <2> DEFINE Armed == \E m \in DOMAIN asked : asked[m] = "setArm"
             Due(s, t) == IF s < n THEN t = Setup[s + 1]
                          ELSE \/ s = n /\ t \in {"setAbort", "getState"}
                               \/ s = n + 1 /\ t = "getState"
                               \/ s = n + 2 /\ t = "getNumSamples"
  <2>2. /\ task # "none" => status = "running" /\ sent > 0 /\ asked[sent] = task /\ Due(step, task)
        /\ step >= n => Armed
    BY <1>5 DEF TestInv
  <2>3. SUFFICES /\ step' \in 0 .. n + 2
                 /\ task' # "none" => /\ status' = "running" /\ sent' > 0 /\ asked'[sent'] = task'
                                      /\ Due(step', task')
                 /\ step' >= n => Armed'
    BY <1>1, <1>2, <1>5, <2>1 DEF OtherInv, TestInv
  <2> HIDE DEF Due, Armed
  <2>4. ASSUME UNCHANGED <<sent, asked, task, step, status>>
        PROVE  /\ step' \in 0 .. n + 2
               /\ task' # "none" => /\ status' = "running" /\ sent' > 0 /\ asked'[sent'] = task'
                                    /\ Due(step', task')
               /\ step' >= n => Armed'
    <3>1. Armed' = Armed
      BY <2>4 DEF Armed
    <3> QED
      BY <2>1, <2>2, <2>4, <3>1
  <2>5. CASE CardRuns
    BY <2>4, <2>5 DEF CardRuns, session, api
  <2>6. CASE Transport /\ UNCHANGED programs
    BY <2>4, <2>6, TransportMeans DEF programs, own, api
  <2>7. CASE TestCalls
    <3>1. Ask(NextCall) /\ step' = step /\ status' = status /\ status = "running"
      BY <2>7 DEF TestCalls, Command
    <3>2. NextCall \in Calls /\ Due(step, NextCall)
      BY <2>1, NextCallMeans, SetupCalls DEF Due
    <3>3. /\ sent' = sent + 1 /\ asked'[sent'] = NextCall /\ task' = NextCall
          /\ DOMAIN asked \subseteq DOMAIN asked'
          /\ \A m \in DOMAIN asked : asked'[m] = asked[m]
      <4>1. DOMAIN asked = 1 .. sent /\ DOMAIN asked' = 1 .. sent' /\ sent' = sent + 1
        BY <1>3, <3>1, <3>2, AskMeans
      <4> QED
        BY <1>3, <3>1, <3>2, <4>1, AskMeans
    <3>4. Armed => Armed'
      BY <3>3 DEF Armed
    <3> QED
      BY <1>3, <2>1, <2>2, <3>1, <3>2, <3>3, <3>4
  <2>8. CASE TestReply
    <3>1. task # "none" /\ task' = "none" /\ asked' = asked /\ step' \in {step, Returned(task)}
      BY <2>8 DEF TestReply
    <3>2. Armed' = Armed
      BY <3>1 DEF Armed
    <3>3. step' \in 0 .. n + 2
      BY <1>5, <2>1, <3>1, ReturnedMeans
    <3>4. ASSUME step' >= n, step < n PROVE Armed
      <4>1. step + 1 = n
        BY <1>2, <1>5, <2>1, <3>1, <3>4, ReturnedMeans
      <4>2. task = "setArm"
        <5>1. task = Setup[step + 1] /\ n \in 1 .. n
          BY <1>2, <2>2, <3>1, <3>4 DEF Due
        <5> QED
          BY <4>1, <5>1, SetupCalls
      <4>3. sent \in DOMAIN asked
        <5>1. asked \in Seq(Calls) /\ Len(asked) = sent /\ sent > 0
          BY <2>2, <3>1 DEF ApiInv
        <5> QED
          BY <1>3, <5>1, LenProperties
      <4> QED
        BY <2>2, <3>1, <4>2, <4>3 DEF Armed
    <3> QED
      BY <1>2, <2>1, <2>2, <3>1, <3>2, <3>3, <3>4
  <2>9. CASE Interrupt
    <3>1. UNCHANGED <<sent, asked, task, step, status>>
      BY <2>9 DEF Interrupt, ReadInterrupted, IncompleteReply, session, api
    <3> QED
      BY <2>4, <3>1
  <2> QED
    BY <1>5, <2>5, <2>6, <2>7, <2>8, <2>9, TestSteps
<1> QED
  BY <1>4, <1>5

\* What sscanf() finds in the reply of a session that is intact is what the
\* card has answered.
LEMMA ToldMeans ==
    ASSUME IInv, Intact, sock = "idle", sent > 0, task \in Getters, Succeeds(task)
    PROVE  Told = {answer}
<1>1. response # Untouched
  BY ResponseWritten DEF IInv, SessionInv
<1>2. response # <<>>
  <2>1. PICK n \in Fields[task] .. Fields[task] + Len(response) : Scans(n, task)
    BY DEF Succeeds
  <2>2. SUFFICES ASSUME response = <<>> PROVE FALSE
    OBVIOUS
  <2>3. Len(response) = 0
    BY <2>2
  <2>4. Fields[task] \in Nat \ {0}
    BY DEF Getters, Fields
  <2> DEFINE f == Fields[task]
  <2> HIDE DEF f
  <2>5. n \in f .. f + 0 /\ f \in Nat \ {0}
    BY <2>1, <2>3, <2>4 DEF f
  <2>6. 1 \in 1 .. n
    BY <2>5
  <2>7. 1 <= Len(response)
    BY <1>1, <2>1, <2>6 DEF Scans
  <2> QED
    BY <2>3, <2>7
<1> QED
  BY <1>1, <1>2 DEF Told

\* What a test has been told of the end of its capture is true.
LEMMA CaptureStep ==
    ASSUME IInv, ApiInv, DeviceInv, OtherInv, TestInv, CaptureInv, CardNext, UNCHANGED connections
    PROVE  CaptureInv'
<1> USE DEF given, vars, device
<1> DEFINE n == Len(Setup)
<1>1. program' = program /\ n' = n /\ n \in Nat \ {0}
  BY GivenStays, SetupCalls DEF Setup
<1>2. [SessionNext]_sessions /\ SessionTypes
  BY ProgramStep DEF ProgramsNext, IInv, SessionInv
<1>3. SUFFICES ASSUME program \in Tests, Intact'
               PROVE  /\ shown'.state = "STOP" => card'.state = "STOP" /\ step' >= n
                      /\ task' = "getState" /\ answer'.state = "STOP" => card'.state = "STOP"
                      /\ task' = "getNumSamples" /\ shown'.state = "STOP" => answer' = card'
                      /\ status' = "ok" => shown'.state = "STOP" /\ shown'.total = card'.total
  BY <1>1 DEF CaptureInv
<1>4. Intact
  BY <1>2, <1>3, DamageStays
<1>5. /\ shown.state = "STOP" => card.state = "STOP" /\ step >= n
      /\ task = "getState" /\ answer.state = "STOP" => card.state = "STOP"
      /\ task = "getNumSamples" /\ shown.state = "STOP" => answer = card
      /\ status = "ok" => shown.state = "STOP" /\ shown.total = card.total
  BY <1>3, <1>4 DEF CaptureInv
<1>6. step \in 0 .. n + 2
  BY <1>3 DEF OtherInv, Tests, Shells
<1> HIDE DEF n
<1>7. CASE CardRuns
  <2>1. card.state # "STOP" /\ UNCHANGED <<answer, shown, step, status, task>>
    BY <1>7, CardRunsMeans DEF api
  <2> QED
    BY <1>5, <2>1
<1>8. CASE UNCHANGED <<card, answer, shown, step, status, task>>
  BY <1>5, <1>8
<1>9. CASE Transport /\ UNCHANGED programs
  BY <1>8, <1>9, TransportMeans DEF programs, own, api
<1>10. CASE TestCalls
  <2>1. Command(NextCall) /\ UNCHANGED <<shown, step, status>> /\ status = "running"
    BY <1>10 DEF TestCalls
  <2>2. /\ answer' = card
        /\ \/ card' = card
           \/ NextCall = "setArm"
           \/ NextCall = "setAbort" /\ card'.state = "STOP"
    BY <2>1, CommandMeans
  <2>3. task' = NextCall
    BY <2>1 DEF Command, Ask
  <2>4. step >= n => NextCall \in {"setAbort", "getState", "getNumSamples"}
    BY <1>1, <1>6, NextCallMeans DEF n
  <2> QED
    BY <1>5, <2>1, <2>2, <2>3, <2>4
<1>11. CASE TestReply
  <2>1. /\ task # "none" /\ sock = "idle" /\ task' = "none" /\ UNCHANGED <<card, answer>>
    BY <1>11 DEF TestReply
  <2>2. CASE UNCHANGED <<shown, step>> /\ status' = "error"
    BY <1>5, <2>1, <2>2
  <2>3. CASE /\ Succeeds(task) /\ step' = Returned(task)
             /\ IF task \in {"getState", "getNumSamples"}
                THEN \E told \in Told :
                        shown' = IF task = "getState" THEN [shown EXCEPT !.state = told.state]
                                                      ELSE [shown EXCEPT !.total = told.total]
                ELSE UNCHANGED shown
             /\ status' = "ok" => step' = Len(Setup) /\ step >= Len(Setup) /\ shown'.state = "STOP"
    <3>1. status' = "ok" => step' = n /\ step >= n /\ shown'.state = "STOP"
      BY <2>3 DEF n
    <3>2. /\ step < n => task \notin {"getState", "getNumSamples", "setAbort"}
          /\ step >= n => task \in {"getState", "getNumSamples", "setAbort"}
      <4>1. step < n => task = Setup[step + 1] /\ step + 1 \in 1 .. n
        BY <1>1, <1>3, <1>6, <2>1 DEF TestInv, n
      <4>2. step >= n => task \in {"getState", "getNumSamples", "setAbort"}
        BY <1>1, <1>3, <1>6, <2>1 DEF TestInv, n
      <4> QED
        BY <4>1, <4>2, SetupCalls DEF n
    <3>3. step >= n => /\ step' >= n
                       /\ task # "getNumSamples" => step' # n
      <4>1. step >= n => step' = CASE task = "setAbort" -> n + 1
                                   [] task = "getState" -> n + 2
                                   [] task = "getNumSamples" -> n
        BY <1>3, <1>6, <2>1, <2>3, ReturnedMeans DEF n
      <4> QED
        BY <1>1, <3>2, <4>1
    <3>4. sent > 0
      BY <1>3, <2>1 DEF TestInv
    <3>5. "getState" \in Getters /\ "getNumSamples" \in Getters
      BY DEF Getters, Fields
    <3>6. shown \in [state : CardStates \cup {"none"}, total : Samples]
      BY DEF DeviceInv
    <3>7. CASE task = "getState"
      <4>1. shown' = [shown EXCEPT !.state = answer.state]
        <5>1. Told = {answer}
          BY <1>4, <2>1, <2>3, <3>4, <3>5, <3>7, ToldMeans
        <5>2. \E told \in Told : shown' = [shown EXCEPT !.state = told.state]
          BY <2>3, <3>7
        <5> QED
          BY <5>1, <5>2
      <4>2. shown'.state = answer.state
        BY <3>6, <4>1
      <4>3. step >= n /\ status' # "ok"
        BY <1>1, <1>6, <3>1, <3>2, <3>3, <3>7
      <4> QED
        BY <1>5, <2>1, <3>3, <3>7, <4>2, <4>3
    <3>8. CASE task = "getNumSamples"
      <4>1. shown' = [shown EXCEPT !.total = answer.total]
        <5>1. Told = {answer}
          BY <1>4, <2>1, <2>3, <3>4, <3>5, <3>8, ToldMeans
        <5>2. \E told \in Told : shown' = [shown EXCEPT !.total = told.total]
          BY <2>3, <3>8
        <5> QED
          BY <5>1, <5>2
      <4>2. shown'.state = shown.state /\ shown'.total = answer.total
        BY <3>6, <4>1
      <4>3. step' >= n
        BY <1>1, <1>6, <3>2, <3>3, <3>8
      <4> QED
        BY <1>5, <2>1, <3>1, <3>8, <4>2, <4>3
    <3>9. CASE task \notin {"getState", "getNumSamples"}
      <4>1. shown' = shown
        BY <2>3, <3>9
      <4> QED
        BY <1>5, <2>1, <3>1, <3>3, <3>9, <4>1
    <3> QED
      BY <3>7, <3>8, <3>9
  <2> QED
    BY <1>1, <1>11, <2>2, <2>3 DEF TestReply, n
<1>12. CASE Interrupt
  BY <1>8, <1>12 DEF Interrupt, ReadInterrupted, IncompleteReply, api
<1> QED
  BY <1>3, <1>7, <1>9, <1>10, <1>11, <1>12, TestSteps

\* An answer behind the numbers of the trailer before says the answer.
LEMMA AnswerSays ==
    ASSUME NEW l \in Seq(Token), Numbers(l), NEW n \in Nat, NEW len \in Nat
    PROVE  Says(Answer(l, n, len), n, len)
<1> DEFINE o == Output(n, len)
           x == Answer(l, n, len)
           k == Len(l)
<1>1. /\ o \in Seq(Token) /\ Len(o) = len
      /\ \A i \in 1 .. len : o[i] = [kind |-> "output", cmd |-> n, val |-> i]
  BY OutputTokens, Zenon
<1>2. /\ x \in Seq(Token) /\ k \in Nat /\ Len(x) = k + Len(o)
      /\ \A i \in 1 .. k : x[i] = l[i]
      /\ \A j \in 1 .. Len(o) : x[k + j] = o[j]
  <2>1. o \in Seq(Token)
    BY <1>1
  <2> HIDE DEF o, k
  <2>2. x = l \o o
    BY DEF Answer, o
  <2> HIDE DEF x
  <2> QED
    BY <2>1, <2>2, Halves DEF k
<1>3. DOMAIN x = 1 .. k + len /\ Len(x) = k + len /\ k \in 0 .. Len(x) - len
  <2> HIDE DEF o, x, k
  <2>1. DOMAIN x = 1 .. Len(x)
    BY <1>2, LenProperties
  <2>2. Len(x) = k + len
    BY <1>1, <1>2
  <2> QED
    BY <1>2, <2>1, <2>2
<1>4. \A i \in 1 .. k : l[i].kind # "output"
  BY DEF Numbers, TrailerNumbers
<1> HIDE DEF o, x, k
<1>5. ASSUME NEW i \in DOMAIN x
      PROVE  IF i \in k + 1 .. k + len
             THEN x[i] = [kind |-> "output", cmd |-> n, val |-> i - k]
             ELSE x[i].kind # "output"
  <2>1. CASE i \in k + 1 .. k + len
    <3>1. i - k \in 1 .. len /\ k + (i - k) = i
      BY <1>2, <2>1
    <3>2. x[k + (i - k)] = o[i - k]
      BY <1>1, <1>2, <3>1
    <3>3. o[i - k] = [kind |-> "output", cmd |-> n, val |-> i - k]
      BY <1>1, <3>1
    <3> QED
      BY <2>1, <3>1, <3>2, <3>3
  <2>2. CASE i \notin k + 1 .. k + len
    <3>1. i \in 1 .. k
      BY <1>2, <1>3, <2>2
    <3> QED
      BY <1>2, <1>4, <2>2, <3>1
  <2> QED
    BY <2>1, <2>2
<1>6. Says(x, n, len)
  BY <1>3, <1>5 DEF Says
<1> QED
  BY <1>6 DEF x

\* The lines of an answer begin with its output.
LEMMA LinesBegin ==
    ASSUME NEW n \in Nat \ {0}, NEW len \in Nat, NEW ecode \in Nat
    PROVE  \A i \in 1 .. len :
              Lines(n, len, ecode)[i] = [kind |-> "output", cmd |-> n, val |-> i]
<1> DEFINE o == Output(n, len)
           x == IF ecode > 0 THEN Line(n, "ERROR") ELSE <<>>
           z == Line(n, "EOF")
           y == o \o x
           s == y \o z
<1>1. /\ o \in Seq(Token) /\ Len(o) = len
      /\ \A i \in 1 .. len : o[i] = [kind |-> "output", cmd |-> n, val |-> i]
  BY OutputTokens, Zenon
<1>2. x \in Seq(Token) /\ z \in Seq(Token)
  <2>1. ASSUME NEW kind \in {"ERROR", "EOF"} PROVE Line(n, kind) \in Seq(Token)
    BY DEF Line, Token
  <2>2. <<>> \in Seq(Token)
    BY EmptySeq
  <2> QED
    BY <2>1, <2>2
<1>3. Lines(n, len, ecode) = s
  BY DEF Lines
<1> HIDE DEF o, x, z
<1>4. y \in Seq(Token) /\ Len(y) = Len(o) + Len(x) /\ Len(x) \in Nat
      /\ \A i \in 1 .. Len(o) : y[i] = o[i]
  <2>1. o \in Seq(Token) /\ x \in Seq(Token)
    BY <1>1, <1>2
  <2> QED
    BY <2>1, Halves
<1> HIDE DEF y
<1>5. \A i \in 1 .. Len(y) : s[i] = y[i]
  BY <1>2, <1>4, Halves
<1> HIDE DEF s
<1>6. \A i \in 1 .. len : s[i] = o[i]
  BY <1>1, <1>4, <1>5
<1> QED
  BY <1>1, <1>3, <1>6

\* So do those that have been read.
LEMMA BeginningSays ==
    ASSUME NEW n \in Nat \ {0}, NEW len \in Nat, NEW ecode \in Nat,
           NEW r \in Seq(Token), IsPrefix(r, Front(Lines(n, len, ecode)))
    PROVE  /\ \E m \in 0 .. len : Says(r, n, m)
           /\ r = Front(Lines(n, len, ecode)) => Says(r, n, len)
<1> DEFINE s == Lines(n, len, ecode)
           k == Len(s) - 1
           front == SubSeq(s, 1, k)
<1>1. /\ s \in Seq(Token) /\ k \in Nat /\ k = IF ecode > 0 THEN len + 1 ELSE len
      /\ ecode > 0 => s[len + 1].kind = "ERROR"
  <2>1. LinesHave(n, len, ecode)
    BY LineTokens
  <2> QED
    BY <2>1, Zenon DEF LinesHave
<1>2. \A i \in 1 .. len : s[i] = [kind |-> "output", cmd |-> n, val |-> i]
  BY LinesBegin
<1> HIDE DEF s
<1>3. Len(s) \in Nat /\ \A i \in 1 .. Len(s) : s[i] \in Token
  BY <1>1, LenProperties, ElementOfSeq
<1> HIDE DEF k
<1>4. /\ front \in Seq(Token) /\ Len(front) = k
      /\ \A i \in 1 .. k : front[i] = s[i]
  <2>1. 1 \in Int /\ k \in Int /\ \A i \in 1 .. k : s[i] \in Token
    BY <1>1, <1>3 DEF k
  <2>2. /\ front \in Seq(Token) /\ Len(front) = IF 1 <= k THEN k - 1 + 1 ELSE 0
        /\ \A i \in 1 .. k - 1 + 1 : front[i] = s[1 + i - 1]
    BY <2>1, SubSeqProperties
  <2> HIDE DEF front
  <2>3. ASSUME NEW i \in 1 .. k PROVE front[i] = s[i]
    <3>1. i \in 1 .. k - 1 + 1 /\ 1 + i - 1 = i
      BY <1>1
    <3> QED
      BY <2>2, <3>1
  <2> QED
    BY <1>1, <2>2, <2>3
<1>5. Front(s) = front
  BY DEF Front, k
<1> HIDE DEF front
<1> DEFINE p == Len(r)
<1>6. p \in Nat /\ p <= k /\ DOMAIN r = 1 .. p /\ SubSeq(r, 1, p) = SubSeq(front, 1, p)
  <2>1. IsPrefix(r, front)
    BY <1>5 DEF s
  <2> QED
    BY <1>4, <2>1, LenProperties DEF IsPrefix
<1>7. SubSeq(r, 1, p) = r
  BY SubSeqFull
<1> HIDE DEF p
<1>8. \A i \in 1 .. p : r[i] = s[i]
  <2>1. \A i \in 1 .. p : front[i] \in Token
    BY <1>1, <1>4, <1>6, ElementOfSeq
  <2> DEFINE f == SubSeq(front, 1, p)
  <2>2. 1 \in Int /\ p \in Int
    BY <1>6
  <2>3. \A i \in 1 .. p - 1 + 1 : f[i] = front[1 + i - 1]
    BY <2>1, <2>2, SubSeqProperties
  <2>4. r = f
    BY <1>6, <1>7
  <2> HIDE DEF f
  <2>5. ASSUME NEW i \in 1 .. p PROVE r[i] = s[i]
    <3>1. i \in 1 .. p - 1 + 1 /\ 1 + i - 1 = i /\ i \in 1 .. k
      BY <1>1, <1>6
    <3> QED
      BY <1>4, <2>3, <2>4, <3>1
  <2> QED
    BY <2>5
<1> DEFINE m == IF p <= len THEN p ELSE len
<1>9. m \in 0 .. len /\ 0 \in 0 .. p - m /\ (p = k => m = len)
  BY <1>1, <1>6
<1>10. ASSUME NEW i \in 1 .. p
       PROVE  IF i \in 0 + 1 .. 0 + m
              THEN r[i] = [kind |-> "output", cmd |-> n, val |-> i - 0]
              ELSE r[i].kind # "output"
  <2>1. CASE i <= m
    <3>1. i \in 1 .. len /\ i - 0 = i /\ i \in 0 + 1 .. 0 + m
      BY <1>1, <1>6, <2>1
    <3> QED
      BY <1>2, <1>8, <3>1
  <2>2. CASE ~ (i <= m)
    <3>1. i = len + 1 /\ ecode > 0 /\ i \notin 0 + 1 .. 0 + m
      BY <1>1, <1>6, <2>2
    <3>2. r[i].kind = "ERROR"
      BY <1>1, <1>8, <3>1
    <3> QED
      BY <3>1, <3>2
  <2> QED
    BY <2>1, <2>2
<1> HIDE DEF m
<1>11. Says(r, n, m)
  BY <1>6, <1>9, <1>10 DEF Says, p
<1>12. r = Front(s) => p = k
  BY <1>4, <1>5 DEF p
<1> QED
  BY <1>9, <1>11, <1>12 DEF s

\* What a step of a script may be.
LEMMA ShellSteps ==
    ASSUME program \in Shells, CardNext
    PROVE  \/ Transport /\ UNCHANGED programs
           \/ ShellCommand \/ ShellComment \/ ShellReply \/ ShellEnds
BY DEF CardNext, Tests, CardRuns, SomebodyArms, Polls, Library, TestCalls, TestReply, Interrupt,
   Poll, PollCalls, PollReply, PollEnds, OpenStat, ReadStat, NoStateChange, StatEnds, Polling,
   Shells

\* What a script is.
LEMMA ScriptKnown ==
    ASSUME ShellInv, program \in Shells
    PROVE  /\ script.lines \in Seq({"command", "comment"}) /\ Len(script.lines) \in Nat
           /\ DOMAIN script.lines = 1 .. Len(script.lines)
           /\ \A i \in 1 .. Len(script.lines) : script.lines[i] \in {"command", "comment"}
           /\ step \in Nat /\ step <= Len(script.lines)
           /\ script.args => script.lines = <<"command">>
<1>1. script \in Scripts /\ step \in 0 .. Len(script.lines)
  BY DEF ShellInv
<1>2. script.lines \in Seq({"command", "comment"}) /\ (script.args => script.lines = <<"command">>)
  BY <1>1, ScriptsAssumption
<1>3. Len(script.lines) \in Nat /\ DOMAIN script.lines = 1 .. Len(script.lines)
      /\ \A i \in 1 .. Len(script.lines) : script.lines[i] \in {"command", "comment"}
  BY <1>2, LenProperties, ElementOfSeq
<1> QED
  BY <1>1, <1>2, <1>3

\* A line of a script is a command more, or none.
LEMMA CommandsCounted ==
    ASSUME ShellInv, program \in Shells, UNCHANGED script
    PROVE  /\ IsFiniteSet(CommandsIn(step))
           /\ step' = step => CommandsIn(step)' = CommandsIn(step)
           /\ step' = step + 1 =>
                 Cardinality(CommandsIn(step)') =
                    IF script.lines[step + 1] = "command" THEN Cardinality(CommandsIn(step)) + 1
                    ELSE Cardinality(CommandsIn(step))
<1>1. step \in Nat
  BY ScriptKnown
<1>2. IsFiniteSet(CommandsIn(step))
  <2>1. IsFiniteSet(1 .. step)
    BY <1>1, FS_Interval
  <2>2. CommandsIn(step) \subseteq 1 .. step
    BY DEF CommandsIn
  <2> QED
    BY <2>1, <2>2, FS_Subset
<1>3. ASSUME step' = step + 1
      PROVE  Cardinality(CommandsIn(step)') =
                IF script.lines[step + 1] = "command" THEN Cardinality(CommandsIn(step)) + 1
                ELSE Cardinality(CommandsIn(step))
  <2>1. 1 .. step + 1 = 1 .. step \cup {step + 1} /\ step + 1 \notin 1 .. step
    BY <1>1
  <2>2. CommandsIn(step)' = IF script.lines[step + 1] = "command"
                            THEN CommandsIn(step) \cup {step + 1} ELSE CommandsIn(step)
    BY <1>3, <2>1 DEF CommandsIn
  <2>3. step + 1 \notin CommandsIn(step)
    BY <2>1 DEF CommandsIn
  <2> QED
    BY <1>2, <2>2, <2>3, FS_AddElement
<1> QED
  BY <1>2, <1>3 DEF CommandsIn

\* What a script has printed, command by command.
LEMMA ShellStep ==
    ASSUME IInv, ApiInv, ShellInv, CardNext
    PROVE  ShellInv'
<1> USE DEF given, vars, device
<1>1. program' = program /\ script' = script
  BY GivenStays
<1>2. SUFFICES ASSUME program \in Shells PROVE ShellInv'
  BY <1>1 DEF ShellInv
<1> DEFINE lines == script.lines
           count == Cardinality(CommandsIn(step))
<1>3. /\ script \in Scripts /\ step \in 0 .. Len(lines)
      /\ task \in {"none"} \cup Words
      /\ sent = count
      /\ printed \in Seq(Prints) /\ Len(printed) = IF task = "none" THEN sent ELSE sent - 1
      /\ task # "none" => status = "running" /\ sent > 0
      /\ task = "none" => sock = "idle"
      /\ status = "ok" => step = Len(lines)
  BY <1>2 DEF ShellInv
<1>4. sent \in Nat /\ Len(lines) \in Nat /\ "none" \notin Words
  BY <1>2, ScriptKnown DEF IInv, SessionInv, SessionTypes, Words
<1>5. SUFFICES /\ step' \in 0 .. Len(lines)
               /\ task' \in {"none"} \cup Words
               /\ sent' = count'
               /\ printed' \in Seq(Prints)
               /\ Len(printed') = IF task' = "none" THEN sent' ELSE sent' - 1
               /\ task' # "none" => status' = "running" /\ sent' > 0
               /\ task' = "none" => sock' = "idle"
               /\ status' = "ok" => step' = Len(lines)
  BY <1>1, <1>2, <1>3 DEF ShellInv
<1>6. /\ step' = step => count' = count
      /\ step' = step + 1 => count' = IF lines[step + 1] = "command" THEN count + 1 ELSE count
  BY <1>1, <1>2, CommandsCounted
<1> HIDE DEF count, lines
<1>7. CASE Transport /\ UNCHANGED programs
  <2>1. UNCHANGED <<sent, task, step, printed, status>>
    BY <1>7, TransportMeans DEF programs, own, api
  <2>2. UNCHANGED sock \/ sock = "reading"
    BY <1>7, TransportMeans
  <2> QED
    BY <1>3, <1>6, <2>1, <2>2
<1>8. CASE ShellCommand
  <2> DEFINE what == IF program = "acqcmd" /\ ~ script.shell THEN "acqcmd" ELSE "acq2sh"
  <2>1. /\ Ask(what) /\ what \in Words /\ what \in Calls
        /\ step' = step + 1 /\ lines[step + 1] = "command" /\ step < Len(lines)
        /\ UNCHANGED <<printed, status>> /\ status = "running" /\ task = "none"
    BY <1>8 DEF ShellCommand, Shell, More, Words, Calls, lines
  <2> HIDE DEF what
  <2>2. sent' = sent + 1 /\ task' = what
    BY <1>4, <2>1, AskMeans
  <2> QED
    BY <1>3, <1>4, <1>6, <2>1, <2>2
<1>9. CASE ShellComment
  <2>1. /\ step' = step + 1 /\ lines[step + 1] # "command" /\ step < Len(lines)
        /\ UNCHANGED <<sent, task, sock, printed, status>> /\ status = "running"
    BY <1>9 DEF ShellComment, Shell, More, session, api, lines
  <2> QED
    BY <1>3, <1>4, <1>6, <2>1
<1>10. CASE ShellReply
  <2>1. /\ task \in Words /\ task # "none" /\ task' = "none" /\ printed' = Puts
        /\ UNCHANGED <<sent, sock, step>> /\ sock = "idle"
        /\ status' = "ok" => script.args
    BY <1>10 DEF ShellReply, session, Words
  <2>2. /\ printed' \in Seq(Prints) /\ Len(printed') = Len(printed) + 1
    <3> DEFINE x == IF response # Untouched THEN response
                    ELSE IF printed = <<>> THEN <<>> ELSE Last(printed).text
    <3>1. x \in Seq(Token)
      <4>1. response \in Seq(Token) /\ <<>> \in Seq(Token)
        BY EmptySeq DEF IInv, SessionInv, SessionTypes
      <4>2. printed # <<>> => Last(printed) \in Prints
        <5> HIDE DEF Prints
        <5>1. Len(printed) \in Nat /\ \A i \in 1 .. Len(printed) : printed[i] \in Prints
          BY <1>3, LenProperties, ElementOfSeq
        <5>2. printed # <<>> => Len(printed) # 0
          BY <1>3, EmptySeq
        <5> QED
          BY <5>1, <5>2 DEF Last
      <4>3. printed # <<>> => Last(printed).text \in Seq(Token)
        BY <4>2 DEF Prints
      <4> QED
        BY <4>1, <4>3
    <3> HIDE DEF x
    <3>2. output \in Nat /\ code \in Nat
      BY RepliesAssumption DEF IInv, SessionInv, SessionTypes
    <3>3. [text |-> x, output |-> output, code |-> code] \in Prints
      BY <3>1, <3>2 DEF Prints
    <3>4. printed' = Append(printed, [text |-> x, output |-> output, code |-> code])
      BY <2>1 DEF Puts, x
    <3> QED
      BY <1>3, <3>3, <3>4, AppendProperties
  <2>3. ASSUME script.args PROVE step = Len(lines)
    <3>1. lines = <<"command">>
      BY <1>2, <2>3, ScriptKnown DEF lines
    <3>2. Len(lines) = 1
      BY <3>1
    <3>3. step # 0
      <4> SUFFICES ASSUME step = 0 PROVE FALSE
        OBVIOUS
      <4>1. CommandsIn(step) = {}
        BY DEF CommandsIn
      <4>2. count = 0
        BY <4>1, FS_EmptySet DEF count
      <4> QED
        BY <1>3, <1>4, <2>1, <4>2
    <3> QED
      BY <1>3, <3>2, <3>3
  <2> QED
    BY <1>3, <1>4, <1>6, <2>1, <2>2, <2>3
<1>11. CASE ShellEnds
  <2>1. /\ UNCHANGED <<sent, task, sock, printed, step>> /\ ~ (step < Len(lines))
    BY <1>11 DEF ShellEnds, Shell, More, session, api, lines
  <2>2. task = "none" /\ step = Len(lines)
    BY <1>3, <1>4, <1>11, <2>1 DEF ShellEnds, Shell
  <2> QED
    BY <1>3, <1>6, <2>1, <2>2
<1> QED
  BY <1>2, <1>7, <1>8, <1>9, <1>10, <1>11, ShellSteps

\* What has been read when a command of a script returns.
LEMMA ReplySays ==
    ASSUME IInv, ShellInv, LateInv, WholeInv, program \in Shells, Intact,
           sock = "idle", task \in Words
    PROVE  /\ response # Untouched
           /\ \/ Says(response, sent, output)
              \/ /\ rc < 0 /\ fd \in late
                 /\ \E len \in 0 .. output : Says(response, sent, len)
           /\ rc >= 0 /\ transport # "dt100" => code = 0
           /\ rc < 0 => code > 0 \/ fd \in late \/ (output = 0 /\ transport # "dt100")
<1>1. /\ sent \in Nat \ {0} /\ output \in Nat /\ code \in 0 .. 99 /\ rc \in Int
      /\ response \in Seq(Token) /\ leftover \in Seq(Token)
      /\ task # "none" /\ status = "running" /\ overruns = 0
  <2>1. sent \in Nat /\ output \in Nat /\ code \in 0 .. 99 /\ rc \in Int
        /\ response \in Seq(Token) /\ leftover \in Seq(Token)
    BY RepliesAssumption DEF IInv, SessionInv, SessionTypes
  <2>2. task # "none" /\ status = "running" /\ sent > 0
    BY DEF ShellInv, Words
  <2> QED
    BY <2>1, <2>2 DEF Intact
<1>2. response # Untouched
  BY <1>1, ResponseWritten DEF IInv, SessionInv
<1>3. CASE transport = "dt100"
  <2>1. OwnTokens /\ Numbers(leftover)
    BY <1>3 DEF IInv, SessionInv, TcpInv
  <2>2. response = Answer(leftover, sent, output) /\ (rc < 0 => - rc \in {code, FirstDigit(code)})
    BY <1>1, <2>1 DEF OwnTokens, Answer
  <2>3. Says(response, sent, output)
    BY <1>1, <2>1, <2>2, AnswerSays
  <2>4. rc < 0 => code > 0
    <3>1. FirstDigit(code) \in Nat /\ (FirstDigit(code) > 0 => code > 0)
      BY <1>1, FirstDigitOfCode
    <3> QED
      BY <1>1, <2>2, <3>1
  <2> QED
    BY <1>2, <1>3, <2>3, <2>4
<1>4. CASE transport # "dt100"
  <2> DEFINE all == Front(Lines(sent, output, code))
  <2>1. ~ wasLate /\ (late # {} => rc < 0 /\ late = {fd})
    BY <1>1, <1>4 DEF LateInv
  <2>2. /\ IsPrefix(response, all)
        /\ rc >= 0 => response = all /\ code = 0
        /\ rc < 0 => code > 0 \/ output = 0 \/ fd \in late
    <3>1. OwnLines
      BY <1>1, <1>4 DEF IInv, SessionInv, LinesInv
    <3> QED
      BY <1>1, <2>1, <3>1 DEF OwnLines
  <2>3. late = {} => response = all
    BY <1>1, <1>4 DEF WholeInv
  <2>4. /\ \E m \in 0 .. output : Says(response, sent, m)
        /\ response = all => Says(response, sent, output)
    <3> HIDE DEF all
    <3>1. IsPrefix(response, Front(Lines(sent, output, code)))
      BY <2>2 DEF all
    <3>2. code \in Nat
      BY <1>1
    <3> QED
      BY <1>1, <3>1, <3>2, BeginningSays, Zenon DEF all
  <2> HIDE DEF all
  <2> QED
    BY <1>1, <1>2, <1>4, <2>1, <2>2, <2>3, <2>4
<1> QED
  BY <1>3, <1>4

\* A script goes on only with files on which nothing has been given up.
LEMMA LateStep ==
    ASSUME IInv, ApiInv, ShellInv, LateInv, CardNext
    PROVE  LateInv'
<1> USE DEF given, vars, device
<1>1. program' = program /\ transport' = transport
  BY GivenStays
<1>2. SUFFICES ASSUME program \in Shells, transport # "dt100", status' = "running"
               PROVE  /\ late' # {} => /\ sock' = "idle" /\ task' # "none" /\ rc' < 0
                                       /\ late' = {fd'}
                      /\ task' # "none" => ~ wasLate'
  BY <1>1 DEF LateInv
<1>3. status = "running" =>
        /\ late # {} => sock = "idle" /\ task # "none" /\ rc < 0 /\ late = {fd}
        /\ task # "none" => ~ wasLate
  BY <1>2 DEF LateInv
<1>4. task \in {"none"} \cup Words /\ (task # "none" => status = "running")
      /\ (task = "none" => sock = "idle") /\ rc \in Int /\ "none" \notin Words
  BY <1>2 DEF ShellInv, Words, IInv, SessionInv, SessionTypes
<1>5. CASE Transport /\ UNCHANGED programs
  <2>1. status = "running" /\ task' = task
    BY <1>2, <1>5 DEF programs, own, Transport, api
  <2>2. ReadLine
    <3>1. net = <<>> /\ ~ closed
      BY <1>2 DEF IInv, SessionInv, ChannelInv
    <3>2. ~ Read
      <4>1. \A k \in 1 .. Len(net) : FALSE
        BY <3>1
      <4> QED
        BY <3>1, <4>1 DEF Read, ReadEnds
    <3> QED
      BY <1>2, <1>5, <3>2 DEF Transport, Receives, Closes
  <2>3. late = {} /\ task # "none"
    <3>1. sock = "reading"
      BY <2>2 DEF ReadLine, CopyLine, CopyOverruns, EndOfReply, IncompleteReply, Reads
    <3> QED
      BY <1>3, <1>4, <2>1, <3>1
  <2>4. wasLate' = wasLate /\ fd' = fd
    BY <2>2 DEF ReadLine, CopyLine, CopyOverruns, EndOfReply, IncompleteReply, Reads
  <2>5. CASE IncompleteReply
    <3>1. late' = {fd} /\ sock' = "idle" /\ rc' = -1
      BY <2>3, <2>5 DEF IncompleteReply
    <3> QED
      BY <1>3, <2>1, <2>3, <2>4, <3>1
  <2>6. CASE CopyLine \/ CopyOverruns \/ EndOfReply
    <3>1. late' = late
      BY <2>6 DEF CopyLine, CopyOverruns, EndOfReply, Reads
    <3> QED
      BY <1>3, <2>1, <2>3, <2>4, <3>1
  <2> QED
    BY <2>2, <2>5, <2>6 DEF ReadLine
<1>6. CASE ShellCommand
  <2>1. status = "running" /\ task = "none"
    BY <1>6 DEF ShellCommand, Shell
  <2>2. late = {} /\ late' = late /\ ~ wasLate'
    BY <1>2, <1>3, <1>6, <2>1 DEF ShellCommand, Ask, SendLine
  <2> QED
    BY <2>2
<1>7. CASE ShellComment \/ ShellEnds
  <2>1. UNCHANGED <<late, sock, task, rc, fd, wasLate>> /\ status = "running"
    BY <1>7 DEF ShellComment, ShellEnds, Shell, session, kdd, api
  <2> QED
    BY <1>3, <2>1
<1>8. CASE ShellReply
  <2>1. ~ (rc < 0) /\ late' = late /\ task' = "none" /\ task # "none"
    BY <1>2, <1>4, <1>8 DEF ShellReply, kdd
  <2> QED
    BY <1>3, <1>4, <2>1
<1> QED
  BY <1>2, <1>5, <1>6, <1>7, <1>8, ShellSteps

\* The answer of a driver has been read to its end, or the command given up.
LEMMA WholeStep ==
    ASSUME IInv, ApiInv, ShellInv, LateInv, WholeInv, CardNext
    PROVE  WholeInv'
<1> USE DEF given, vars, device
<1>1. program' = program /\ transport' = transport
  BY GivenStays
<1>2. SUFFICES ASSUME program \in Shells, transport # "dt100", overruns' = 0,
                      status' = "running", sock' = "idle", sent' > 0, late' = {}
               PROVE  response' = Front(Lines(sent', output', code'))
  BY <1>1 DEF WholeInv
<1>3. overruns = 0 /\ status = "running" /\ sock = "idle" /\ sent > 0 /\ late = {} =>
        response = Front(Lines(sent, output, code))
  BY <1>2 DEF WholeInv
<1>4. /\ sent \in Nat /\ output \in Nat /\ code \in Nat /\ response \in Seq(Token)
      /\ fd \in {"cmd", "shell"}
      /\ fds[fd] \in Seq(Token)
      /\ "none" \notin Words
  <2>1. sent \in Nat /\ output \in Nat /\ code \in Nat /\ response \in Seq(Token)
    BY RepliesAssumption DEF IInv, SessionInv, SessionTypes
  <2>2. fds \in [{"cmd", "shell"} -> Seq(LineSet(sent))] /\ fd \in {"cmd", "shell"}
    BY DEF IInv, SessionInv, KddTypes, LineSet
  <2>3. fds[fd] \in Seq(Token)
    BY <2>1, <2>2, LineSetTokens
  <2> QED
    BY <2>1, <2>2, <2>3 DEF Words
<1>5. CASE UNCHANGED <<session, kdd>> /\ status = "running"
  BY <1>2, <1>3, <1>5 DEF session, kdd
<1>6. CASE Transport /\ UNCHANGED programs
  <2>1. status = "running"
    BY <1>2, <1>6 DEF programs, own
  <2>2. CASE EndOfReply
    <3> DEFINE q == fds[fd]
    <3>1. sock = "reading" /\ overruns = 0 /\ late = {} /\ q # <<>> /\ Head(q).kind = "EOF"
          /\ UNCHANGED <<response, sent, output, code>>
      BY <1>2, <2>2 DEF EndOfReply, Reads
    <3>2. task # "none" /\ sent > 0 /\ ~ wasLate
      BY <1>2, <2>1, <3>1 DEF ShellInv, LateInv
    <3>3. response \o q = Lines(sent, output, code)
      BY <1>2, <3>1, <3>2 DEF IInv, SessionInv, LinesInv
    <3>4. \A i \in 1 .. Len(response) : response[i].kind \in {"output", "ERROR"}
      BY <1>2, <3>1, <3>2 DEF IInv, SessionInv, FilesInv
    <3>5. q \in Seq(Token) /\ sent \in Nat \ {0}
      BY <1>4, <3>2
    <3> HIDE DEF q
    <3>6. AreRead(response, q, sent, output, code)
      BY <1>4, <3>3, <3>4, <3>5, LinesRead
    <3> QED
      BY <3>1, <3>6 DEF AreRead
  <2>3. CASE ~ EndOfReply
    <3>1. net = <<>> /\ ~ closed
      BY <1>2 DEF IInv, SessionInv, ChannelInv
    <3>2. ~ Read
      <4>1. \A k \in 1 .. Len(net) : FALSE
        BY <3>1
      <4> QED
        BY <3>1, <4>1 DEF Read, ReadEnds
    <3>3. CopyLine \/ CopyOverruns \/ IncompleteReply
      BY <1>2, <1>6, <2>3, <3>2 DEF Transport, Receives, Closes, ReadLine
    <3>4. ~ IncompleteReply
      BY <1>2 DEF IncompleteReply
    <3>5. sock' # "idle"
      BY <3>3, <3>4 DEF CopyLine, CopyOverruns, Reads
    <3> QED
      BY <1>2, <3>5
  <2> QED
    BY <2>2, <2>3
<1>7. CASE ShellCommand
  <2>1. sock' = "reading"
    BY <1>2, <1>7 DEF ShellCommand, Ask, SendLine
  <2> QED
    BY <1>2, <2>1
<1>8. CASE ShellComment \/ ShellEnds
  BY <1>5, <1>8 DEF ShellComment, ShellEnds, Shell
<1>9. CASE ShellReply
  <2>1. status = "running"
    BY <1>2, <1>4, <1>9 DEF ShellReply, ShellInv
  <2> QED
    BY <1>5, <1>9, <2>1 DEF ShellReply
<1> QED
  BY <1>2, <1>6, <1>7, <1>8, <1>9, ShellSteps

\* What is printed of a command is its answer, and stays.
LEMMA TextStep ==
    ASSUME IInv, ApiInv, ShellInv, LateInv, WholeInv, TextInv, CardNext,
           UNCHANGED connections
    PROVE  TextInv'
<1> USE DEF given, vars, device
<1>1. program' = program /\ transport' = transport
  BY GivenStays
<1>2. Intact' => Intact
  <2>1. [SessionNext]_sessions
    BY ProgramStep DEF ProgramsNext
  <2> QED
    BY <2>1, DamageStays DEF IInv, SessionInv
<1>3. SUFFICES ASSUME program \in Shells, Intact
               PROVE  /\ \A i \in DOMAIN printed' :
                            \/ Says(printed'[i].text, i, printed'[i].output)
                            \/ /\ i = sent' /\ status' = "error" /\ fd' \in late'
                               /\ \E len \in 0 .. printed'[i].output :
                                     Says(printed'[i].text, i, len)
                      /\ \A i \in DOMAIN printed' :
                            (i < sent' \/ status' # "error") /\ transport # "dt100" =>
                                printed'[i].code = 0
                      /\ status' = "error" =>
                            \/ code' > 0 \/ fd' \in late'
                            \/ (output' = 0 /\ transport # "dt100")
  BY <1>1, <1>2 DEF TextInv, Says
<1>4. /\ \A i \in DOMAIN printed :
            \/ Says(printed[i].text, i, printed[i].output)
            \/ /\ i = sent /\ status = "error" /\ fd \in late
               /\ \E len \in 0 .. printed[i].output : Says(printed[i].text, i, len)
      /\ \A i \in DOMAIN printed :
            (i < sent \/ status # "error") /\ transport # "dt100" => printed[i].code = 0
      /\ status = "error" => code > 0 \/ fd \in late \/ (output = 0 /\ transport # "dt100")
  BY <1>3 DEF TextInv
<1>5. CASE Transport /\ UNCHANGED programs
  <2>1. UNCHANGED <<sent, code, output, fd, printed, status>>
    BY <1>5, TransportMeans DEF programs, own
  <2>2. late \subseteq late'
    BY <1>5 DEF Transport, Receives, kdd, ReadLine, CopyLine, CopyOverruns, EndOfReply,
       IncompleteReply, Reads, Closes
  <2> HIDE DEF Says
  <2> QED
    BY <1>4, <2>1, <2>2
<1>6. CASE ShellCommand
  <2>1. status = "running" /\ status' = "running" /\ printed' = printed
    BY <1>6 DEF ShellCommand, Shell
  <2> QED
    BY <1>4, <2>1
<1>7. CASE ShellComment \/ ShellEnds
  <2>1. /\ status = "running" /\ status' # "error"
        /\ UNCHANGED <<sent, code, output, fd, late, printed>>
    BY <1>7 DEF ShellComment, ShellEnds, Shell, session, kdd
  <2> QED
    BY <1>4, <2>1
<1>8. CASE ShellReply
  <2>1. /\ task \in Words /\ sock = "idle" /\ printed' = Puts
        /\ UNCHANGED <<sent, code, output, fd, late>>
        /\ status' = "error" <=> rc < 0
    BY <1>8 DEF ShellReply, session, kdd
  <2>2. /\ status = "running" /\ sent \in Nat /\ Len(printed) = sent - 1
        /\ printed \in Seq(Prints)
    BY <1>3, <2>1 DEF ShellInv, Words, IInv, SessionInv, SessionTypes
  <2> DEFINE x == [text |-> response, output |-> output, code |-> code]
  <2>3. /\ response # Untouched
        /\ \/ Says(response, sent, output)
           \/ /\ rc < 0 /\ fd \in late
              /\ \E len \in 0 .. output : Says(response, sent, len)
        /\ rc >= 0 /\ transport # "dt100" => code = 0
        /\ rc < 0 => code > 0 \/ fd \in late \/ (output = 0 /\ transport # "dt100")
    BY <1>3, <2>1, ReplySays
  <2>4. printed' = Append(printed, x)
    BY <2>1, <2>3 DEF Puts
  <2>5. x \in Prints
    <3>1. response \in Seq(Token) /\ output \in Nat /\ code \in Nat
      BY RepliesAssumption DEF IInv, SessionInv, SessionTypes
    <3> QED
      BY <3>1 DEF Prints
  <2> HIDE DEF Prints
  <2>6. /\ x.text = response /\ x.output = output /\ x.code = code
    OBVIOUS
  <2> HIDE DEF x
  <2>7. /\ printed' \in Seq(Prints) /\ Len(printed') = sent
        /\ \A i \in 1 .. sent - 1 : printed'[i] = printed[i]
        /\ printed'[sent] = x
    <3>1. /\ printed' \in Seq(Prints) /\ Len(printed') = Len(printed) + 1
          /\ \A i \in 1 .. Len(printed) : printed'[i] = printed[i]
          /\ printed'[Len(printed) + 1] = x
      BY <2>2, <2>4, <2>5, AppendProperties
    <3>2. Len(printed) + 1 = sent
      BY <2>2
    <3> QED
      BY <2>2, <3>1, <3>2
  <2>8. DOMAIN printed = 1 .. sent - 1 /\ DOMAIN printed' = 1 .. sent
    BY <2>2, <2>7, LenProperties
  <2>9. ASSUME NEW i \in 1 .. sent - 1
        PROVE  /\ Says(printed'[i].text, i, printed'[i].output)
               /\ transport # "dt100" => printed'[i].code = 0
    BY <1>4, <2>2, <2>7, <2>8
  <2>10. \A i \in DOMAIN printed' : i \in 1 .. sent - 1 \/ i = sent
    BY <2>2, <2>8
  <2>11. rc \in Int
    BY DEF IInv, SessionInv, SessionTypes
  <2>12. ASSUME NEW i \in DOMAIN printed'
         PROVE  /\ \/ Says(printed'[i].text, i, printed'[i].output)
                   \/ /\ i = sent' /\ status' = "error" /\ fd' \in late'
                      /\ \E len \in 0 .. printed'[i].output : Says(printed'[i].text, i, len)
                /\ (i < sent' \/ status' # "error") /\ transport # "dt100" =>
                       printed'[i].code = 0
    <3>1. CASE i \in 1 .. sent - 1
      BY <2>9, <3>1
    <3>2. CASE i = sent
      BY <2>1, <2>2, <2>3, <2>6, <2>7, <2>11, <3>2
    <3> QED
      BY <2>10, <3>1, <3>2
  <2> QED
    BY <2>1, <2>3, <2>12
<1> QED
  BY <1>3, <1>5, <1>6, <1>7, <1>8, ShellSteps

\* The invariant holds when a program begins.
LEMMA ProgramsBegin == ProgramsInit => ProgramsInv /\ ConnInvariant
<1> SUFFICES ASSUME ProgramsInit PROVE ProgramsInv /\ ConnInvariant
  OBVIOUS
<1>1. /\ sent = 0 /\ asked = <<>> /\ task = "none" /\ ranges = Null /\ failed = FALSE
      /\ volts = "none" /\ sock = "idle" /\ late = {} /\ overruns = 0
      /\ Null = -1
  BY DEF ProgramsInit, Init, SessionInit, KddInit, Null
<1>2. /\ program \in Programs /\ name \in CardStates
      /\ card \in [state : CardStates, total : {0}] /\ arms = 0 /\ answer = card
      /\ script \in (IF program \in Shells
                     THEN { s \in Scripts : program = "acqcmd" => s.args \/ s.lines = <<>> }
                     ELSE {NoScript})
      /\ printed = <<>> /\ step = 0 /\ shown = [state |-> "none", total |-> 0]
      /\ interrupted = FALSE /\ stat = NoStat /\ status = "running"
  BY DEF ProgramsInit
<1>3. MaxTotal \in Nat /\ MaxArms \in Nat
  BY ProgramsAssumption
<1>4. <<>> \in Seq(Calls) /\ Len(<<>>) = 0 /\ <<>> \in Seq(Prints)
  BY EmptySeq
<1>5. Len(Setup) \in Nat \ {0}
  BY SetupCalls
<1>6. ApiInv
  <2>1. asked \in Seq(Calls) /\ Len(asked) = sent
    BY <1>1, <1>4
  <2>2. ranges \in {Null} \cup 0 .. Channels
    BY <1>1
  <2> QED
    BY <1>1, <2>1, <2>2 DEF ApiInv
<1>7. DeviceInv
  <2>1. 0 \in Samples
    BY <1>3 DEF Samples
  <2>2. /\ card \in [state : CardStates, total : Samples]
        /\ shown \in [state : CardStates \cup {"none"}, total : Samples]
    BY <1>2, <2>1
  <2>3. arms \in 0 .. MaxArms
    BY <1>2, <1>3
  <2>4. interrupted \in BOOLEAN /\ status \in {"running", "ok", "error"}
    BY <1>2
  <2> QED
    BY <1>2, <2>2, <2>3, <2>4 DEF DeviceInv
<1>8. OtherInv /\ TestInv
  <2>1. step \in 0 .. Len(Setup) + 2 /\ ~ (step >= Len(Setup))
    BY <1>2, <1>5
  <2> QED
    BY <1>1, <1>2, <2>1 DEF OtherInv, TestInv
<1>9. CaptureInv
  BY <1>1, <1>2 DEF CaptureInv
<1>10. ShellInv
  <2> SUFFICES ASSUME program \in Shells PROVE ShellInv
    BY DEF ShellInv
  <2>1. script \in Scripts
    BY <1>2
  <2>2. Len(script.lines) \in Nat
    BY <2>1, ScriptsAssumption, LenProperties
  <2>3. CommandsIn(step) = {}
    BY <1>2 DEF CommandsIn
  <2>4. Cardinality(CommandsIn(step)) = 0
    BY <2>3, FS_EmptySet
  <2>5. printed \in Seq(Prints) /\ Len(printed) = 0
    BY <1>2, <1>4
  <2> QED
    BY <1>1, <1>2, <2>1, <2>2, <2>4, <2>5 DEF ShellInv
<1>11. LateInv /\ WholeInv
  BY <1>1 DEF LateInv, WholeInv
<1>12. TextInv
  <2>1. DOMAIN printed = {}
    BY <1>2
  <2> QED
    BY <1>2, <2>1 DEF TextInv
<1>13. ConnInvariant
  <2>1. ConnectionsInit(program = "caller") /\ (program = "caller") \in BOOLEAN
    BY DEF ProgramsInit
  <2> QED
    BY <2>1, ConnectionsBegin
<1> QED
  BY <1>6, <1>7, <1>8, <1>9, <1>10, <1>11, <1>12, <1>13 DEF ProgramsInv

\* Every step keeps it.
LEMMA ProgramsKeep ==
    IInv /\ ProgramsInv /\ ConnInvariant /\ [ProgramsNext]_everything =>
        ProgramsInv' /\ ConnInvariant'
<1> SUFFICES ASSUME IInv, ProgramsInv, ConnInvariant, [ProgramsNext]_everything
             PROVE  ProgramsInv' /\ ConnInvariant'
  OBVIOUS
<1>1. CASE CardNext /\ UNCHANGED connections
  <2>1. ProgramsInv'
    BY <1>1, ApiStep, DeviceStep, TestStep, CaptureStep, ShellStep, LateStep, WholeStep, TextStep
       DEF ProgramsInv
  <2> QED
    BY <1>1, <2>1, ConnectionsKeep
<1>2. CASE [ConnectionsNext]_connections /\ UNCHANGED <<vars, programs>>
  <2>1. /\ UNCHANGED <<net, rxbuf, sent, code, output, leftover, overruns, closed>>
        /\ UNCHANGED <<sock, rc, response>>
        /\ UNCHANGED <<transport, fds, fd, late, wasLate>>
        /\ UNCHANGED <<ai, ranges, asked, task, failed, volts>>
        /\ UNCHANGED <<program, name, script, printed, card, arms, answer>>
        /\ UNCHANGED <<step, shown, interrupted, stat, status>>
    BY <1>2 DEF vars, session, kdd, api, programs, given, device, own
  <2>2. ApiInv' /\ DeviceInv'
    BY <2>1 DEF ProgramsInv, ApiInv, DeviceInv
  <2>3. OtherInv' /\ TestInv' /\ CaptureInv'
    BY <2>1 DEF ProgramsInv, OtherInv, TestInv, CaptureInv, Setup, Intact
  <2>4. ShellInv' /\ LateInv' /\ WholeInv'
    BY <2>1 DEF ProgramsInv, ShellInv, CommandsIn, LateInv, WholeInv
  <2>5. TextInv'
    <3>1. SUFFICES
             ASSUME program \in Shells, Intact
             PROVE  /\ \A i \in DOMAIN printed' :
                          \/ Says(printed'[i].text, i, printed'[i].output)
                          \/ /\ i = sent' /\ status' = "error" /\ fd' \in late'
                             /\ \E len \in 0 .. printed'[i].output : Says(printed'[i].text, i, len)
                    /\ \A i \in DOMAIN printed' :
                          (i < sent' \/ status' # "error") /\ transport # "dt100" =>
                              printed'[i].code = 0
                    /\ status' = "error" =>
                          \/ code' > 0 \/ fd' \in late'
                          \/ (output' = 0 /\ transport # "dt100")
      BY <2>1 DEF TextInv, Says, Intact
    <3> QED
      BY <2>1, <3>1 DEF ProgramsInv, TextInv
  <2> QED
    BY <1>2, <2>2, <2>3, <2>4, <2>5, ConnectionsKeep DEF ProgramsInv
<1>3. CASE UNCHANGED everything
  BY <1>2, <1>3 DEF everything
<1> QED
  BY <1>1, <1>2, <1>3 DEF ProgramsNext

\* It says what the programs print, and the types.
LEMMA ProgramsHold == IInv /\ ProgramsInv /\ ConnInvariant => ProgramsTypes /\ ProgramsTrue
<1> SUFFICES ASSUME IInv, ProgramsInv, ConnInvariant PROVE ProgramsTypes /\ ProgramsTrue
  OBVIOUS
<1> USE DEF ProgramsInv
<1>1. ConnectionsTypes /\ ConnectionsTrue
  BY ConnectionsHold
<1>2. ProgramsTypes
  <2>1. TypeInv
    BY DEF TypeInv, IInv, SessionInv, TaskInv, ApiInv
  <2>2. program \in Shells => step \in 0 .. Len(script.lines) /\ Len(printed) \in {sent - 1, sent}
    BY DEF ShellInv
  <2>3. program \notin Shells => step \in 0 .. Len(Setup) + 2 /\ printed = <<>>
    BY DEF OtherInv
  <2> QED
    BY <1>1, <2>1, <2>2, <2>3 DEF ProgramsTypes, DeviceInv, Samples
<1>3. CaptureComplete
  BY DEF CaptureComplete, CaptureInv, TestInv
<1>4. ScriptPrinted
  <2> SUFFICES ASSUME program \in Shells, Intact PROVE ScriptPrinted
    BY DEF ScriptPrinted
  <2>1. status = "ok" => Len(printed) = Cardinality(Commands)
    <3> SUFFICES ASSUME status = "ok" PROVE Len(printed) = Cardinality(Commands)
      OBVIOUS
    <3>1. task = "none" /\ step = Len(script.lines)
      BY DEF ShellInv
    <3>2. Len(printed) = Cardinality(CommandsIn(step))
      BY <3>1 DEF ShellInv
    <3>3. CommandsIn(step) = Commands
      BY <3>1, ScriptKnown DEF CommandsIn, Commands
    <3> QED
      BY <3>2, <3>3
  <2>2. status \in {"running", "ok", "error"}
    BY DEF DeviceInv
  <2> QED
    BY <2>1, <2>2 DEF ScriptPrinted, TextInv
<1> QED
  BY <1>1, <1>2, <1>3, <1>4 DEF ProgramsTrue

-----------------------------------------------------------------------------
\* The invariants of programs and connections hold of every program.
THEOREM ProgramsInvariance == ProgramsSpec => [](ProgramsInv /\ ConnInvariant)
BY Begins, StepKeeps, ProgramsBegin, ProgramsKeep, PTL DEF ProgramsSpec

\* Every variable of every program keeps its type, a script no further than
\* its lines and a test no further than its calls.
THEOREM ProgramsTyped == ProgramsSpec => []ProgramsTypes
BY Invariance, ProgramsInvariance, ProgramsHold, PTL

\* A test that ends well has seen its capture end and printed the whole of
\* its count; a script prints the whole output of each command up to the first
\* that failed; and each connection of the library has a descriptor of its own
\* on which the reply to each call is its own.
THEOREM ProgramsAreTrue == ProgramsSpec => []ProgramsTrue
BY Invariance, ProgramsInvariance, ProgramsHold, PTL
=============================================================================
