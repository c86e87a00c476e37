---------------------------- MODULE Connections ----------------------------
(***************************************************************************)
(* The connections of a Dt100Transport: one for commands, one for states   *)
(* and one for frames, each opened by the first call that needs it and     *)
(* kept, and one for each readChannel(), which is never closed.  A new     *)
(* connection is signed on: the card greets with a line, is told the mode, *)
(* and answers with another line.  A socket is a descriptor, the lowest    *)
(* that is free, and the value 0 of a socket stands for none.              *)
(***************************************************************************)
EXTENDS Integers, FiniteSets, SequencesExt

CONSTANTS
    Callers,        \* programs, each a record:
                    \*   calls: "acq2sh", "waitStateChange", "readChannel",
                    \*          "readStreamingFrame", "stopStreaming"
                    \*   greeting, prompt: the lengths of the two lines
                    \*   known: the host and its port can be looked up
    LINE,           \* of buf, in which signon() reads them, 80
    MaxDescriptors  \* of a process

CallNames == {"acq2sh", "waitStateChange", "readChannel", "readStreamingFrame", "stopStreaming"}

\* A process has room for its three standard files.
ASSUME CallersAssumption ==
    /\ Callers \subseteq [calls : Seq(CallNames), greeting : Nat, prompt : Nat, known : BOOLEAN]
    /\ LINE \in Nat
    /\ MaxDescriptors \in Nat /\ MaxDescriptors > 2

VARIABLES
    caller,
    called,         \* calls made
    at,             \* of the call: "none", "returned", "socket", "connect",
                    \* "greeting", "prompt", "signed", "asked", or "died"
    descriptors,    \* those that are open -> what can be read
    socks,          \* cmd_sock, stat_sock, stream_sock
    sd,             \* the descriptor of the call
    replies         \* history: what each call has read

connections == <<caller, called, at, descriptors, socks, sd, replies>>

NoCaller == [calls |-> <<>>, greeting |-> 0, prompt |-> 0, known |-> TRUE]
Sockets == {"cmd", "stat", "stream"}

\* init(), of a process with its three standard files.
ConnectionsInit(on) ==
    /\ caller \in IF on THEN Callers ELSE {NoCaller}
    /\ at = IF on THEN "returned" ELSE "none"
    /\ descriptors = [d \in {0, 1, 2} |-> <<>>]
    /\ socks = [k \in Sockets |-> 0]
    /\ called = 0 /\ sd = 0 /\ replies = <<>>

-----------------------------------------------------------------------------
What == caller.calls[called]
SocketOf == [acq2sh |-> "cmd", waitStateChange |-> "stat", readStreamingFrame |-> "stream"]
Kept == What \in DOMAIN SocketOf

Text(what, n) == [what |-> what, call |-> called, len |-> n]

Calling(names) ==
    /\ at = "returned" /\ called < Len(caller.calls)
    /\ caller.calls[called + 1] \in names
    /\ called' = called + 1
    /\ UNCHANGED caller

\* The call finds its socket, or has none.
FindSocket ==
    /\ Calling(DOMAIN SocketOf)
    /\ LET s == socks[SocketOf[caller.calls[called + 1]]]
       IN  IF s # 0 THEN sd' = s /\ at' = "signed"
                    ELSE at' = "socket" /\ UNCHANGED sd
    /\ UNCHANGED <<descriptors, socks, replies>>

ReadChannel ==
    /\ Calling({"readChannel"})
    /\ at' = "socket"
    /\ UNCHANGED <<descriptors, socks, sd, replies>>

\* close(s.stream_sock), whatever it is.
StopStreaming ==
    /\ Calling({"stopStreaming"})
    /\ descriptors' = [d \in DOMAIN descriptors \ {socks["stream"]} |-> descriptors[d]]
    /\ socks' = [socks EXCEPT !["stream"] = 0]
    /\ replies' = Append(replies, <<>>)
    /\ UNCHANGED <<at, sd>>

Dies ==
    /\ at' = "died"
    /\ UNCHANGED <<caller, called, descriptors, socks, sd, replies>>

\* get_sock().
GetSock ==
    /\ at = "socket"
    /\ IF Cardinality(DOMAIN descriptors) = MaxDescriptors THEN Dies
       ELSE /\ sd' = Min(0 .. MaxDescriptors \ DOMAIN descriptors)
            /\ descriptors' = [d \in DOMAIN descriptors \cup {sd'} |->
                                IF d = sd' THEN <<>> ELSE descriptors[d]]
            /\ socks' = IF Kept THEN [socks EXCEPT ![SocketOf[What]] = sd'] ELSE socks
            /\ at' = "connect"
            /\ UNCHANGED <<caller, called, replies>>

Hears(texts) == descriptors' = [descriptors EXCEPT ![sd] = texts]

\* set_address() and connect().
ConnectTo ==
    /\ at = "connect"
    /\ \/ /\ caller.known
          /\ Hears(<<Text("greeting", caller.greeting)>>)
          /\ at' = "greeting"
          /\ UNCHANGED <<caller, called, socks, sd, replies>>
       \/ Dies

\* readline() into LINE characters: the rest of a longer line is another one.
AfterLine(texts) ==
    IF Head(texts).len <= LINE THEN Tail(texts)
    ELSE <<[Head(texts) EXCEPT !.len = @ - LINE]>> \o Tail(texts)

\* signon(): the result of readline() is not looked at.  The card answers the
\* line with the mode.
ReadGreeting ==
    /\ at = "greeting"
    /\ Hears(Append(AfterLine(descriptors[sd]), Text("prompt", caller.prompt)))
    /\ at' = "prompt"
    /\ UNCHANGED <<caller, called, socks, sd, replies>>

ReadPrompt ==
    /\ at = "prompt"
    /\ Hears(AfterLine(descriptors[sd]))
    /\ at' = "signed"
    /\ UNCHANGED <<caller, called, socks, sd, replies>>

\* The card answers the command (or has another state, or another frame).
Asks ==
    /\ at = "signed"
    /\ Hears(Append(descriptors[sd], Text("reply", 1)))
    /\ at' = "asked"
    /\ UNCHANGED <<caller, called, socks, sd, replies>>

\* acq2sh() reads up to the end of its reply, the others what comes first.
TakeReply ==
    /\ at = "asked"
    /\ LET heard == descriptors[sd]
       IN  IF What = "acq2sh" THEN Hears(<<>>) /\ replies' = Append(replies, heard)
           ELSE Hears(Tail(heard)) /\ replies' = Append(replies, <<Head(heard)>>)
    /\ at' = "returned"
    /\ UNCHANGED <<caller, called, socks, sd>>

ConnectionsNext ==
    \/ FindSocket \/ ReadChannel \/ StopStreaming \/ GetSock \/ ConnectTo \/ ReadGreeting \/ ReadPrompt
    \/ Asks \/ TakeReply

-----------------------------------------------------------------------------
ConnectionsTypes ==
    /\ at \in {"none", "returned", "socket", "connect", "greeting", "prompt", "signed", "asked", "died"}
    /\ DOMAIN descriptors \subseteq 0 .. MaxDescriptors
    /\ socks \in [Sockets -> 0 .. MaxDescriptors] /\ sd \in 0 .. MaxDescriptors
    /\ called \in 0 .. Len(caller.calls)
    /\ Len(replies) \in {called - 1, called}

\* Before call i a frame has been read, and the stream not stopped since.
Streamed(i) ==
    \E j \in DOMAIN caller.calls :
        /\ j < i /\ caller.calls[j] = "readStreamingFrame"
        /\ \A k \in DOMAIN caller.calls : j < k /\ k < i => caller.calls[k] # "stopStreaming"

\* stopStreaming() without a frame closes descriptor 0, which a socket may
\* have next.
Stray == \E i \in 1 .. called : caller.calls[i] = "stopStreaming" /\ ~ Streamed(i)

\* Whichever connections the calls before it have opened and closed, a call
\* reads the card's answer to it and nothing else, if the lines of the signon
\* fit in its buffer; if not, acq2sh() still does on a connection that is kept,
\* but for its first call.
OwnReplies ==
    \A i \in DOMAIN replies :
        LET first == \A j \in 1 .. i - 1 : caller.calls[j] # caller.calls[i]
        IN  \/ caller.calls[i] = "stopStreaming"
            \/ replies[i] = <<[what |-> "reply", call |-> i, len |-> 1]>>
            \/ /\ caller.greeting > LINE \/ caller.prompt > LINE
               /\ caller.calls[i] = "acq2sh" => first \/ Stray

\* Unless that has happened, there is one connection for each of the three
\* purposes at most, however often it is used, each with a descriptor of its
\* own, and one more for every readChannel() so far, which is what a process
\* runs out of.
KeptOnce ==
    ~ Stray =>
        LET kept == { k \in Sockets : socks[k] # 0 }
            reads == { i \in 1 .. called : caller.calls[i] = "readChannel" }
            opened == IF at \in {"socket", "died"} THEN reads \ {called} ELSE reads
        IN  /\ {0, 1, 2} \subseteq DOMAIN descriptors
            /\ \A j, k \in kept : j # k => socks[j] # socks[k]
            /\ Cardinality(DOMAIN descriptors) - 3 - Cardinality(kept) - Cardinality(opened)
                    \in IF at = "died" THEN {0, 1} ELSE {0}

ConnectionsTrue == OwnReplies /\ KeptOnce
=============================================================================
