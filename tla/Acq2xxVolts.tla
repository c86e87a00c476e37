---------------------------- MODULE Acq2xxVolts ----------------------------
(***************************************************************************)
(* The calls of acq2xx_api.cpp over the session of Dt100Transport or       *)
(* KddTransport.  readChannelVolts() makes two queries of its own, of the  *)
(* number of channels and of their ranges, and keeps what they say.        *)
(*                                                                         *)
(* A field that sscanf() converts is a unit of output: of get.vin the pair *)
(* of a channel, of getNumSamples the total and the other three.           *)
(***************************************************************************)
EXTENDS KddSession

CONSTANTS
    Channels,       \* the number of channels of the card
    LibraryCalls    \* what a caller of readChannelVolts() calls beside it

\* The calls that keep only their result, and the fields of the others.
Setters == {"setRoute", "setInternalClock", "selectChannels", "setPrePostMode",
            "setArm", "setAbort"}
Fields == [getInternalClock |-> 1, getSelectedChannels |-> 1, getState |-> 1,
           getNumSamples |-> 2, getAvailableChannels |-> 2]
Getters == DOMAIN Fields
\* Commands of a user's own words.
Words == {"acqcmd", "acq2sh"}
\* Those that use acq2sh(); the others use acqcmd().
ShellCalls == {"setRoute", "setPrePostMode", "getChannelRanges", "acq2sh"}
Calls == Setters \cup Getters \cup {"getChannelRanges"} \cup Words

ASSUME ChannelsAssumption == Channels \in Nat \ {0}
ASSUME LibraryAssumption ==
    LibraryCalls \subseteq (Setters \cup Getters) \ {"getAvailableChannels"}

VARIABLES
    ai,         \* Acq2xx::ai, -1 until a reply has set it
    ranges,     \* entries of Acq2xx::ranges that are set, Null before new[]
    asked,      \* history: asked[n] is what command n asked for
    task,       \* what the API call in progress waits for
    failed,     \* history: a call has returned STATUS_ERR
    volts       \* the last data returned: "none", "calibrated" or "raw"

Null == -1

api == <<ai, ranges, asked, task, failed, volts>>
vars == <<session, kdd, api>>

Init ==
    /\ SessionInit
    /\ KddInit
    /\ ai = -1
    /\ ranges = Null
    /\ asked = <<>>
    /\ task = "none"
    /\ failed = FALSE
    /\ volts = "none"

-----------------------------------------------------------------------------
\* A command over the session.
Ask(what) ==
    /\ \/ transport = "dt100" /\ Send /\ UNCHANGED kdd
       \/ SendLine(IF what \in ShellCalls THEN "shell" ELSE "cmd")
    /\ asked' = Append(asked, what)
    /\ task' = what

\* The fields of a reply that sscanf() converts: those of this query's own
\* format, from the start of the reply.  A reply that acq2sh() never wrote is
\* an uninitialised array, where it may find anything.
Scans(n, what) ==
    IF response = Untouched THEN TRUE
    ELSE /\ \A i \in 1 .. n :
              /\ i <= Len(response)
              /\ response[i].kind = "output"
              /\ response[i].val = i
              /\ asked[response[i].cmd] = what
         /\ n < Len(response) /\ response[n + 1].kind = "output" =>
              \/ response[n + 1].val # n + 1
              \/ asked[response[n + 1].cmd] # what

\* A call fails with its command, or when sscanf() converts too little.  Of an
\* uninitialised array it may convert all.
Errs(what) ==
    \/ rc < 0
    \/ what \in Getters /\ \E n \in 0 .. Fields[what] - 1 : Scans(n, what)
Succeeds(what) ==
    /\ rc >= 0
    /\ what \in Getters => \E n \in Fields[what] .. Fields[what] + Len(response) : Scans(n, what)

\* The value of AI in a reply that has it.
CountIn == IF response = Untouched THEN 1 .. Channels ELSE {Channels}

\* The call returns an error.
Fails ==
    /\ failed' = TRUE
    /\ task' = "none"
    /\ UNCHANGED <<session, kdd, asked, volts>>

-----------------------------------------------------------------------------
\* readChannelVolts() up to its first exchange with the card; ranges = new[].
CallVolts ==
    /\ task = "none"
    /\ \/ /\ ranges = Null /\ ai = -1
          /\ Ask("getAvailableChannels")
          /\ UNCHANGED <<ai, ranges, failed, volts>>
       \/ /\ ranges = Null /\ ai # -1
          /\ ranges' = 0
          /\ Ask("getChannelRanges")
          /\ UNCHANGED <<ai, failed, volts>>
       \/ /\ ranges # Null /\ sock # "dead"
          /\ task' = "data"
          /\ UNCHANGED <<session, kdd, ai, ranges, asked, failed, volts>>

\* Another call.
CallOther ==
    /\ task = "none"
    /\ \E what \in LibraryCalls : Ask(what)
    /\ UNCHANGED <<ai, ranges, failed, volts>>

OtherReply ==
    /\ task \in LibraryCalls /\ sock = "idle"
    /\ task' = "none"
    /\ \/ Errs(task) /\ failed' = TRUE
       \/ Succeeds(task) /\ UNCHANGED failed
    /\ UNCHANGED <<session, kdd, ai, ranges, asked, volts>>

\* getAvailableChannels() returns: sscanf() sets ai and ao as it goes.
ChannelsReply ==
    /\ task = "getAvailableChannels" /\ sock = "idle"
    /\ \/ rc < 0 /\ Fails /\ UNCHANGED <<ai, ranges>>
       \/ /\ rc >= 0 /\ Scans(0, "getAvailableChannels")
          /\ Fails /\ UNCHANGED <<ai, ranges>>
       \/ /\ rc >= 0 /\ Scans(1, "getAvailableChannels")
          /\ ai' \in CountIn
          /\ Fails /\ UNCHANGED ranges
       \/ /\ rc >= 0 /\ Scans(2, "getAvailableChannels")
          /\ ai' \in CountIn
          /\ ranges' = 0
          /\ Ask("getChannelRanges")
          /\ UNCHANGED <<failed, volts>>

\* Mutant of RangesReply: the status of getChannelRanges() is not tested.
RangesReplyUnchecked ==
    /\ task = "getChannelRanges" /\ sock = "idle"
    /\ \E n \in 0 .. ai : Scans(n, "getChannelRanges") /\ ranges' = n
    /\ task' = "data"
    /\ UNCHANGED <<session, kdd, ai, asked, failed, volts>>

\* getChannelRanges() returns: it scans one pair per channel, up to ai.
RangesReply ==
    /\ task = "getChannelRanges" /\ sock = "idle"
    /\ \/ rc < 0 /\ Fails /\ UNCHANGED <<ai, ranges>>
       \/ \E n \in 0 .. ai - 1 :
              /\ rc >= 0 /\ Scans(n, "getChannelRanges")
              /\ ranges' = n
              /\ Fails /\ UNCHANGED ai
       \/ \E n \in ai .. Channels :
              /\ rc >= 0 /\ Scans(n, "getChannelRanges")
              /\ ranges' = ai
              /\ task' = "data"
              /\ UNCHANGED <<session, kdd, ai, asked, failed, volts>>

\* readChannel(), on a connection of its own, and the conversion to volts.
Data ==
    /\ task = "data"
    /\ task' = "none"
    /\ \/ /\ \E channel \in 1 .. Channels :
                 volts' = (IF channel <= ranges THEN "calibrated" ELSE "raw")
          /\ UNCHANGED failed
       \/ failed' = TRUE /\ UNCHANGED volts
    /\ UNCHANGED <<session, kdd, ai, ranges, asked>>

Call == CallVolts \/ CallOther

Reply == OtherReply \/ ChannelsReply \/ RangesReply \/ Data

\* The transport reads what it can.
Receives == (Read /\ UNCHANGED kdd) \/ ReadLine

Closes == transport = "dt100" /\ CardCloses /\ UNCHANGED kdd

Transport == (Receives \/ Closes) /\ UNCHANGED api

-----------------------------------------------------------------------------
TypeInv ==
    /\ SessionTypes /\ KddTypes
    /\ ai \in {-1} \cup 1 .. Channels
    /\ ranges \in {Null} \cup 0 .. Channels
    /\ asked \in Seq(Calls) /\ Len(asked) = sent
    /\ task \in {"none", "data"} \cup Calls
    /\ failed \in BOOLEAN
    /\ volts \in {"none", "calibrated", "raw"}

\* A command always returns, or ends the process.
CallReturns == sock = "reading" ~> sock # "reading"

\* A caller that gives up at the first error never sees a channel converted
\* with an entry of ranges that was never set.
RawOnlyAfterError == volts = "raw" /\ Intact => failed

\* "read and output calibrated data for channel": what readChannelVolts()
\* returns as volts has been converted with the card's ranges.
CalibratedData == Intact => volts # "raw"
=============================================================================
