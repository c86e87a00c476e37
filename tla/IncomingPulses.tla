--------------------------- MODULE IncomingPulses ---------------------------
(***************************************************************************)
(* IncomingProcessController (ProcessController.cpp): dir-watch names a    *)
(* raw file for each pulse; each gets a directory of its own below one for *)
(* its second, below one for its minute.  When a second is over its        *)
(* directory is copied to <outbase>/current for others to look at.         *)
(***************************************************************************)
EXTENDS LinearData

CONSTANTS
    PPS,            \* PULSE_PER_SECOND
    MINUTE,         \* 60
    Undefined,      \* values that memory may have: second and minute are
                    \* never initialised
    OldMinutes      \* minutes whose directory an earlier run may have left

ASSUME PulsesAssumption ==
    PPS \in Nat \ {0} /\ MINUTE \in Nat \ {0} /\ Undefined \subseteq Nat

VARIABLES
    pulse, second, minute,
    current_root,   \* <<minute, second>>, or <<>> before it has been set
    made,           \* directories of minutes and seconds
    dirs,           \* directories of pulses: [minute, second, pulse] -> files
    current, copy   \* what is in current, and in current.new

incoming == <<pulse, second, minute, current_root, made, dirs, current, copy>>

PulsesInit(values, old_minutes) ==
    /\ pulse = 0
    /\ second \in values /\ minute \in values
    /\ current_root = <<>>
    /\ made \in { { <<m>> : m \in old } : old \in SUBSET old_minutes }
    /\ dirs = <<>>
    /\ current = {} /\ copy = {}

-----------------------------------------------------------------------------
\* The format file, besides the directories of pulses.
Format == <<>>

DirsBelow(path) == { d \in DOMAIN dirs : SubSeq(d, 1, 2) = path }

\* copyLatest(): mkdir, cp -r and make.format into current.new, then mv -T,
\* which does not replace a directory that has something in it.
copyLatest ==
    LET copied == copy \cup {Format} \cup DirsBelow(current_root)
    IN  IF current = {} THEN current' = copied /\ copy' = {}
                        ELSE copy' = copied /\ UNCHANGED current

IsNewSecond == pulse % PPS = 0
IsNewMinute == IsNewSecond /\ (pulse \div PPS) % MINUTE = 0

\* Mutant of NextRoot: a new minute does not begin with second 0.
NextRootGoesOn ==
    IF IsNewMinute THEN <<minute + 1, second + 1>>
    ELSE IF IsNewSecond THEN <<minute, second + 1>>
    ELSE current_root

\* The minute and second of the next pulse.
NextRoot ==
    IF IsNewMinute THEN <<minute + 1, 0>>
    ELSE IF IsNewSecond THEN <<minute, second + 1>>
    ELSE current_root

\* What runPulse() makes with mkdir().
ToMake == (IF IsNewMinute THEN {<<minute + 1>>} ELSE {})
            \cup (IF IsNewSecond THEN {NextRoot} ELSE {})

\* runPulse() up to processTblock().
StartPulse ==
    /\ IF IsNewSecond THEN copyLatest ELSE UNCHANGED <<current, copy>>
    /\ current_root' = NextRoot
    /\ IF IsNewSecond
       THEN minute' = NextRoot[1] /\ second' = NextRoot[2]
       ELSE UNCHANGED <<minute, second>>
    /\ made' = made \cup ToMake
    /\ pulse' = pulse + 1

\* The directory that dump() makes, and what it writes there.
PulseDir == Append(NextRoot, pulse + 1)
PulseFiles(dm) == [ch |-> dm.cooked, tb |-> dumpTimebase(dm)]

\* A pulse whose worker stores it, or dies before it has or half way.
PulseStored(dm) ==
    /\ ToMake \cap made = {}
    /\ StartPulse
    /\ dirs' = dirs @@ (PulseDir :> PulseFiles(dm))

PulseLost ==
    /\ ToMake \cap made = {}
    /\ StartPulse
    /\ dirs' \in {dirs, dirs @@ (PulseDir :> [ch |-> <<>>, tb |-> <<>>])}

\* A directory of an earlier run is in the way: exit().
MkdirFails ==
    /\ ToMake \cap made # {}
    /\ IF IsNewSecond THEN copyLatest ELSE UNCHANGED <<current, copy>>
    /\ UNCHANGED <<pulse, second, minute, current_root, made, dirs>>

-----------------------------------------------------------------------------
IncomingTypes ==
    LET Path == Seq(Nat)
    IN  /\ pulse \in Nat /\ second \in Nat /\ minute \in Nat
        /\ current_root \in Path /\ \A d \in made : d \in Path
        /\ \A d \in DOMAIN dirs : d \in Path /\ Len(d) = 3
        /\ current \cup copy \subseteq {Format} \cup DOMAIN dirs
=============================================================================
