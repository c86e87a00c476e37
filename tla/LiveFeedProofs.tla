--------------------------- MODULE LiveFeedProofs ---------------------------
(***************************************************************************)
(* Theorems about LiveFeed, for every set of event lines, number of lines, *)
(* of events and exit codes: the safety properties the run live_feed       *)
(* checks, from one inductive invariant.                                   *)
(***************************************************************************)
EXTENDS LiveFeed, SequenceTheorems, FiniteSetTheorems, TLAPS

\* The histories.
HistoryTypes ==
    /\ published \subseteq Nat \X Nat /\ IsFiniteSet(published)
    /\ accepted \in Seq(Nat) /\ acks \in Seq(Nat)
    /\ worked \in Seq(Int) /\ previous \in Int

\* How the two processes go together: there is a worker only while the parent
\* waits for it, its exit status counts the events it has dumped unless it
\* gave up, and then it is larger.
WorkerInv ==
    /\ worker # "none" <=> pc = "wait"
    /\ pc \notin {"wait", "exited"} => wevents = 0 /\ wdone = 0 /\ wcode = 0
    /\ pc \notin {"post", "exited"} => rc = 0
    /\ worker = "process" => wdone = 0
    /\ worker = "exited" => wcode = wdone \/ ("failed" \in mishaps /\ wcode > wdone)
    /\ worker = "killed" => "killed" \in mishaps

\* The last event number that a worker can have used.
LastNumber == evnum + (IF pc = "wait" THEN wdone ELSE 0) + (IF pc = "post" THEN rc ELSE 0)

\* The numbers of the published directories never pass it.
NumbersInv ==
    /\ mishaps \cap {"killed", "nofork"} = {} =>
        /\ \A p, q \in published : p[1] = q[1] => p = q
        /\ pc # "exited" => \A p \in published : p[1] <= LastNumber
    /\ mishaps \subseteq {"rejected"} /\ pc # "exited" =>
        Cardinality(published) = LastNumber

\* A device has been answered on every line accepted but the one in progress.
AnswerInv ==
    ~ from_file =>
        \/ acks = accepted /\ pc \notin {"pre", "wait", "post"}
        \/ accepted = Append(acks, line) /\ pc \in {"pre", "wait", "post", "exited"}

\* No two neighbours of s are equal.
NoTwiceRunning(s) == \A i \in 1 .. Len(s) - 1 : s[i] # s[i + 1]

\* previous is the block worked on last.
PreviousIsLast(s, prev) == s # <<>> => s[Len(s)] = prev

BlocksInv ==
    ~ rc_previous => NoTwiceRunning(worked) /\ PreviousIsLast(worked, previous)

\* The inductive invariant.
IInv ==
    /\ TypeInv
    /\ HistoryTypes
    /\ WorkerInv
    /\ ValidatorIsCurrent
    /\ NumbersInv
    /\ AnswerInv
    /\ BlocksInv

-----------------------------------------------------------------------------
\* tblockAlreadyKnown() of one block: the block is known, or it is kept and
\* becomes previous.
LEMMA SelectBlockResult ==
    ASSUME NEW acc \in [previous : Int, keep : Seq(Int)], NEW b \in Int
    PROVE  /\ SelectBlock(acc, b) \in [previous : Int, keep : Seq(Int)]
           /\ \/ SelectBlock(acc, b) = acc
              \/ /\ SelectBlock(acc, b).keep = Append(acc.keep, b)
                 /\ SelectBlock(acc, b).previous = b
                 /\ b # acc.previous \/ rc_previous
<1>1. acc.keep \in Seq(Int) /\ Append(acc.keep, b) \in Seq(Int)
  BY AppendProperties
<1>2. CASE b = NoBlock \/ (b = acc.previous /\ ~ rc_previous)
  BY <1>2 DEF SelectBlock
<1>3. CASE ~ (b = NoBlock \/ (b = acc.previous /\ ~ rc_previous))
  <2>1. SelectBlock(acc, b) = [previous |-> b, keep |-> Append(acc.keep, b)]
    BY <1>3, Zenon DEF SelectBlock
  <2> QED
    BY <1>1, <1>3, <2>1
<1> QED
  BY <1>2, <1>3

\* What is worked on when acc is what has been kept so far.
WorkedWith(acc) == worked \o acc.keep

\* What the loop over the blocks of a line keeps true of it.
SelectionInv(acc) ==
    /\ acc \in [previous : Int, keep : Seq(Int)]
    /\ acc.keep = <<>> => acc.previous = previous
    /\ ~ rc_previous => NoTwiceRunning(WorkedWith(acc))
                        /\ PreviousIsLast(WorkedWith(acc), acc.previous)

\* A block that differs from the last one may follow it.
LEMMA AppendBlock ==
    ASSUME NEW s \in Seq(Int), NEW b \in Int, NEW prev \in Int,
           NoTwiceRunning(s), PreviousIsLast(s, prev), b # prev
    PROVE  NoTwiceRunning(Append(s, b)) /\ PreviousIsLast(Append(s, b), b)
<1>1. /\ Append(s, b) \in Seq(Int) /\ Len(s) \in Nat
      /\ Len(Append(s, b)) = Len(s) + 1
      /\ \A i \in 1 .. Len(s) : Append(s, b)[i] = s[i]
      /\ Append(s, b)[Len(s) + 1] = b
  BY AppendProperties, LenProperties
<1>2. PreviousIsLast(Append(s, b), b)
  BY <1>1 DEF PreviousIsLast
<1>3. ASSUME NEW i \in 1 .. Len(Append(s, b)) - 1
      PROVE  Append(s, b)[i] # Append(s, b)[i + 1]
  <2>1. CASE i < Len(s)
    <3>1. i \in 1 .. Len(s) /\ i + 1 \in 1 .. Len(s) /\ i \in 1 .. Len(s) - 1
      BY <1>1, <2>1
    <3> QED
      BY <1>1, <3>1 DEF NoTwiceRunning
  <2>2. CASE i = Len(s)
    <3>1. i \in 1 .. Len(s) /\ s # <<>>
      BY <1>1, <2>2, EmptySeq
    <3> QED
      BY <1>1, <2>2, <3>1 DEF PreviousIsLast
  <2> QED
    BY <1>1, <2>1, <2>2
<1> QED
  BY <1>2, <1>3 DEF NoTwiceRunning

LEMMA SelectBlockKeeps ==
    ASSUME worked \in Seq(Int), NEW acc, SelectionInv(acc), NEW b \in Int
    PROVE  SelectionInv(SelectBlock(acc, b))
<1>1. CASE SelectBlock(acc, b) = acc
  BY <1>1
<1>2. CASE /\ SelectBlock(acc, b).keep = Append(acc.keep, b)
           /\ SelectBlock(acc, b).previous = b
           /\ b # acc.previous \/ rc_previous
  <2> DEFINE new == SelectBlock(acc, b)
             w == WorkedWith(acc)
  <2>1. new \in [previous : Int, keep : Seq(Int)]
    BY SelectBlockResult DEF SelectionInv
  <2>2. acc.keep \in Seq(Int) /\ acc.previous \in Int
    BY DEF SelectionInv
  <2>3. w \in Seq(Int)
    BY <2>2, ConcatProperties DEF WorkedWith
  <2>4. /\ \A q \in Seq(Int) : Append(q, b) = q \o <<b>> /\ Append(q, b) # <<>>
        /\ <<b>> \in Seq(Int)
    <3>1. <<b>> \in Seq(Int)
      OBVIOUS
    <3>2. ASSUME NEW q \in Seq(Int)
          PROVE  Append(q, b) = q \o <<b>> /\ Append(q, b) # <<>>
      BY AppendIsConcat, AppendProperties
    <3> QED
      BY <3>1, <3>2
  <2>5. w \o <<b>> = worked \o (acc.keep \o <<b>>)
    <3>1. ASSUME NEW s \in Seq(Int), NEW t \in Seq(Int), NEW u \in Seq(Int)
          PROVE  (s \o t) \o u = s \o (t \o u)
      BY ConcatAssociative
    <3>2. (worked \o acc.keep) \o <<b>> = worked \o (acc.keep \o <<b>>)
      BY <2>2, <2>4, <3>1, Zenon
    <3> QED
      BY <3>2, Zenon DEF WorkedWith
  <2>6. WorkedWith(new) = Append(w, b)
    BY <1>2, <2>2, <2>3, <2>4, <2>5, Zenon DEF WorkedWith
  <2>7. ~ rc_previous => NoTwiceRunning(Append(w, b)) /\ PreviousIsLast(Append(w, b), b)
    BY <1>2, <2>2, <2>3, AppendBlock DEF SelectionInv
  <2>8. new.keep # <<>> /\ new.previous = b
    BY <1>2, <2>2, <2>4
  <2> QED
    BY <2>1, <2>6, <2>7, <2>8, Zenon DEF SelectionInv
<1> QED
  BY <1>1, <1>2, SelectBlockResult DEF SelectionInv

LEMMA SelectedKeeps ==
    ASSUME HistoryTypes, BlocksInv, NEW blocks \in Triples
    PROVE  SelectionInv(Selected(blocks))
<1> DEFINE base == [previous |-> previous, keep |-> <<>>]
           first == SelectBlock(base, blocks[1])
           second == SelectBlock(first, blocks[2])
<1>1. blocks[1] \in Int /\ blocks[2] \in Int /\ blocks[3] \in Int
  BY LinesAssumption
<1>2. worked \in Seq(Int)
  BY DEF HistoryTypes
<1>3. SelectionInv(base)
  <2>1. WorkedWith(base) = worked
    BY <1>2, ConcatEmptySeq DEF WorkedWith
  <2>2. base \in [previous : Int, keep : Seq(Int)] /\ base.previous = previous
    BY DEF HistoryTypes
  <2> QED
    BY <2>1, <2>2, Zenon DEF SelectionInv, BlocksInv
<1> HIDE DEF base
<1>4. SelectionInv(first)
  BY <1>1, <1>2, <1>3, SelectBlockKeeps
<1> HIDE DEF first
<1>5. SelectionInv(second)
  BY <1>1, <1>2, <1>4, SelectBlockKeeps
<1> HIDE DEF second
<1>6. SelectionInv(SelectBlock(second, blocks[3]))
  BY <1>1, <1>2, <1>5, SelectBlockKeeps
<1>7. Selected(blocks) = SelectBlock(second, blocks[3])
  BY DEF Selected, second, first, base
<1> QED
  BY <1>6, <1>7

-----------------------------------------------------------------------------
\* Every step keeps the types.
LEMMA TypeStep == TypeInv /\ WorkerInv /\ [Next]_vars => TypeInv'
<1> SUFFICES ASSUME TypeInv, WorkerInv, [Next]_vars PROVE TypeInv'
  OBVIOUS
<1> USE BoundsAssumption
    DEF TypeInv, WorkerInv, line, feed, config, validator, work, log
<1>1. CASE Arrive
  BY <1>1 DEF Arrive, Feed!Arrive
<1>2. CASE Stop
  BY <1>2 DEF Stop
<1>3. CASE GetLine
  BY <1>3 DEF GetLine, Feed!Give, Feed!Take
<1>4. CASE EndOfFile
  BY <1>4 DEF EndOfFile
<1>5. CASE Comment
  BY <1>5 DEF Comment
<1>6. CASE DoubleDelete
  BY <1>6 DEF DoubleDelete
<1>7. CASE Accept
  <2>1. /\ vd' = given /\ freed' = FALSE /\ pc' = "pre"
        /\ UNCHANGED <<feed, text, config, idle, evnum, rc, mishaps>>
        /\ UNCHANGED <<worker, wevents, wdone, wcode>>
    BY <1>7 DEF Accept
  <2>2. vd' \in 0 .. MaxLines
    BY <2>1
  <2> QED
    BY <2>1, <2>2, Zenon
<1>8. CASE Reject
  BY <1>8 DEF Reject
<1>9. CASE Fork
  BY <1>9 DEF Fork
<1>10. CASE Reap
  BY <1>10 DEF Reap
<1>11. CASE Finish
  BY <1>11 DEF Finish
<1>12. CASE Check
  BY <1>12 DEF Check
<1>13. CASE Quit
  BY <1>13 DEF Quit
<1>14. CASE ForkFails
  BY <1>14, CodesAssumption DEF ForkFails
<1>15. CASE CalloutFails
  BY <1>15 DEF CalloutFails
<1>16. CASE ProcessRawFiles
  BY <1>16 DEF ProcessRawFiles
<1>17. CASE DumpEvent
  BY <1>17 DEF DumpEvent
<1>18. CASE WorkerExits
  BY <1>18 DEF WorkerExits
<1>19. CASE WorkerFails
  <2>1. \A c \in FailCodes : c \in 0 .. 255 /\ c > MaxEvents
    BY CodesAssumption, BoundsAssumption
  <2>2. CASE use_fork
    BY <1>19, <2>1, <2>2 DEF WorkerFails
  <2>3. CASE ~ use_fork
    BY <1>19, <2>3 DEF WorkerFails
  <2> QED
    BY <2>2, <2>3
<1>20. CASE WorkerKilled
  BY <1>20 DEF WorkerKilled
<1>21. CASE UNCHANGED vars
  BY <1>21 DEF vars
<1> QED
  BY <1>1, <1>2, <1>3, <1>4, <1>5, <1>6, <1>7, <1>8, <1>9, <1>10, <1>11,
     <1>12, <1>13, <1>14, <1>15, <1>16, <1>17, <1>18, <1>19, <1>20, <1>21
  DEF Next, Parent, Worker

\* The parent and its worker.
LEMMA WorkerStep ==
    TypeInv /\ WorkerInv /\ ValidatorIsCurrent /\ [Next]_vars => WorkerInv' /\ ValidatorIsCurrent'
<1> SUFFICES ASSUME TypeInv, WorkerInv, ValidatorIsCurrent, [Next]_vars
             PROVE  WorkerInv' /\ ValidatorIsCurrent'
  OBVIOUS
<1> USE BoundsAssumption
    DEF TypeInv, WorkerInv, ValidatorIsCurrent, line, feed, config, validator, work, log
<1>1. CASE Arrive
  BY <1>1 DEF Arrive, Feed!Arrive
<1>2. CASE Stop
  BY <1>2 DEF Stop
<1>3. CASE GetLine
  BY <1>3 DEF GetLine, Feed!Give, Feed!Take
<1>4. CASE EndOfFile
  BY <1>4 DEF EndOfFile
<1>5. CASE Comment
  BY <1>5 DEF Comment
<1>6. CASE DoubleDelete
  BY <1>6 DEF DoubleDelete
<1>7. CASE Accept
  BY <1>7 DEF Accept
<1>8. CASE Reject
  BY <1>8 DEF Reject
<1>9. CASE Fork
  BY <1>9 DEF Fork
<1>10. CASE Reap
  BY <1>10 DEF Reap
<1>11. CASE Finish
  BY <1>11 DEF Finish
<1>12. CASE Check
  BY <1>12 DEF Check
<1>13. CASE Quit
  BY <1>13 DEF Quit
<1>14. CASE ForkFails
  BY <1>14 DEF ForkFails
<1>15. CASE CalloutFails
  BY <1>15 DEF CalloutFails
<1>16. CASE ProcessRawFiles
  BY <1>16 DEF ProcessRawFiles
<1>17. CASE DumpEvent
  BY <1>17 DEF DumpEvent
<1>18. CASE WorkerExits
  BY <1>18 DEF WorkerExits
<1>19. CASE WorkerFails
  <2>1. \A c \in FailCodes : c \in 0 .. 255 /\ c > MaxEvents
    BY CodesAssumption, BoundsAssumption
  <2>2. CASE use_fork
    BY <1>19, <2>1, <2>2 DEF WorkerFails
  <2>3. CASE ~ use_fork
    BY <1>19, <2>3 DEF WorkerFails
  <2> QED
    BY <2>2, <2>3
<1>20. CASE WorkerKilled
  BY <1>20 DEF WorkerKilled
<1>21. CASE UNCHANGED vars
  BY <1>21 DEF vars
<1> QED
  BY <1>1, <1>2, <1>3, <1>4, <1>5, <1>6, <1>7, <1>8, <1>9, <1>10, <1>11,
     <1>12, <1>13, <1>14, <1>15, <1>16, <1>17, <1>18, <1>19, <1>20, <1>21
  DEF Next, Parent, Worker

-----------------------------------------------------------------------------
\* Every step keeps the types of the histories, and the blocks worked on.
LEMMA HistoryStep ==
    TypeInv /\ HistoryTypes /\ BlocksInv /\ [Next]_vars => HistoryTypes' /\ BlocksInv'
<1> SUFFICES ASSUME TypeInv, HistoryTypes, BlocksInv, [Next]_vars
             PROVE  HistoryTypes' /\ BlocksInv'
  OBVIOUS
<1>a. line \in Nat /\ evnum \in Nat /\ wdone \in Nat /\ vd \in Nat
  BY BoundsAssumption DEF TypeInv, line
<1>b. Append(acks, line) \in Seq(Nat) /\ Append(accepted, line) \in Seq(Nat)
  BY <1>a, AppendProperties DEF HistoryTypes
<1>c. ASSUME UNCHANGED <<published, accepted, acks, worked, previous, rc_previous>>
      PROVE  HistoryTypes' /\ BlocksInv'
  BY <1>c DEF HistoryTypes, BlocksInv
<1>d. ASSUME NEW blocks \in Triples
      PROVE  /\ Selected(blocks).previous \in Int /\ Selected(blocks).keep \in Seq(Int)
             /\ worked \o Selected(blocks).keep \in Seq(Int)
             /\ Selected(blocks).keep = <<>> => Selected(blocks).previous = previous
             /\ ~ rc_previous =>
                    /\ NoTwiceRunning(worked \o Selected(blocks).keep)
                    /\ PreviousIsLast(worked \o Selected(blocks).keep, Selected(blocks).previous)
  <2>1. SelectionInv(Selected(blocks))
    BY SelectedKeeps
  <2>2. Selected(blocks).keep \in Seq(Int)
    BY <2>1 DEF SelectionInv
  <2>3. worked \o Selected(blocks).keep \in Seq(Int)
    BY <2>2, ConcatProperties DEF HistoryTypes
  <2> QED
    BY <2>1, <2>2, <2>3 DEF SelectionInv, WorkedWith
<1> USE DEF feed, config, validator, work, log
<1>1. CASE Arrive
  BY <1>1, <1>c DEF Arrive, Feed!Arrive
<1>2. CASE Stop
  BY <1>2, <1>c DEF Stop
<1>3. CASE GetLine
  BY <1>3, <1>c DEF GetLine, Feed!Give, Feed!Take
<1>4. CASE EndOfFile
  BY <1>4, <1>c DEF EndOfFile
<1>5. CASE Comment
  BY <1>5, <1>c DEF Comment
<1>6. CASE DoubleDelete
  BY <1>6, <1>c DEF DoubleDelete
<1>7. CASE Accept
  <2>1. /\ previous' = Selected(text).previous
        /\ worked' = worked \o Selected(text).keep
        /\ accepted' = Append(accepted, line)
        /\ UNCHANGED <<published, acks, rc_previous>>
    BY <1>7 DEF Accept
  <2>2. text \in Triples
    BY <1>7 DEF Accept
  <2>3. HistoryTypes'
    BY <1>b, <1>d, <2>1, <2>2 DEF HistoryTypes
  <2>4. BlocksInv'
    BY <1>d, <2>1, <2>2, Zenon DEF BlocksInv
  <2> QED
    BY <2>3, <2>4
<1>8. CASE Reject
  <2>1. UNCHANGED <<published, accepted, acks, worked, rc_previous>>
    BY <1>8 DEF Reject
  <2>2. CASE text = BadLine
    BY <1>8, <1>c, <2>1, <2>2 DEF Reject
  <2>3. CASE text # BadLine
    <3>1. text \in Triples
      BY <1>8, <2>3 DEF Reject, TypeInv, Lines
    <3>2. previous' = previous
      BY <1>8, <1>d, <2>3, <3>1 DEF Reject
    <3> QED
      BY <1>c, <2>1, <3>2
  <2> QED
    BY <2>2, <2>3
<1>9. CASE Fork
  BY <1>9, <1>c DEF Fork
<1>10. CASE Reap
  BY <1>10, <1>c DEF Reap
<1>11. CASE Finish
  <2>1. acks' \in Seq(Nat)
    BY <1>11, <1>b DEF Finish, writeBack, HistoryTypes
  <2>2. UNCHANGED <<published, accepted, worked, previous, rc_previous>>
    BY <1>11 DEF Finish
  <2> QED
    BY <2>1, <2>2 DEF HistoryTypes, BlocksInv
<1>12. CASE Check
  BY <1>12, <1>c DEF Check
<1>13. CASE Quit
  BY <1>13, <1>c DEF Quit
<1>14. CASE ForkFails
  BY <1>14, <1>c DEF ForkFails
<1>15. CASE CalloutFails
  BY <1>15, <1>c DEF CalloutFails
<1>16. CASE ProcessRawFiles
  BY <1>16, <1>c DEF ProcessRawFiles
<1>17. CASE DumpEvent
  <2>1. published' = published \cup {<<evnum + wdone + 1, vd>>}
        /\ UNCHANGED <<accepted, acks, worked, previous, rc_previous>>
    BY <1>17 DEF DumpEvent
  <2>2. <<evnum + wdone + 1, vd>> \in Nat \X Nat
    BY <1>a
  <2>3. IsFiniteSet(published')
    BY <2>1, FS_AddElement DEF HistoryTypes
  <2> QED
    BY <2>1, <2>2, <2>3 DEF HistoryTypes, BlocksInv
<1>18. CASE WorkerExits
  BY <1>18, <1>c DEF WorkerExits
<1>19. CASE WorkerFails
  BY <1>19, <1>c DEF WorkerFails
<1>20. CASE WorkerKilled
  BY <1>20, <1>c DEF WorkerKilled
<1>21. CASE UNCHANGED vars
  BY <1>21, <1>c DEF vars
<1> QED
  BY <1>1, <1>2, <1>3, <1>4, <1>5, <1>6, <1>7, <1>8, <1>9, <1>10, <1>11,
     <1>12, <1>13, <1>14, <1>15, <1>16, <1>17, <1>18, <1>19, <1>20, <1>21
  DEF Next, Parent, Worker

\* No number is used twice: the next one is past all that were used.
LEMMA NumbersStep ==
    TypeInv /\ HistoryTypes /\ WorkerInv /\ NumbersInv /\ [Next]_vars => NumbersInv'
<1> SUFFICES ASSUME TypeInv, HistoryTypes, WorkerInv, NumbersInv, [Next]_vars
             PROVE  NumbersInv'
  OBVIOUS
<1>a. /\ evnum \in Nat /\ wdone \in Nat /\ rc \in Nat /\ wcode \in Nat
      /\ published \subseteq Nat \X Nat /\ LastNumber \in Nat
  BY BoundsAssumption DEF TypeInv, HistoryTypes, LastNumber
<1>b. ASSUME UNCHANGED published, mishaps \subseteq mishaps',
             \/ pc' = "exited"
             \/ pc # "exited" /\ LastNumber' = LastNumber
      PROVE  NumbersInv'
  BY <1>b DEF NumbersInv
<1> USE <1>a DEF WorkerInv, LastNumber, feed, config, validator, work, log
<1>1. CASE Arrive
  BY <1>1, <1>b DEF Arrive, Feed!Arrive
<1>2. CASE Stop
  BY <1>2, <1>b DEF Stop
<1>3. CASE GetLine
  BY <1>3, <1>b DEF GetLine, Feed!Give, Feed!Take
<1>4. CASE EndOfFile
  BY <1>4, <1>b DEF EndOfFile
<1>5. CASE Comment
  BY <1>5, <1>b DEF Comment
<1>6. CASE DoubleDelete
  BY <1>6, <1>b DEF DoubleDelete
<1>7. CASE Accept
  BY <1>7, <1>b DEF Accept
<1>8. CASE Reject
  BY <1>8, <1>b DEF Reject
<1>9. CASE Fork
  BY <1>9, <1>b DEF Fork
<1>10. CASE Reap
  <2>1. CASE worker = "killed"
    <3>1. "killed" \in mishaps' /\ "killed" \in mishaps
      BY <1>10, <2>1 DEF Reap
    <3> QED
      BY <3>1 DEF NumbersInv
  <2>2. CASE worker = "exited" /\ wcode = wdone
    BY <1>10, <1>b, <2>2 DEF Reap
  <2>3. CASE worker = "exited" /\ "failed" \in mishaps /\ wcode > wdone
    <3>1. LastNumber' >= LastNumber /\ pc # "exited" /\ UNCHANGED <<published, mishaps>>
      BY <1>10, <2>3 DEF Reap
    <3>2. LastNumber \in Nat /\ LastNumber' \in Nat
      BY <1>10, <2>3 DEF Reap
    <3>3. \A p \in published : p[1] \in Nat
      BY <1>a
    <3> HIDE DEF LastNumber
    <3> QED
      BY <2>3, <3>1, <3>2, <3>3 DEF NumbersInv
  <2> QED
    BY <1>10, <2>1, <2>2, <2>3 DEF Reap
<1>11. CASE Finish
  BY <1>11, <1>b DEF Finish
<1>12. CASE Check
  BY <1>12, <1>b DEF Check
<1>13. CASE Quit
  BY <1>13, <1>b DEF Quit
<1>14. CASE ForkFails
  <2>1. "nofork" \in mishaps'
    BY <1>14 DEF ForkFails
  <2> QED
    BY <2>1 DEF NumbersInv
<1>15. CASE CalloutFails
  <2>1. pc' = "exited" /\ UNCHANGED <<published, mishaps>>
    BY <1>15 DEF CalloutFails
  <2> QED
    BY <1>b, <2>1
<1>16. CASE ProcessRawFiles
  BY <1>16, <1>b DEF ProcessRawFiles
<1>17. CASE DumpEvent
  <2>1. pc = "wait" /\ pc' = pc /\ UNCHANGED <<evnum, mishaps>> /\ wdone' = wdone + 1
    BY <1>17 DEF DumpEvent
  <2>2. /\ LastNumber = evnum + wdone /\ LastNumber' = LastNumber + 1
        /\ published' = published \cup {<<LastNumber + 1, vd>>}
    BY <1>17, <2>1 DEF DumpEvent
  <2> DEFINE new == <<LastNumber + 1, vd>>
  <2>3. new[1] = LastNumber + 1
    OBVIOUS
  <2>4. LastNumber \in Nat
    BY <1>a
  <2> HIDE DEF LastNumber, new
  <2>5. ASSUME mishaps \cap {"killed", "nofork"} = {}
        PROVE  /\ \A p, q \in published' : p[1] = q[1] => p = q
               /\ \A p \in published' : p[1] <= LastNumber'
    <3>1. \A p \in published : p[1] \in Nat /\ p[1] <= LastNumber
      BY <1>a, <2>1, <2>5 DEF NumbersInv
    <3>2. \A p, q \in published : p[1] = q[1] => p = q
      BY <2>5 DEF NumbersInv
    <3>3. published' = published \cup {new}
      BY <2>2 DEF new
    <3> QED
      BY <2>2, <2>3, <2>4, <3>1, <3>2, <3>3
  <2>6. ASSUME mishaps \subseteq {"rejected"}
        PROVE  Cardinality(published') = LastNumber'
    <3>1. mishaps \cap {"killed", "nofork"} = {}
      BY <2>6
    <3>2. new \notin published
      BY <2>1, <2>3, <2>4, <3>1 DEF NumbersInv
    <3>3. Cardinality(published) = LastNumber
      BY <2>1, <2>6 DEF NumbersInv
    <3>4. published' = published \cup {new} /\ IsFiniteSet(published)
      BY <2>2 DEF new, HistoryTypes
    <3> QED
      BY <2>2, <2>4, <3>2, <3>3, <3>4, FS_AddElement
  <2> QED
    BY <2>1, <2>5, <2>6 DEF NumbersInv
<1>18. CASE WorkerExits
  BY <1>18, <1>b DEF WorkerExits
<1>19. CASE WorkerFails
  BY <1>19, <1>b DEF WorkerFails
<1>20. CASE WorkerKilled
  <2>1. "killed" \in mishaps'
    BY <1>20 DEF WorkerKilled
  <2> QED
    BY <2>1 DEF NumbersInv
<1>21. CASE UNCHANGED vars
  <2>1. UNCHANGED <<published, mishaps, pc>> /\ LastNumber' = LastNumber
    BY <1>21 DEF vars
  <2> QED
    BY <2>1 DEF NumbersInv
<1> QED
  BY <1>1, <1>2, <1>3, <1>4, <1>5, <1>6, <1>7, <1>8, <1>9, <1>10, <1>11,
     <1>12, <1>13, <1>14, <1>15, <1>16, <1>17, <1>18, <1>19, <1>20, <1>21
  DEF Next, Parent, Worker

\* The answers.
LEMMA AnswerStep == AnswerInv /\ [Next]_vars => AnswerInv'
<1> SUFFICES ASSUME AnswerInv, [Next]_vars PROVE AnswerInv'
  OBVIOUS
<1> USE DEF AnswerInv, line, writeBack, feed, config, validator, work, log
<1>1. CASE Arrive
  BY <1>1 DEF Arrive, Feed!Arrive
<1>2. CASE Stop
  BY <1>2 DEF Stop
<1>3. CASE GetLine
  BY <1>3 DEF GetLine, Feed!Give, Feed!Take
<1>4. CASE EndOfFile
  BY <1>4 DEF EndOfFile
<1>5. CASE Comment
  BY <1>5 DEF Comment
<1>6. CASE DoubleDelete
  BY <1>6 DEF DoubleDelete
<1>7. CASE Accept
  BY <1>7 DEF Accept
<1>8. CASE Reject
  BY <1>8 DEF Reject
<1>9. CASE Fork
  BY <1>9 DEF Fork
<1>10. CASE Reap
  BY <1>10 DEF Reap
<1>11. CASE Finish
  BY <1>11 DEF Finish
<1>12. CASE Check
  BY <1>12 DEF Check
<1>13. CASE Quit
  BY <1>13 DEF Quit
<1>14. CASE ForkFails
  BY <1>14 DEF ForkFails
<1>15. CASE CalloutFails
  BY <1>15 DEF CalloutFails
<1>16. CASE ProcessRawFiles
  BY <1>16 DEF ProcessRawFiles
<1>17. CASE DumpEvent
  BY <1>17 DEF DumpEvent
<1>18. CASE WorkerExits
  BY <1>18 DEF WorkerExits
<1>19. CASE WorkerFails
  BY <1>19 DEF WorkerFails
<1>20. CASE WorkerKilled
  BY <1>20 DEF WorkerKilled
<1>21. CASE UNCHANGED vars
  BY <1>21 DEF vars
<1> QED
  BY <1>1, <1>2, <1>3, <1>4, <1>5, <1>6, <1>7, <1>8, <1>9, <1>10, <1>11,
     <1>12, <1>13, <1>14, <1>15, <1>16, <1>17, <1>18, <1>19, <1>20, <1>21
  DEF Next, Parent, Worker

\* A sequence is a prefix of itself and of what is appended to it.
LEMMA PrefixOfAppend ==
    ASSUME NEW s \in Seq(Nat), NEW n \in Nat
    PROVE  IsPrefix(s, s) /\ IsPrefix(s, Append(s, n))
<1>1. IsPrefix(s, s)
  BY LenProperties DEF IsPrefix
<1>2. /\ <<n>> \in Seq(Nat) /\ Append(s, n) = s \o <<n>> /\ Len(s) \in Nat
      /\ Append(s, n) \in Seq(Nat) /\ Len(Append(s, n)) = Len(s) + 1
  BY AppendIsConcat, AppendProperties, LenProperties
<1>3. SubSeq(Append(s, n), 1, Len(s)) = SubSeq(s, 1, Len(s))
  <2>1. CASE s = <<>>
    BY <1>2, <2>1, SubSeqEmpty
  <2>2. CASE s # <<>>
    <3>1. 1 \in 1 .. Len(s) /\ Len(s) \in 1 .. Len(s)
      BY <1>2, <2>2, EmptySeq
    <3>2. SubSeq(s \o <<n>>, 1, Len(s)) = SubSeq(s, 1, Len(s))
      BY <1>2, <3>1, SubSeqOfConcat1
    <3> QED
      BY <1>2, <3>2
  <2> QED
    BY <2>1, <2>2
<1> QED
  BY <1>1, <1>2, <1>3 DEF IsPrefix

-----------------------------------------------------------------------------
\* The invariants together: they hold at the start ...
LEMMA InitIInv == Init => IInv
<1> SUFFICES ASSUME Init PROVE IInv
  OBVIOUS
<1>1. TypeInv
  <2>1. arrived = 0 /\ taken = 0 /\ given = 0 /\ lost = 0 /\ lossy = FALSE
    BY DEF Init, Feed!Init
  <2>2. MaxLines \in Nat /\ MaxEvents \in Nat
    BY BoundsAssumption
  <2>3. text \in Lines /\ pc = "next" /\ worker = "none" /\ mishaps = {}
    BY DEF Init, Lines
  <2>4. vd = 0 /\ evnum = 0 /\ rc = 0 /\ wevents = 0 /\ wdone = 0 /\ wcode = 0
    BY DEF Init
  <2>5. /\ use_fork \in BOOLEAN /\ rc_previous \in BOOLEAN /\ quit_on_stop \in BOOLEAN
        /\ from_file \in BOOLEAN /\ idle \in BOOLEAN /\ freed \in BOOLEAN
    BY DEF Init
  <2> QED
    BY <2>1, <2>2, <2>3, <2>4, <2>5 DEF TypeInv
<1>2. WorkerInv /\ ValidatorIsCurrent /\ AnswerInv
  BY DEF Init, WorkerInv, ValidatorIsCurrent, AnswerInv
<1>3. <<>> \in Seq(Nat) /\ <<>> \in Seq(Int) /\ IsFiniteSet({}) /\ Cardinality({}) = 0
  BY FS_EmptySet
<1>4. HistoryTypes /\ NumbersInv
  BY <1>3 DEF Init, HistoryTypes, NumbersInv, LastNumber, NoBlock
<1>5. BlocksInv
  <2>1. Len(worked) = 0 /\ worked = <<>>
    BY DEF Init
  <2> QED
    BY <2>1 DEF BlocksInv, NoTwiceRunning, PreviousIsLast
<1> QED
  BY <1>1, <1>2, <1>4, <1>5 DEF IInv

\* ... and every step keeps them.
LEMMA NextIInv == IInv /\ [Next]_vars => IInv'
BY TypeStep, WorkerStep, HistoryStep, NumbersStep, AnswerStep DEF IInv

\* In every behaviour of the pipeline.
THEOREM Invariance == Spec => []IInv
BY InitIInv, NextIInv, PTL DEF Spec

\* The loop, the worker and the validator hold what their types say: no line
\* of the feed is lost, no exit status passes 255, and a worker dumps no more
\* events than it found.
THEOREM TypeCorrect == Spec => []TypeInv
<1>1. IInv => TypeInv
  BY DEF IInv
<1> QED
  BY <1>1, Invariance, PTL

\* validatorData, which isValidInput() deletes and replaces, points to the
\* live record of the line in progress whenever the loop or the worker is in
\* processTblock().
THEOREM ValidatorCurrent == Spec => []ValidatorIsCurrent
<1>1. IInv => ValidatorIsCurrent
  BY DEF IInv
<1> QED
  BY <1>1, Invariance, PTL

\* Event numbers, which parent and worker count apart and agree on through an
\* exit status, name no event directory twice, also after a worker gave up,
\* and count the directories when nothing went wrong.
THEOREM NumbersUnique == Spec => []EventNumbersUnique
<1>1. IInv => EventNumbersUnique
  <2> SUFFICES ASSUME IInv PROVE EventNumbersUnique
    OBVIOUS
  <2>1. NumbersInv /\ evnum \in Nat
    BY DEF IInv, TypeInv
  <2>2. pc \notin {"wait", "post", "exited"} => LastNumber = evnum /\ pc # "exited"
    BY <2>1 DEF LastNumber
  <2> QED
    BY <2>1, <2>2 DEF EventNumbersUnique, NumbersInv
<1> QED
  BY <1>1, Invariance, PTL

\* writeBack() answers every line of a device that was accepted, in order,
\* before the next getNext().
THEOREM Answered == Spec => []AnsweredInOrder
<1>1. IInv => AnsweredInOrder
  <2> SUFFICES ASSUME IInv, ~ from_file
               PROVE  /\ IsPrefix(acks, accepted)
                      /\ pc \in {"next", "validate", "check", "quit", "complete"} =>
                            acks = accepted
    BY DEF AnsweredInOrder
  <2>1. acks \in Seq(Nat) /\ line \in Nat
    BY BoundsAssumption DEF IInv, HistoryTypes, TypeInv, line
  <2>2. \/ acks = accepted /\ pc \notin {"pre", "wait", "post"}
        \/ accepted = Append(acks, line) /\ pc \in {"pre", "wait", "post", "exited"}
    BY Zenon DEF IInv, AnswerInv
  <2>3. IsPrefix(acks, accepted)
    BY <2>1, <2>2, PrefixOfAppend, Zenon
  <2> QED
    BY <2>2, <2>3
<1> QED
  BY <1>1, Invariance, PTL

\* tblockAlreadyKnown() with ACQ_DEMUX_PROCESS_PREVIOUS=0: no block is worked
\* on twice running, within a line or across lines.
THEOREM NoBlockTwice == Spec => []NoBlockTwiceRunning
<1>1. IInv => NoBlockTwiceRunning
  BY DEF IInv, BlocksInv, NoTwiceRunning, NoBlockTwiceRunning
<1> QED
  BY <1>1, Invariance, PTL
=============================================================================
