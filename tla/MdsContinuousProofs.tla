------------------------- MODULE MdsContinuousProofs -------------------------
(***************************************************************************)
(* Theorems about MdsContinuous, for every size of groups, number of       *)
(* channels, of files, of files dropped and of restarts: the safety        *)
(* properties the run mds_continuous checks, from one inductive invariant. *)
(***************************************************************************)
EXTENDS MdsContinuous, SequenceTheorems, TLAPS

\* The worker at work, by how far it is.
Before == {"read", "burn"}
NotCounted == {"read", "burn", "store", "count"}
Past == {"count", "write", "exit0"}

\* The loop and its worker: names are collected from an empty group, a group
\* that is handed to a worker has one name at least, and files_per_segment of
\* them when they close it, and the worker stores the columns from the first
\* to the last.
ControlInv ==
    /\ pc \notin {"collect", "exited"} => ibuf = 0
    /\ pc = "collect" => Len(group) = ibuf
    /\ pc \in {"fork", "wait"} =>
        Len(group) >= 1 /\ (min_samples_segment = -1 => Len(group) = files_per_segment)
    /\ worker # "none" <=> pc = "wait"
    /\ pc # "exited" => errors <= CHILD_ERROR_MAX
    /\ worker \in Before => channel = 1
    /\ worker = "store" => channel \in Column
    /\ worker = "burn" => Members(unburned) \subseteq Members(group)

\* The worker has yet to store column c.
Pending(c) ==
    \/ pc \in {"collect", "fork"}
    \/ worker \in Before
    \/ worker = "store" /\ c >= channel

\* Names come in order: no file that is stored or in the group is past the
\* last one named, and a column still to be stored ends before the group.
Increasing(f) == \A j \in 1 .. Len(f) - 1 : f[j] < f[j + 1]
UpToLast(f) == \A j \in 1 .. Len(f) : f[j] <= last

OrderInv ==
    /\ Increasing(group) /\ UpToLast(group)
    /\ \A c \in Column : \A i \in 1 .. Len(segments[c]) :
        LET f == segments[c][i].files IN
        /\ f # <<>> /\ Increasing(f) /\ UpToLast(f)
        /\ group # <<>> /\ Pending(c) => f[Len(f)] < group[1]

\* Nothing has failed, been dropped or been started again, and groups are full.
Calm ==
    /\ failed = {} /\ ~ skipped /\ restarts = 0 /\ min_samples_segment = -1
    /\ worker \notin {"exit1", "killed"}

\* N1 in the calm: the sample count of the files named but for those of the
\* group that has not been counted.
CountInv ==
    /\ ~ skipped /\ group # <<>> => group[1] = last - Len(group) + 1
    /\ pc \in {"shm", "tree"} /\ restarts = 0 => last = 0
    /\ Calm =>
        /\ pc = "getdef" \/ worker \in {"write", "exit0"} => n1 = last
        /\ pc = "tree" => n1 = 0
        /\ pc \in {"collect", "fork"} \/ worker \in NotCounted => n1 = last - Len(group)

\* N1 when every group began with an .id file.
MarkedInv ==
    ~ unmarked =>
        (group # <<>> /\ (pc \in {"collect", "fork"} \/ worker \in NotCounted) =>
            n1 = group[1] - 1)

\* The worker has stored column c.
Done(c) == worker \in Past \/ (worker = "store" /\ c < channel)

StoredInv ==
    \A c \in Column : Done(c) => Members(group) \subseteq StoredIn(c)

\* The files of a worker at work.
Busy == IF worker # "none" THEN Members(group) ELSE {}

AgreeInv ==
    \A c, d \in Column :
        StoredIn(c) \ (failed \cup Busy) = StoredIn(d) \ (failed \cup Busy)

\* The inductive invariant.
IInv ==
    /\ TypeInv
    /\ ControlInv
    /\ OrderInv
    /\ StoredInOrder
    /\ CountInv
    /\ MarkedInv
    /\ SegmentTimesTrue
    /\ SegmentLengthTrue
    /\ StoredInv
    /\ BurnedFilesAccounted
    /\ AgreeInv

-----------------------------------------------------------------------------
\* What is known of the sequences and the counters.
LEMMA DataTypes ==
    ASSUME TypeInv
    PROVE  /\ group \in Seq(Nat) /\ unburned \in Seq(Nat) /\ Len(group) \in Nat
           /\ group \in Seq(1 .. MaxFiles) /\ unburned \in Seq(1 .. MaxFiles)
           /\ ibuf \in Nat /\ n1 \in Nat /\ last \in Nat /\ channel \in Nat
           /\ NChannels \in Nat /\ files_per_segment \in Nat \ {0} /\ MaxFiles \in Nat
           /\ Column \subseteq Nat
           /\ segments \in [Column -> Seq(Segment)]
           /\ \A c \in Column : segments[c] \in Seq(Segment) /\ Len(segments[c]) \in Nat
           /\ \A c \in Column : \A i \in 1 .. Len(segments[c]) :
                segments[c][i] \in Segment /\ segments[c][i].files \in Seq(1 .. MaxFiles)
                /\ segments[c][i].files \in Seq(Nat)
<1>1. group \in Seq(1 .. MaxFiles) /\ unburned \in Seq(1 .. MaxFiles) /\ Len(group) \in Nat
  BY LenProperties DEF TypeInv
<1>2. \A s \in Seq(1 .. MaxFiles) : s \in Seq(Nat)
  <2>1. 1 .. MaxFiles \subseteq Nat
    BY SizesAssumption
  <2> QED
    BY <2>1, SeqMonotonic
<1>3. ibuf \in Nat /\ n1 \in Nat /\ last \in Nat /\ channel \in Nat
  BY SizesAssumption DEF TypeInv, Timebase
<1>4. Column \subseteq Nat
  BY SizesAssumption DEF Column, Timebase
<1>5. segments \in [Column -> Seq(Segment)]
  BY DEF TypeInv
<1>6. \A c \in Column : segments[c] \in Seq(Segment) /\ Len(segments[c]) \in Nat
  BY <1>5, LenProperties
<1>7. ASSUME NEW c \in Column, NEW i \in 1 .. Len(segments[c])
      PROVE  segments[c][i] \in Segment /\ segments[c][i].files \in Seq(1 .. MaxFiles)
  <2>1. segments[c][i] \in Segment
    BY <1>6, ElementOfSeq
  <2> QED
    BY <2>1 DEF Segment
<1> QED
  BY <1>1, <1>2, <1>3, <1>5, <1>6, <1>7, <1>4, SizesAssumption

\* The segment that StoreColumn appends.
NewSegment == [t1 |-> n1, len |-> SegmentLength, files |-> group]

LEMMA StoreColumnResult ==
    ASSUME TypeInv, StoreColumn
    PROVE  /\ channel \in Column /\ worker = "store" /\ NewSegment \in Segment
           /\ segments' \in [Column -> Seq(Segment)]
           /\ \A c \in Column : c # channel => segments'[c] = segments[c]
           /\ Len(segments'[channel]) = Len(segments[channel]) + 1
           /\ \A i \in 1 .. Len(segments[channel]) :
                segments'[channel][i] = segments[channel][i]
           /\ segments'[channel][Len(segments[channel]) + 1] = NewSegment
<1>1. NewSegment \in Segment
  BY DataTypes DEF NewSegment, Segment, SegmentLength
<1>2. /\ channel \in Column /\ worker = "store"
      /\ segments' = [segments EXCEPT ![channel] = Append(segments[channel], NewSegment)]
  BY DEF StoreColumn, NewSegment
<1>3. segments \in [Column -> Seq(Segment)] /\ segments[channel] \in Seq(Segment)
  BY <1>2, DataTypes
<1> DEFINE new == Append(segments[channel], NewSegment)
<1>4. /\ new \in Seq(Segment) /\ Len(new) = Len(segments[channel]) + 1
      /\ \A i \in 1 .. Len(segments[channel]) : new[i] = segments[channel][i]
      /\ new[Len(segments[channel]) + 1] = NewSegment
  BY <1>1, <1>3, AppendProperties
<1>5. segments' = [segments EXCEPT ![channel] = new]
  BY <1>2
<1> HIDE DEF new
<1>6. segments'[channel] = new /\ segments' \in [Column -> Seq(Segment)]
      /\ \A c \in Column : c # channel => segments'[c] = segments[c]
  BY <1>2, <1>3, <1>4, <1>5
<1> QED
  BY <1>1, <1>2, <1>4, <1>6

\* In the words of the properties: what holds of every stored segment and of
\* the new one holds of every segment afterwards.
LEMMA SegmentsAfter ==
    ASSUME TypeInv, StoreColumn, NEW c \in Column, NEW i \in 1 .. Len(segments'[c])
    PROVE  \/ /\ i \in 1 .. Len(segments[c])
              /\ segments'[c][i] = segments[c][i]
           \/ /\ c = channel /\ i = Len(segments[c]) + 1
              /\ segments'[c][i] = NewSegment
<1>1. CASE c # channel
  BY <1>1, StoreColumnResult
<1>2. CASE c = channel
  <2>1. /\ Len(segments'[channel]) = Len(segments[channel]) + 1
        /\ Len(segments[channel]) \in Nat
        /\ i \in 1 .. Len(segments'[channel])
    BY <1>2, StoreColumnResult, DataTypes
  <2>2. i \in 1 .. Len(segments[channel]) \/ i = Len(segments[channel]) + 1
    BY <2>1
  <2> QED
    BY <1>2, <2>2, StoreColumnResult, Zenon
<1> QED
  BY <1>1, <1>2

LEMMA SegmentsKept ==
    ASSUME TypeInv, StoreColumn, NEW c \in Column, NEW i \in 1 .. Len(segments[c])
    PROVE  i \in 1 .. Len(segments'[c]) /\ segments'[c][i] = segments[c][i]
<1>1. CASE c = channel
  BY <1>1, StoreColumnResult, DataTypes
<1>2. CASE c # channel
  BY <1>2, StoreColumnResult
<1> QED
  BY <1>1, <1>2

\* The group after a name.
LEMMA GroupAfter ==
    ASSUME TypeInv, NEW q \in 1 .. MaxFiles
    PROVE  /\ Append(group, q) \in Seq(1 .. MaxFiles) /\ Append(group, q) # <<>>
           /\ Len(Append(group, q)) = Len(group) + 1
           /\ \A i \in 1 .. Len(group) : Append(group, q)[i] = group[i]
           /\ Append(group, q)[Len(group) + 1] = q
<1> DEFINE S == 1 .. MaxFiles
<1>1. group \in Seq(S) /\ q \in S
  BY DEF TypeInv
<1> SUFFICES /\ Append(group, q) \in Seq(S) /\ Append(group, q) # <<>>
             /\ Len(Append(group, q)) = Len(group) + 1
             /\ \A i \in 1 .. Len(group) : Append(group, q)[i] = group[i]
             /\ Append(group, q)[Len(group) + 1] = q
  OBVIOUS
<1> HIDE DEF S
<1> QED
  BY <1>1, AppendProperties

\* A sequence without its last element.
LEMMA FrontProperties ==
    ASSUME NEW S, NEW s \in Seq(S), s # <<>>
    PROVE  /\ Len(s) \in Nat \ {0} /\ s[Len(s)] \in S
           /\ SubSeq(s, 1, Len(s) - 1) \in Seq(S)
           /\ Len(SubSeq(s, 1, Len(s) - 1)) = Len(s) - 1
           /\ \A i \in 1 .. Len(s) - 1 : SubSeq(s, 1, Len(s) - 1)[i] = s[i]
<1>1. Len(s) \in Nat \ {0}
  BY EmptySeq
<1>2. \A i \in 1 .. Len(s) : s[i] \in S
  BY ElementOfSeq
<1>3. s[Len(s)] \in S
  BY <1>1, <1>2
<1> DEFINE n == Len(s) - 1
<1>4. n \in Int /\ 1 \in Int /\ \A i \in 1 .. n : s[i] \in S
  BY <1>1, <1>2
<1>5. /\ SubSeq(s, 1, n) \in Seq(S)
      /\ Len(SubSeq(s, 1, n)) = IF 1 <= n THEN n - 1 + 1 ELSE 0
      /\ \A i \in 1 .. n - 1 + 1 : SubSeq(s, 1, n)[i] = s[1 + i - 1]
  <2> HIDE DEF n
  <2> QED
    BY <1>4, SubSeqProperties
<1>6. n - 1 + 1 = n /\ \A i \in 1 .. n : 1 + i - 1 = i
  BY <1>1
<1>7. \A i \in 1 .. n : SubSeq(s, 1, n)[i] = s[i]
  <2> HIDE DEF n
  <2> SUFFICES ASSUME NEW i \in 1 .. n PROVE SubSeq(s, 1, n)[i] = s[i]
    OBVIOUS
  <2>1. i \in 1 .. n - 1 + 1
    BY <1>6
  <2>2. SubSeq(s, 1, n)[i] = s[1 + i - 1]
    BY <1>5, <2>1
  <2> QED
    BY <1>6, <2>2
<1>8. n \in Nat
  BY <1>1
<1> HIDE DEF n
<1>9. Len(SubSeq(s, 1, n)) = n
  BY <1>5, <1>8
<1>10. /\ Len(s) \in Nat \ {0} /\ s[Len(s)] \in S
      /\ SubSeq(s, 1, n) \in Seq(S)
      /\ Len(SubSeq(s, 1, n)) = n
      /\ \A i \in 1 .. n : SubSeq(s, 1, n)[i] = s[i]
  BY <1>1, <1>5, <1>7, <1>9, <1>3, Zenon
<1> QED
  BY <1>10 DEF n

-----------------------------------------------------------------------------
\* Every step keeps the types.
LEMMA TypeStep == TypeInv /\ ControlInv /\ [Next]_vars => TypeInv'
<1> SUFFICES ASSUME TypeInv, ControlInv, [Next]_vars PROVE TypeInv'
  OBVIOUS
<1>a. <<>> \in Seq(1 .. MaxFiles) /\ Len(<<>>) = 0
  OBVIOUS
<1> USE SizesAssumption, <1>a DEF TypeInv, ControlInv, Timebase, config, collecting, store, work
<1>1. CASE OpenShm
  BY <1>1 DEF OpenShm
<1>2. CASE CreateTree
  BY <1>2 DEF CreateTree
<1>3. CASE GetDef
  BY <1>3 DEF GetDef
<1>4. CASE Fork
  BY <1>4 DEF Fork
<1>5. CASE Reap
  <2>1. {group[i] : i \in 1 .. Len(group)} \subseteq 1 .. MaxFiles
    BY ElementOfSeq
  <2>2. failed' \subseteq 1 .. MaxFiles
    BY <1>5, <2>1 DEF Reap
  <2>3. errors' \in 0 .. CHILD_ERROR_MAX + 1
    BY <1>5 DEF Reap
  <2>4. pc' \in {"exited", "getdef"}
    BY <1>5 DEF Reap
  <2> QED
    BY <1>5, <2>2, <2>3, <2>4 DEF Reap
<1>6. CASE Restart
  BY <1>6 DEF Restart
<1>7. CASE ReadName
  <2>1. PICK q \in 1 .. MaxFiles, envFile \in EnvFiles : Name(q, envFile)
    BY <1>7 DEF ReadName
  <2>2. group' \in Seq(1 .. MaxFiles) /\ Len(group') = ibuf + 1
    BY <2>1, GroupAfter DEF Name
  <2>3. n1' \in Nat /\ acc_samples' \in Nat
    BY <2>1 DEF Name, getValue
  <2>4. ibuf' \in 0 .. files_per_segment - 1 /\ pc' \in {"collect", "fork"}
    BY <2>1 DEF Name, Enough
  <2>5. ibuf + 1 <= files_per_segment
    BY <2>1 DEF Name
  <2>6. last' \in 0 .. MaxFiles /\ unmarked' \in BOOLEAN /\ skipped' \in BOOLEAN
    BY <2>1 DEF Name
  <2>7. UNCHANGED <<config, segments, work, errors, failed, restarts>>
    BY <2>1 DEF Name
  <2> QED
    BY <2>2, <2>3, <2>4, <2>5, <2>6, <2>7
<1>8. CASE EndOfFeed
  BY <1>8 DEF EndOfFeed
<1>9. CASE ReadFiles
  BY <1>9 DEF ReadFiles, WorkerUnchanged
<1>10. CASE Burn
  <2>1. unburned \in Seq(1 .. MaxFiles) /\ unburned # <<>>
    BY <1>10 DEF Burn
  <2>2. unburned[Len(unburned)] \in 1 .. MaxFiles
        /\ SubSeq(unburned, 1, Len(unburned) - 1) \in Seq(1 .. MaxFiles)
    BY <2>1, FrontProperties
  <2> QED
    BY <1>10, <2>2 DEF Burn, WorkerUnchanged
<1>11. CASE BurnDone
  BY <1>11 DEF BurnDone, WorkerUnchanged
<1>12. CASE StoreColumn
  <2>1. segments' \in [Column -> Seq(Segment)]
    BY <1>12, StoreColumnResult
  <2>2. channel' \in 1 .. Timebase + 1 /\ worker' \in {"store", "count"}
    BY <1>12 DEF StoreColumn, Column
  <2>3. UNCHANGED <<unburned, removed, n1, config, pc, collecting, errors, failed, restarts>>
    BY <1>12 DEF StoreColumn, WorkerUnchanged
  <2> QED
    BY <2>1, <2>2, <2>3
<1>13. CASE IncrementN1
  <2>1. n1' \in Nat
    BY <1>13 DEF IncrementN1, SegmentLength
  <2> QED
    BY <1>13, <2>1 DEF IncrementN1, WorkerUnchanged
<1>14. CASE WriteTree
  BY <1>14 DEF WriteTree, WorkerUnchanged
<1>15. CASE WorkerFails
  BY <1>15 DEF WorkerFails, WorkerUnchanged
<1>16. CASE WorkerKilled
  BY <1>16 DEF WorkerKilled, WorkerUnchanged
<1>17. CASE UNCHANGED vars
  BY <1>17 DEF vars
<1> QED
  BY <1>1, <1>2, <1>3, <1>4, <1>5, <1>6, <1>7, <1>8, <1>9, <1>10, <1>11,
     <1>12, <1>13, <1>14, <1>15, <1>16, <1>17
  DEF Next, Parent, Worker

\* The loop and its worker.
LEMMA ControlStep == TypeInv /\ ControlInv /\ [Next]_vars => ControlInv'
<1> SUFFICES ASSUME TypeInv, ControlInv, [Next]_vars PROVE ControlInv'
  OBVIOUS
<1>a. Len(<<>>) = 0 /\ Len(group) \in Nat /\ ibuf \in Nat /\ channel \in Nat
  BY DataTypes
<1>b. Members(<<>>) = {}
  BY DEF Members
<1> USE SizesAssumption, <1>a, <1>b DEF ControlInv, Before, config, collecting, store, work
<1>1. CASE OpenShm
  BY <1>1 DEF OpenShm
<1>2. CASE CreateTree
  BY <1>2 DEF CreateTree
<1>3. CASE GetDef
  BY <1>3 DEF GetDef
<1>4. CASE Fork
  BY <1>4 DEF Fork, Column, Timebase
<1>5. CASE Reap
  <2>1. errors' \in Nat /\ pc = "wait" /\ worker' = "none"
        /\ pc' = (IF errors' > CHILD_ERROR_MAX THEN "exited" ELSE "getdef")
    BY <1>5 DEF Reap, TypeInv
  <2> QED
    BY <1>5, <2>1 DEF Reap
<1>6. CASE Restart
  BY <1>6 DEF Restart
<1>7. CASE ReadName
  <2>1. PICK q \in 1 .. MaxFiles, envFile \in EnvFiles : Name(q, envFile)
    BY <1>7 DEF ReadName
  <2>2. group' = Append(group, q) /\ pc = "collect"
    BY <2>1 DEF Name
  <2>3. Len(group') = ibuf + 1
    BY <2>2, GroupAfter
  <2>4. /\ (pc' = "fork" /\ ibuf' = 0) \/ (pc' = "collect" /\ ibuf' = ibuf + 1)
        /\ pc' = "fork" => Enough(ibuf + 1, acc_samples')
    BY <2>1 DEF Name
  <2>5. pc' = "fork" /\ min_samples_segment = -1 => ibuf + 1 = files_per_segment
    BY <2>4 DEF Enough
  <2>6. pc = "collect" /\ UNCHANGED <<min_samples_segment, worker, channel, unburned, errors>>
    BY <2>1 DEF Name
  <2>7. worker' = "none" /\ errors' <= CHILD_ERROR_MAX
    BY <2>6
  <2>8. ibuf + 1 >= 1
    BY <1>a
  <2> HIDE DEF Enough
  <2> QED
    BY <2>3, <2>4, <2>5, <2>6, <2>7, <2>8
<1>8. CASE EndOfFeed
  BY <1>8 DEF EndOfFeed
<1>9. CASE ReadFiles
  <2>1. unburned' = group \/ unburned' = <<>>
    BY <1>9 DEF ReadFiles
  <2> QED
    BY <1>9, <2>1 DEF ReadFiles, WorkerUnchanged
<1>10. CASE Burn
  <2>1. Members(unburned') \subseteq Members(unburned)
    <3>1. unburned \in Seq(1 .. MaxFiles) /\ unburned # <<>>
          /\ unburned' = SubSeq(unburned, 1, Len(unburned) - 1)
      BY <1>10, DataTypes DEF Burn
    <3>2. /\ Len(unburned) \in Nat \ {0} /\ Len(unburned') = Len(unburned) - 1
          /\ \A i \in 1 .. Len(unburned) - 1 : unburned'[i] = unburned[i]
      BY <3>1, FrontProperties
    <3> QED
      BY <3>2 DEF Members
  <2> QED
    BY <1>10, <2>1 DEF Burn, WorkerUnchanged
<1>11. CASE BurnDone
  BY <1>11 DEF BurnDone, WorkerUnchanged, Column, Timebase
<1>12. CASE StoreColumn
  <2>1. channel' \in Column \/ worker' = "count"
    BY <1>12 DEF StoreColumn, Column, Timebase
  <2> QED
    BY <1>12, <2>1 DEF StoreColumn, WorkerUnchanged
<1>13. CASE IncrementN1
  BY <1>13 DEF IncrementN1, WorkerUnchanged
<1>14. CASE WriteTree
  BY <1>14 DEF WriteTree, WorkerUnchanged
<1>15. CASE WorkerFails
  BY <1>15 DEF WorkerFails, WorkerUnchanged
<1>16. CASE WorkerKilled
  BY <1>16 DEF WorkerKilled, WorkerUnchanged
<1>17. CASE UNCHANGED vars
  BY <1>17 DEF vars
<1> QED
  BY <1>1, <1>2, <1>3, <1>4, <1>5, <1>6, <1>7, <1>8, <1>9, <1>10, <1>11,
     <1>12, <1>13, <1>14, <1>15, <1>16, <1>17
  DEF Next, Parent, Worker

-----------------------------------------------------------------------------
\* Names and stored files come in the order of the feed.

\* The last element of an increasing sequence of numbers is the largest, and
\* a sequence that is not empty has a first and a last one.
LEMMA EndsOf ==
    ASSUME NEW s \in Seq(Nat), s # <<>>
    PROVE  Len(s) \in Nat \ {0} /\ s[1] \in Nat /\ s[Len(s)] \in Nat
<1>1. Len(s) \in Nat \ {0}
  BY EmptySeq
<1> QED
  BY <1>1, ElementOfSeq

\* A name past last lengthens the group in order.
LEMMA GroupInOrder ==
    ASSUME TypeInv, Increasing(group), UpToLast(group), NEW q \in 1 .. MaxFiles, q > last
    PROVE  /\ Increasing(Append(group, q))
           /\ \A j \in 1 .. Len(Append(group, q)) : Append(group, q)[j] <= q
           /\ Append(group, q)[1] = IF group = <<>> THEN q ELSE group[1]
           /\ Append(group, q) # <<>> /\ Len(Append(group, q)) = Len(group) + 1
<1> DEFINE g == Append(group, q)
<1>1. group \in Seq(Nat) /\ Len(group) \in Nat /\ last \in Nat /\ q \in Nat
  BY DataTypes
<1>2. /\ g # <<>> /\ Len(g) = Len(group) + 1
      /\ \A i \in 1 .. Len(group) : g[i] = group[i]
      /\ g[Len(group) + 1] = q
  BY GroupAfter
<1>3. \A i \in 1 .. Len(group) : group[i] \in Nat /\ group[i] <= last
  BY <1>1, ElementOfSeq DEF UpToLast
<1> HIDE DEF g
<1>4. ASSUME NEW j \in 1 .. Len(g) - 1 PROVE g[j] < g[j + 1]
  <2>1. j \in 1 .. Len(group) /\ g[j] = group[j]
    BY <1>1, <1>2
  <2>2. CASE j = Len(group)
    BY <1>1, <1>2, <1>3, <2>1, <2>2
  <2>3. CASE j # Len(group)
    <3>1. j \in 1 .. Len(group) - 1 /\ j + 1 \in 1 .. Len(group)
      BY <1>1, <2>1, <2>3
    <3> QED
      BY <1>2, <2>1, <3>1 DEF Increasing
  <2> QED
    BY <2>2, <2>3
<1>5. \A j \in 1 .. Len(g) : g[j] <= q
  BY <1>1, <1>2, <1>3
<1>6. g[1] = IF group = <<>> THEN q ELSE group[1]
  <2>1. CASE group = <<>>
    BY <1>2, <2>1
  <2>2. CASE group # <<>>
    <3>1. 1 \in 1 .. Len(group)
      BY <1>1, <2>2, EndsOf
    <3> QED
      BY <1>2, <2>2, <3>1
  <2> QED
    BY <2>1, <2>2
<1>7. Increasing(g)
  BY <1>4 DEF Increasing
<1> QED
  BY <1>2, <1>5, <1>6, <1>7 DEF g

LEMMA OrderStep ==
    TypeInv /\ ControlInv /\ OrderInv /\ StoredInOrder /\ [Next]_vars
        => OrderInv' /\ StoredInOrder'
<1> SUFFICES ASSUME TypeInv, ControlInv, OrderInv, StoredInOrder, [Next]_vars
             PROVE  OrderInv' /\ StoredInOrder'
  OBVIOUS
<1>a. Increasing(<<>>) /\ UpToLast(<<>>)
  BY DEF Increasing, UpToLast
<1>b. ASSUME UNCHANGED <<segments, group, last>>, \A c \in Column : Pending(c)' => Pending(c)
      PROVE  OrderInv' /\ StoredInOrder'
  BY <1>b DEF OrderInv, StoredInOrder, Increasing, UpToLast
<1>c. ASSUME UNCHANGED <<segments, last>>, group' = <<>>
      PROVE  OrderInv' /\ StoredInOrder'
  BY <1>a, <1>c DEF OrderInv, StoredInOrder, Increasing, UpToLast
<1> USE DEF Pending, Before, ControlInv, config, collecting, store, work
<1>1. CASE OpenShm
  BY <1>1, <1>b DEF OpenShm
<1>2. CASE CreateTree
  BY <1>2, <1>b DEF CreateTree
<1>3. CASE GetDef
  BY <1>3, <1>c DEF GetDef
<1>4. CASE Fork
  BY <1>4, <1>b DEF Fork
<1>5. CASE Reap
  BY <1>5, <1>b DEF Reap
<1>6. CASE Restart
  BY <1>6, <1>c DEF Restart
<1>7. CASE ReadName
  <2>1. PICK q \in 1 .. MaxFiles, envFile \in EnvFiles : Name(q, envFile)
    BY <1>7 DEF ReadName
  <2>2. q > last /\ last' = q /\ group' = Append(group, q) /\ UNCHANGED segments
        /\ pc = "collect" /\ pc' \in {"collect", "fork"}
    BY <2>1, DataTypes DEF Name
  <2>3. Increasing(group) /\ UpToLast(group)
    BY DEF OrderInv
  <2>4. Increasing(group') /\ UpToLast(group)'
        /\ group'[1] = IF group = <<>> THEN q ELSE group[1]
    BY <2>2, <2>3, GroupInOrder DEF UpToLast
  <2>5. ASSUME NEW c \in Column, NEW i \in 1 .. Len(segments[c])
        PROVE  LET f == segments[c][i].files IN
               /\ f # <<>> /\ Increasing(f) /\ UpToLast(f)'
               /\ f[Len(f)] < group'[1]
    <3> DEFINE f == segments[c][i].files
    <3>1. f \in Seq(Nat) /\ f # <<>> /\ Increasing(f) /\ UpToLast(f)
          /\ (group # <<>> => f[Len(f)] < group[1])
      BY <2>2, <2>5, DataTypes DEF OrderInv
    <3> HIDE DEF f
    <3>2. Len(f) \in Nat \ {0} /\ f[Len(f)] \in Nat /\ \A j \in 1 .. Len(f) : f[j] \in Nat
      BY <3>1, EndsOf, ElementOfSeq
    <3>3. last \in Nat /\ q \in Nat /\ f[Len(f)] <= last
      BY <3>1, <3>2, DataTypes DEF UpToLast
    <3>4. f[Len(f)] < group'[1]
      BY <2>2, <2>4, <3>1, <3>2, <3>3
    <3>5. UpToLast(f)'
      <4>1. f' = f /\ last' = q
        BY <2>2 DEF f
      <4>2. \A j \in 1 .. Len(f) : f[j] <= q
        BY <2>2, <3>1, <3>2, <3>3 DEF UpToLast
      <4> QED
        BY <4>1, <4>2, Zenon DEF UpToLast
    <3> QED
      BY <3>1, <3>4, <3>5 DEF f
  <2>6. OrderInv'
    BY <2>2, <2>4, <2>5 DEF OrderInv
  <2>7. StoredInOrder'
    BY <2>2 DEF StoredInOrder
  <2> QED
    BY <2>6, <2>7
<1>8. CASE EndOfFeed
  BY <1>8, <1>b DEF EndOfFeed
<1>9. CASE ReadFiles
  BY <1>9, <1>b DEF ReadFiles, WorkerUnchanged
<1>10. CASE Burn
  BY <1>10, <1>b DEF Burn, WorkerUnchanged
<1>11. CASE BurnDone
  BY <1>11, <1>b DEF BurnDone, WorkerUnchanged
<1>12. CASE StoreColumn
  <2>1. /\ UNCHANGED <<group, last, pc>> /\ pc = "wait" /\ channel' = channel + 1
        /\ worker = "store" /\ worker' \in {"store", "count"}
        /\ channel \in Nat /\ Column \subseteq Nat
        /\ group # <<>> /\ group \in Seq(Nat)
    BY <1>12, DataTypes DEF StoreColumn, WorkerUnchanged
  <2>2. Increasing(group) /\ UpToLast(group)
    BY DEF OrderInv
  <2>3. ASSUME NEW c \in Column, NEW i \in 1 .. Len(segments'[c])
        PROVE  LET f == segments'[c][i].files IN
               /\ f # <<>> /\ Increasing(f) /\ \A j \in 1 .. Len(f) : f[j] <= last
               /\ Pending(c)' => f[Len(f)] < group[1]
    <3>1. CASE i \in 1 .. Len(segments[c]) /\ segments'[c][i] = segments[c][i]
      <4>1. Pending(c)' => Pending(c)
        BY <2>1
      <4> HIDE DEF Pending
      <4> QED
        BY <2>1, <3>1, <4>1 DEF OrderInv, UpToLast
    <3>2. CASE c = channel /\ segments'[c][i] = NewSegment
      <4>1. ~ Pending(c)'
        BY <2>1, <3>2
      <4>2. segments'[c][i].files = group
        BY <3>2 DEF NewSegment
      <4> QED
        BY <2>1, <2>2, <4>1, <4>2 DEF UpToLast
    <3> QED
      BY <1>12, <3>1, <3>2, SegmentsAfter
  <2>4. OrderInv'
    <3>1. Increasing(group)' /\ UpToLast(group)'
      BY <2>1, <2>2 DEF UpToLast, Increasing
    <3> HIDE DEF Pending
    <3> QED
      BY <2>1, <2>3, <3>1 DEF OrderInv, UpToLast
  <2>5. ASSUME NEW c \in Column, NEW i \in 1 .. Len(segments'[c])
        PROVE  LET f == segments'[c][i].files IN
               /\ \A j \in 1 .. Len(f) - 1 : f[j] < f[j + 1]
               /\ i > 1 => LET e == segments'[c][i - 1].files IN e[Len(e)] < f[1]
    <3>1. CASE i \in 1 .. Len(segments[c]) /\ segments'[c][i] = segments[c][i]
      <4>1. i > 1 => segments'[c][i - 1] = segments[c][i - 1]
        <5>1. i > 1 => i - 1 \in 1 .. Len(segments[c])
          BY <3>1, DataTypes
        <5> QED
          BY <1>12, <5>1, SegmentsKept
      <4> QED
        BY <3>1, <4>1 DEF StoredInOrder
    <3>2. CASE c = channel /\ i = Len(segments[c]) + 1 /\ segments'[c][i] = NewSegment
      <4>1. segments'[c][i].files = group
        BY <3>2 DEF NewSegment
      <4>2. Pending(c)
        BY <2>1, <3>2
      <4>3. i > 1 => i - 1 \in 1 .. Len(segments[c])
                     /\ segments'[c][i - 1] = segments[c][i - 1]
        <5>1. i > 1 => i - 1 \in 1 .. Len(segments[c])
          BY <3>2, DataTypes
        <5> QED
          BY <1>12, <5>1, SegmentsKept
      <4> HIDE DEF Pending
      <4> QED
        BY <2>1, <2>2, <4>1, <4>2, <4>3 DEF OrderInv, Increasing
    <3> QED
      BY <1>12, <3>1, <3>2, SegmentsAfter
  <2>6. StoredInOrder'
    BY <2>5 DEF StoredInOrder
  <2> QED
    BY <2>4, <2>6
<1>13. CASE IncrementN1
  BY <1>13, <1>b DEF IncrementN1, WorkerUnchanged
<1>14. CASE WriteTree
  BY <1>14, <1>b DEF WriteTree, WorkerUnchanged
<1>15. CASE WorkerFails
  BY <1>15, <1>b DEF WorkerFails, WorkerUnchanged
<1>16. CASE WorkerKilled
  BY <1>16, <1>b DEF WorkerKilled, WorkerUnchanged
<1>17. CASE UNCHANGED vars
  BY <1>17, <1>b DEF vars
<1> QED
  BY <1>1, <1>2, <1>3, <1>4, <1>5, <1>6, <1>7, <1>8, <1>9, <1>10, <1>11,
     <1>12, <1>13, <1>14, <1>15, <1>16, <1>17
  DEF Next, Parent, Worker

-----------------------------------------------------------------------------
\* The times of segments.

\* A group that was handed to a worker has members.
LEMMA GroupMembers ==
    ASSUME TypeInv, ControlInv, pc \in {"fork", "wait"}
    PROVE  group # <<>> /\ 1 \in 1 .. Len(group) /\ group[1] \in Members(group)
BY DataTypes, EmptySeq DEF ControlInv, Members

\* A name, by what the proofs need of it.
LEMMA NameResult ==
    ASSUME TypeInv, ControlInv, NEW q \in 1 .. MaxFiles, NEW envFile, Name(q, envFile)
    PROVE  /\ pc = "collect" /\ pc' \in {"collect", "fork"} /\ worker' = worker
           /\ q > last /\ last' = q /\ group' = Append(group, q) /\ Len(group) = ibuf
           /\ UNCHANGED <<restarts, segments, removed, failed>>
           /\ ~ skipped' => ~ skipped /\ q = last + 1
           /\ ~ unmarked' => ~ (ibuf = 0 /\ "NSAMPLES" \notin envFile)
<1>1. /\ pc = "collect" /\ pc' \in {"collect", "fork"} /\ worker' = worker
      /\ last' = q /\ group' = Append(group, q)
      /\ UNCHANGED <<restarts, segments, removed, failed>>
  BY DEF Name, work
<1>2. Len(group) = ibuf
  BY <1>1 DEF ControlInv
<1>3. last \in Nat /\ q \in Nat /\ MaxSkip \in Nat
  BY DataTypes, SizesAssumption
<1>4. q \in last + 1 .. last + 1 + MaxSkip
  BY DEF Name
<1>5. q > last /\ (~ (q > last + 1) => q = last + 1)
  BY <1>3, <1>4
<1>6. ~ skipped' => ~ skipped /\ ~ (q > last + 1)
  <2>1. skipped' = (skipped \/ q > last + 1)
    BY DEF Name
  <2> QED
    BY <2>1, Zenon
<1>7. ~ unmarked' => ~ (ibuf = 0 /\ "NSAMPLES" \notin envFile)
  <2>1. unmarked' = (unmarked \/ (ibuf = 0 /\ "NSAMPLES" \notin envFile))
    BY DEF Name
  <2> QED
    BY <2>1, Zenon
<1> QED
  BY <1>1, <1>2, <1>5, <1>6, <1>7

\* What has gone wrong stays so.
LEMMA CalmStep ==
    TypeInv /\ ControlInv /\ [Next]_vars => (Calm' => Calm) /\ (unmarked => unmarked')
<1> SUFFICES ASSUME TypeInv, ControlInv, [Next]_vars
             PROVE  (Calm' => Calm) /\ (unmarked => unmarked')
  OBVIOUS
<1>a. restarts \in Nat /\ skipped \in BOOLEAN /\ unmarked \in BOOLEAN
  BY SizesAssumption DEF TypeInv
<1> USE <1>a DEF Calm, ControlInv, config, collecting, store, work
<1>1. CASE OpenShm
  BY <1>1 DEF OpenShm
<1>2. CASE CreateTree
  BY <1>2 DEF CreateTree
<1>3. CASE GetDef
  BY <1>3 DEF GetDef
<1>4. CASE Fork
  BY <1>4 DEF Fork
<1>5. CASE Reap
  <2>1. CASE worker = "exit0"
    BY <1>5, <2>1 DEF Reap
  <2>2. CASE worker # "exit0"
    <3>1. group[1] \in failed'
      <4>1. failed' = failed \cup Members(group) /\ pc = "wait"
        BY <1>5, <2>2 DEF Reap, Members
      <4> QED
        BY <4>1, GroupMembers
    <3> QED
      BY <1>5, <3>1 DEF Reap
  <2> QED
    BY <2>1, <2>2
<1>6. CASE Restart
  BY <1>6 DEF Restart
<1>7. CASE ReadName
  BY <1>7 DEF ReadName, Name
<1>8. CASE EndOfFeed
  BY <1>8 DEF EndOfFeed
<1>9. CASE ReadFiles
  BY <1>9 DEF ReadFiles, WorkerUnchanged
<1>10. CASE Burn
  BY <1>10 DEF Burn, WorkerUnchanged
<1>11. CASE BurnDone
  BY <1>11 DEF BurnDone, WorkerUnchanged
<1>12. CASE StoreColumn
  BY <1>12 DEF StoreColumn, WorkerUnchanged
<1>13. CASE IncrementN1
  BY <1>13 DEF IncrementN1, WorkerUnchanged
<1>14. CASE WriteTree
  BY <1>14 DEF WriteTree, WorkerUnchanged
<1>15. CASE WorkerFails
  BY <1>15 DEF WorkerFails, WorkerUnchanged
<1>16. CASE WorkerKilled
  BY <1>16 DEF WorkerKilled, WorkerUnchanged
<1>17. CASE UNCHANGED vars
  BY <1>17 DEF vars
<1> QED
  BY <1>1, <1>2, <1>3, <1>4, <1>5, <1>6, <1>7, <1>8, <1>9, <1>10, <1>11,
     <1>12, <1>13, <1>14, <1>15, <1>16, <1>17
  DEF Next, Parent, Worker

\* In the calm N1 counts the samples of the files named.
LEMMA CountStep ==
    TypeInv /\ ControlInv /\ OrderInv /\ CountInv /\ [Next]_vars => CountInv'
<1> SUFFICES ASSUME TypeInv, ControlInv, OrderInv, CountInv, [Next]_vars PROVE CountInv'
  OBVIOUS
<1>a. /\ n1 \in Nat /\ last \in Nat /\ Len(group) \in Nat /\ restarts \in Nat
      /\ skipped \in BOOLEAN /\ ibuf \in Nat /\ Len(<<>>) = 0
      /\ group # <<>> => group[1] \in Nat
  BY DataTypes, SizesAssumption, EndsOf DEF TypeInv
<1>b. Calm' => Calm
  BY CalmStep
<1>c. ASSUME UNCHANGED <<group, last, skipped, n1, restarts>>,
             pc' \in {"shm", "tree"} => pc' = pc,
             pc' \in {"getdef", "collect", "fork"} => pc' = pc,
             Calm' => /\ worker' \in {"write", "exit0"} => worker \in {"write", "exit0"}
                      /\ worker' \in NotCounted => worker \in NotCounted
      PROVE  CountInv'
  BY <1>a, <1>b, <1>c DEF CountInv
<1> USE <1>a, <1>b DEF CountInv, ControlInv, NotCounted, config, collecting, store, work
<1>1. CASE OpenShm
  BY <1>1 DEF OpenShm, Calm
<1>2. CASE CreateTree
  BY <1>2 DEF CreateTree, Calm
<1>3. CASE GetDef
  BY <1>3 DEF GetDef
<1>4. CASE Fork
  <2>1. /\ pc = "fork" /\ pc' = "wait" /\ worker' = "read"
        /\ UNCHANGED <<n1, last, group, skipped, restarts>>
    BY <1>4 DEF Fork
  <2> QED
    BY <2>1
<1>5. CASE Reap
  <2>1. /\ pc' \in {"getdef", "exited"} /\ worker' = "none"
        /\ UNCHANGED <<n1, last, group, skipped, restarts>>
    BY <1>5 DEF Reap
  <2>2. Calm' => worker = "exit0"
    BY <1>5 DEF Reap, Calm
  <2> QED
    BY <2>1, <2>2
<1>6. CASE Restart
  <2>1. restarts' > 0
    BY <1>6 DEF Restart
  <2> QED
    BY <1>6, <2>1 DEF Restart, Calm
<1>7. CASE ReadName
  <2>1. PICK q \in 1 .. MaxFiles, envFile \in EnvFiles : Name(q, envFile)
    BY <1>7 DEF ReadName
  <2>2. /\ pc = "collect" /\ pc' \in {"collect", "fork"} /\ worker' = "none"
        /\ q > last /\ last' = q /\ group' = Append(group, q) /\ Len(group) = ibuf
        /\ UNCHANGED restarts
        /\ ~ skipped' => ~ skipped /\ q = last + 1
    BY <2>1, NameResult
  <2>3. Increasing(group) /\ UpToLast(group)
    BY DEF OrderInv
  <2>4. /\ group'[1] = IF group = <<>> THEN q ELSE group[1]
        /\ group' # <<>> /\ Len(group') = Len(group) + 1
    BY <2>2, <2>3, GroupInOrder
  <2>5. group = <<>> <=> ibuf = 0
    BY <2>2, DataTypes, EmptySeq
  <2>6. n1' = (IF ibuf = 0 THEN getValue(envFile, "NSAMPLES", q - 1, n1) ELSE n1)
    BY <2>1 DEF Name
  <2>7. ~ skipped' => group'[1] = last' - Len(group') + 1
    BY <2>2, <2>4, <2>5
  <2>8. Calm' => n1' = last' - Len(group')
    <3>1. Calm' => n1 = last - Len(group) /\ q = last + 1
      BY <2>2 DEF Calm
    <3>2. n1' = n1 \/ (ibuf = 0 /\ n1' = q - 1)
      BY <2>6 DEF getValue
    <3> QED
      BY <2>2, <2>4, <3>1, <3>2
  <2> QED
    BY <2>2, <2>7, <2>8
<1>8. CASE EndOfFeed
  BY <1>8, <1>c DEF EndOfFeed
<1>9. CASE ReadFiles
  BY <1>9, <1>c DEF ReadFiles, WorkerUnchanged
<1>10. CASE Burn
  BY <1>10, <1>c DEF Burn, WorkerUnchanged
<1>11. CASE BurnDone
  BY <1>11, <1>c DEF BurnDone, WorkerUnchanged
<1>12. CASE StoreColumn
  <2>1. /\ worker = "store" /\ worker' \in {"store", "count"} /\ pc = "wait"
        /\ UNCHANGED <<n1, last, group, skipped, restarts, pc>>
    BY <1>12 DEF StoreColumn, WorkerUnchanged
  <2> QED
    BY <2>1
<1>13. CASE IncrementN1
  <2>1. /\ worker = "count" /\ worker' = "write" /\ pc = "wait"
        /\ n1' = n1 + SegmentLength
        /\ UNCHANGED <<last, group, skipped, restarts, pc, min_samples_segment>>
    BY <1>13 DEF IncrementN1, WorkerUnchanged
  <2>2. Calm' => SegmentLength = Len(group)
    BY <2>1 DEF Calm, SegmentLength
  <2>3. Calm' => n1' = last
    BY <2>1, <2>2
  <2> QED
    BY <2>1, <2>3
<1>14. CASE WriteTree
  BY <1>14, <1>c DEF WriteTree, WorkerUnchanged
<1>15. CASE WorkerFails
  BY <1>15, <1>c DEF WorkerFails, WorkerUnchanged, Calm
<1>16. CASE WorkerKilled
  BY <1>16, <1>c DEF WorkerKilled, WorkerUnchanged, Calm
<1>17. CASE UNCHANGED vars
  BY <1>17, <1>c DEF vars
<1> QED
  BY <1>1, <1>2, <1>3, <1>4, <1>5, <1>6, <1>7, <1>8, <1>9, <1>10, <1>11,
     <1>12, <1>13, <1>14, <1>15, <1>16, <1>17
  DEF Next, Parent, Worker

\* With .id files N1 is the time of the group.
LEMMA MarkedStep ==
    TypeInv /\ ControlInv /\ OrderInv /\ MarkedInv /\ [Next]_vars => MarkedInv'
<1> SUFFICES ASSUME TypeInv, ControlInv, OrderInv, MarkedInv, [Next]_vars PROVE MarkedInv'
  OBVIOUS
<1>a. unmarked => unmarked'
  BY CalmStep
<1>b. ASSUME UNCHANGED <<group, n1>>,
             pc' \in {"collect", "fork"} => pc \in {"collect", "fork"},
             worker' \in NotCounted => worker \in NotCounted \/ pc = "fork"
      PROVE  MarkedInv'
  BY <1>a, <1>b DEF MarkedInv
<1> USE <1>a DEF MarkedInv, ControlInv, NotCounted, config, collecting, store, work
<1>1. CASE OpenShm
  BY <1>1 DEF OpenShm
<1>2. CASE CreateTree
  BY <1>2, <1>b DEF CreateTree
<1>3. CASE GetDef
  BY <1>3 DEF GetDef
<1>4. CASE Fork
  BY <1>4, <1>b DEF Fork
<1>5. CASE Reap
  BY <1>5, <1>b DEF Reap
<1>6. CASE Restart
  BY <1>6 DEF Restart
<1>7. CASE ReadName
  <2>1. PICK q \in 1 .. MaxFiles, envFile \in EnvFiles : Name(q, envFile)
    BY <1>7 DEF ReadName
  <2>2. /\ pc = "collect" /\ q > last /\ group' = Append(group, q) /\ Len(group) = ibuf
        /\ ~ unmarked' => ~ (ibuf = 0 /\ "NSAMPLES" \notin envFile)
    BY <2>1, NameResult
  <2>3. Increasing(group) /\ UpToLast(group)
    BY DEF OrderInv
  <2>4. group'[1] = IF group = <<>> THEN q ELSE group[1]
    BY <2>2, <2>3, GroupInOrder
  <2>5. group = <<>> <=> ibuf = 0
    BY <2>2, DataTypes, EmptySeq
  <2>6. n1' = (IF ibuf = 0 THEN getValue(envFile, "NSAMPLES", q - 1, n1) ELSE n1)
    BY <2>1 DEF Name
  <2> QED
    BY <2>2, <2>4, <2>5, <2>6 DEF getValue
<1>8. CASE EndOfFeed
  BY <1>8, <1>b DEF EndOfFeed
<1>9. CASE ReadFiles
  BY <1>9, <1>b DEF ReadFiles, WorkerUnchanged
<1>10. CASE Burn
  BY <1>10, <1>b DEF Burn, WorkerUnchanged
<1>11. CASE BurnDone
  BY <1>11, <1>b DEF BurnDone, WorkerUnchanged
<1>12. CASE StoreColumn
  BY <1>12, <1>b DEF StoreColumn, WorkerUnchanged
<1>13. CASE IncrementN1
  BY <1>13 DEF IncrementN1, WorkerUnchanged
<1>14. CASE WriteTree
  BY <1>14, <1>b DEF WriteTree, WorkerUnchanged
<1>15. CASE WorkerFails
  BY <1>15, <1>b DEF WorkerFails, WorkerUnchanged
<1>16. CASE WorkerKilled
  BY <1>16, <1>b DEF WorkerKilled, WorkerUnchanged
<1>17. CASE UNCHANGED vars
  BY <1>17, <1>b DEF vars
<1> QED
  BY <1>1, <1>2, <1>3, <1>4, <1>5, <1>6, <1>7, <1>8, <1>9, <1>10, <1>11,
     <1>12, <1>13, <1>14, <1>15, <1>16, <1>17
  DEF Next, Parent, Worker

\* A segment is stored at the time of its first file.
LEMMA TimesStep ==
    TypeInv /\ ControlInv /\ CountInv /\ MarkedInv /\ SegmentTimesTrue /\ [Next]_vars
        => SegmentTimesTrue'
<1> SUFFICES ASSUME TypeInv, ControlInv, CountInv, MarkedInv, SegmentTimesTrue, [Next]_vars
             PROVE  SegmentTimesTrue'
  OBVIOUS
<1> DEFINE True == \A c \in Column : \A i \in 1 .. Len(segments[c]) :
                       segments[c][i].t1 = segments[c][i].files[1] - 1
<1>1. restarts \in Nat
  BY SizesAssumption DEF TypeInv
<1>2. (unmarked /\ ~ Calm) \/ True
  BY <1>1 DEF SegmentTimesTrue, Calm
<1>3. (unmarked' /\ ~ Calm') \/ True' => SegmentTimesTrue'
  <2>1. restarts' \in Nat
    BY TypeStep, SizesAssumption DEF TypeInv
  <2> QED
    BY <2>1 DEF SegmentTimesTrue, Calm
<1> HIDE DEF True
<1>4. unmarked /\ ~ Calm => unmarked' /\ ~ Calm'
  BY CalmStep
<1>5. CASE UNCHANGED segments
  BY <1>2, <1>3, <1>4, <1>5 DEF True
<1>6. CASE StoreColumn
  <2>1. ASSUME True, ~ unmarked \/ Calm
        PROVE  True'
    <3>1. pc = "wait" /\ worker = "store" /\ group # <<>>
      BY <1>6, GroupMembers DEF StoreColumn, ControlInv
    <3>2. group[1] \in Nat /\ Len(group) \in Nat /\ n1 \in Nat /\ last \in Nat
      BY <3>1, DataTypes, EndsOf
    <3>3. n1 = group[1] - 1
      <4>1. CASE ~ unmarked
        BY <3>1, <4>1 DEF MarkedInv, NotCounted
      <4>2. CASE Calm
        <5>1. n1 = last - Len(group)
          BY <3>1, <4>2 DEF CountInv, NotCounted
        <5>2. group[1] = last - Len(group) + 1
          BY <3>1, <4>2 DEF CountInv, Calm
        <5> QED
          BY <3>2, <5>1, <5>2
      <4> QED
        BY <2>1, <4>1, <4>2
    <3>4. NewSegment.t1 = NewSegment.files[1] - 1
      BY <3>3 DEF NewSegment
    <3>5. ASSUME NEW c \in Column, NEW i \in 1 .. Len(segments'[c])
          PROVE  segments'[c][i].t1 = segments'[c][i].files[1] - 1
      BY <1>6, <2>1, <3>4, <3>5, SegmentsAfter DEF True
    <3> QED
      BY <3>5 DEF True
  <2> QED
    BY <1>2, <1>3, <1>4, <2>1
<1> QED
  BY <1>5, <1>6
  DEF Next, Parent, Worker, OpenShm, CreateTree, GetDef, Fork, Reap, Restart, ReadName,
      Name, EndOfFeed, ReadFiles, Burn, BurnDone, IncrementN1, WriteTree, WorkerFails,
      WorkerKilled, vars, config, collecting, store, work

\* A segment is as long as its files.
LEMMA LengthStep ==
    TypeInv /\ ControlInv /\ SegmentLengthTrue /\ [Next]_vars => SegmentLengthTrue'
<1> SUFFICES ASSUME TypeInv, ControlInv, SegmentLengthTrue, [Next]_vars
             PROVE  SegmentLengthTrue'
  OBVIOUS
<1>1. CASE UNCHANGED <<segments, min_samples_segment>>
  BY <1>1 DEF SegmentLengthTrue
<1>2. CASE StoreColumn
  <2>1. pc = "wait" /\ worker = "store" /\ UNCHANGED min_samples_segment
    BY <1>2 DEF StoreColumn, ControlInv, WorkerUnchanged, config
  <2>2. ASSUME min_samples_segment = -1
        PROVE  NewSegment.len = Len(NewSegment.files)
    <3>1. Len(group) = files_per_segment
      BY <2>1, <2>2 DEF ControlInv
    <3> QED
      BY <3>1 DEF NewSegment, SegmentLength
  <2>3. ASSUME min_samples_segment = -1, NEW c \in Column, NEW i \in 1 .. Len(segments'[c])
        PROVE  segments'[c][i].len = Len(segments'[c][i].files)
    BY <1>2, <2>2, <2>3, SegmentsAfter DEF SegmentLengthTrue
  <2> QED
    BY <2>1, <2>3 DEF SegmentLengthTrue
<1> QED
  BY <1>1, <1>2
  DEF Next, Parent, Worker, OpenShm, CreateTree, GetDef, Fork, Reap, Restart, ReadName,
      Name, EndOfFeed, ReadFiles, Burn, BurnDone, IncrementN1, WriteTree, WorkerFails,
      WorkerKilled, WorkerUnchanged, vars, config, collecting, store, work

-----------------------------------------------------------------------------
\* Which files the columns hold.

\* StoreColumn adds the files of the group to its column, and no others.
LEMMA StoredAfter ==
    ASSUME TypeInv, StoreColumn, NEW c \in Column
    PROVE  StoredIn(c)' = IF c = channel THEN StoredIn(c) \cup Members(group) ELSE StoredIn(c)
<1>1. ASSUME NEW x \in StoredIn(c)' PROVE x \in StoredIn(c) \/ (c = channel /\ x \in Members(group))
  <2>1. PICK i \in 1 .. Len(segments'[c]) : x \in Members(segments'[c][i].files)
    BY <1>1 DEF StoredIn, Members
  <2>2. CASE i \in 1 .. Len(segments[c]) /\ segments'[c][i] = segments[c][i]
    BY <2>1, <2>2 DEF StoredIn
  <2>3. CASE c = channel /\ segments'[c][i] = NewSegment
    BY <2>1, <2>3 DEF NewSegment
  <2> QED
    BY <2>2, <2>3, SegmentsAfter
<1>2. ASSUME NEW x \in StoredIn(c) PROVE x \in StoredIn(c)'
  <2>1. PICK i \in 1 .. Len(segments[c]) : x \in Members(segments[c][i].files)
    BY <1>2 DEF StoredIn
  <2>2. i \in 1 .. Len(segments'[c]) /\ segments'[c][i] = segments[c][i]
    BY SegmentsKept
  <2>3. x \in Members(segments'[c][i].files)
    BY <2>1, <2>2
  <2> QED
    BY <2>2, <2>3 DEF StoredIn, Members
<1>3. ASSUME c = channel, NEW x \in Members(group) PROVE x \in StoredIn(c)'
  <2>1. /\ Len(segments[c]) + 1 \in 1 .. Len(segments'[c])
        /\ segments'[c][Len(segments[c]) + 1] = NewSegment
    BY <1>3, StoreColumnResult, DataTypes
  <2>2. x \in Members(segments'[c][Len(segments[c]) + 1].files)
    BY <1>3, <2>1 DEF NewSegment
  <2> QED
    BY <2>1, <2>2 DEF StoredIn, Members
<1> QED
  BY <1>1, <1>2, <1>3

\* A column that the worker has stored holds its files.
LEMMA StoredStep ==
    TypeInv /\ ControlInv /\ StoredInv /\ [Next]_vars => StoredInv'
<1> SUFFICES ASSUME TypeInv, ControlInv, StoredInv, [Next]_vars PROVE StoredInv'
  OBVIOUS
<1>a. channel \in Nat /\ Column \subseteq Nat /\ \A c \in Column : c >= 1
  BY DataTypes DEF Column
<1>b. ASSUME UNCHANGED <<segments, group>>, \A c \in Column : Done(c)' => Done(c)
      PROVE  StoredInv'
  BY <1>b DEF StoredInv, StoredIn, Members
<1>c. ASSUME worker' \in {"none", "read", "burn", "exit1", "killed"} PROVE StoredInv'
  BY <1>c DEF StoredInv, Done, Past
<1> USE <1>a DEF ControlInv, Before, config, collecting, store, work
<1>1. CASE OpenShm
  BY <1>1, <1>c DEF OpenShm
<1>2. CASE CreateTree
  BY <1>2, <1>c DEF CreateTree
<1>3. CASE GetDef
  BY <1>3, <1>c DEF GetDef
<1>4. CASE Fork
  BY <1>4, <1>c DEF Fork
<1>5. CASE Reap
  BY <1>5, <1>c DEF Reap
<1>6. CASE Restart
  BY <1>6, <1>c DEF Restart
<1>7. CASE ReadName
  <2>1. worker' = worker /\ worker = "none"
    BY <1>7, NameResult DEF ReadName
  <2> QED
    BY <2>1, <1>c
<1>8. CASE EndOfFeed
  BY <1>8, <1>c DEF EndOfFeed
<1>9. CASE ReadFiles
  BY <1>9, <1>c DEF ReadFiles, WorkerUnchanged
<1>10. CASE Burn
  BY <1>10, <1>c DEF Burn, WorkerUnchanged
<1>11. CASE BurnDone
  <2>1. \A c \in Column : ~ Done(c)'
    BY <1>11 DEF BurnDone, Done, Past
  <2> QED
    BY <2>1 DEF StoredInv
<1>12. CASE StoreColumn
  <2>1. ASSUME NEW c \in Column, Done(c)' PROVE Members(group)' \subseteq StoredIn(c)'
    <3>1. /\ UNCHANGED group /\ worker = "store" /\ channel \in Column /\ channel' = channel + 1
          /\ worker' = IF channel = Timebase THEN "count" ELSE "store"
      BY <1>12 DEF StoreColumn, WorkerUnchanged
    <3>2. c < channel \/ c = channel
      BY <2>1, <3>1, SizesAssumption DEF Done, Past, Column, Timebase
    <3>3. Members(group)' = Members(group)
      BY <3>1 DEF Members
    <3>4. c < channel => Members(group) \subseteq StoredIn(c)
      BY <3>1 DEF StoredInv, Done
    <3> QED
      BY <1>12, <3>2, <3>3, <3>4, StoredAfter
  <2> QED
    BY <2>1 DEF StoredInv
<1>13. CASE IncrementN1
  BY <1>13, <1>b DEF IncrementN1, WorkerUnchanged, Done, Past
<1>14. CASE WriteTree
  BY <1>14, <1>b DEF WriteTree, WorkerUnchanged, Done, Past
<1>15. CASE WorkerFails
  BY <1>15, <1>c DEF WorkerFails, WorkerUnchanged
<1>16. CASE WorkerKilled
  BY <1>16, <1>c DEF WorkerKilled, WorkerUnchanged
<1>17. CASE UNCHANGED vars
  BY <1>17, <1>b DEF vars, Done
<1> QED
  BY <1>1, <1>2, <1>3, <1>4, <1>5, <1>6, <1>7, <1>8, <1>9, <1>10, <1>11,
     <1>12, <1>13, <1>14, <1>15, <1>16, <1>17
  DEF Next, Parent, Worker

\* A burned file is stored, or belongs to a worker.
LEMMA BurnedStep ==
    TypeInv /\ ControlInv /\ StoredInv /\ BurnedFilesAccounted /\ [Next]_vars
        => BurnedFilesAccounted'
<1> SUFFICES ASSUME TypeInv, ControlInv, StoredInv, BurnedFilesAccounted, [Next]_vars
             PROVE  BurnedFilesAccounted'
  OBVIOUS
<1>a. ASSUME UNCHANGED <<segments, removed, failed>>,
             worker # "none" => worker' # "none" /\ UNCHANGED group
      PROVE  BurnedFilesAccounted'
  <2>1. \A c \in Column : StoredIn(c)' = StoredIn(c)
    BY <1>a DEF StoredIn, Members
  <2>2. worker # "none" => worker' # "none" /\ Members(group)' = Members(group)
    BY <1>a DEF Members
  <2> QED
    BY <1>a, <2>1, <2>2 DEF BurnedFilesAccounted
<1> USE DEF ControlInv, config, collecting, store, work
<1>1. CASE OpenShm
  BY <1>1, <1>a DEF OpenShm
<1>2. CASE CreateTree
  BY <1>2, <1>a DEF CreateTree
<1>3. CASE GetDef
  BY <1>3, <1>a DEF GetDef
<1>4. CASE Fork
  BY <1>4, <1>a DEF Fork
<1>5. CASE Reap
  <2>1. /\ worker \in {"exit0", "exit1", "killed"} /\ UNCHANGED <<segments, removed>>
        /\ worker = "exit0" => failed' = failed
        /\ worker # "exit0" => failed' = failed \cup Members(group)
    BY <1>5 DEF Reap, Members
  <2>2. \A c \in Column : StoredIn(c)' = StoredIn(c)
    BY <2>1 DEF StoredIn, Members
  <2>3. worker = "exit0" => \A c \in Column : Members(group) \subseteq StoredIn(c)
    BY DEF StoredInv, Done, Past
  <2> QED
    BY <2>1, <2>2, <2>3 DEF BurnedFilesAccounted
<1>6. CASE Restart
  BY <1>6, <1>a DEF Restart
<1>7. CASE ReadName
  <2>1. worker = "none" /\ UNCHANGED <<segments, removed, failed>>
    BY <1>7, NameResult DEF ReadName
  <2> QED
    BY <2>1, <1>a
<1>8. CASE EndOfFeed
  BY <1>8, <1>a DEF EndOfFeed
<1>9. CASE ReadFiles
  BY <1>9, <1>a DEF ReadFiles, WorkerUnchanged
<1>10. CASE Burn
  <2>1. /\ worker = "burn" /\ UNCHANGED <<worker, segments, failed, group>>
        /\ unburned \in Seq(1 .. MaxFiles) /\ unburned # <<>>
        /\ removed' = removed \cup {unburned[Len(unburned)]}
    BY <1>10, DataTypes DEF Burn, WorkerUnchanged
  <2>2. Len(unburned) \in 1 .. Len(unburned)
    BY <2>1, FrontProperties
  <2>3. unburned[Len(unburned)] \in Members(group)
    BY <2>1, <2>2 DEF Members
  <2>4. Members(group)' = Members(group) /\ \A c \in Column : StoredIn(c)' = StoredIn(c)
    BY <2>1 DEF StoredIn, Members
  <2> QED
    BY <2>1, <2>3, <2>4 DEF BurnedFilesAccounted
<1>11. CASE BurnDone
  BY <1>11, <1>a DEF BurnDone, WorkerUnchanged
<1>12. CASE StoreColumn
  <2>1. /\ worker = "store" /\ worker' # "none" /\ UNCHANGED <<removed, failed, group>>
    BY <1>12 DEF StoreColumn, WorkerUnchanged
  <2>2. Members(group)' = Members(group) /\ \A c \in Column : StoredIn(c) \subseteq StoredIn(c)'
    BY <1>12, <2>1, StoredAfter DEF Members
  <2> QED
    BY <2>1, <2>2 DEF BurnedFilesAccounted
<1>13. CASE IncrementN1
  BY <1>13, <1>a DEF IncrementN1, WorkerUnchanged
<1>14. CASE WriteTree
  BY <1>14, <1>a DEF WriteTree, WorkerUnchanged
<1>15. CASE WorkerFails
  BY <1>15, <1>a DEF WorkerFails, WorkerUnchanged
<1>16. CASE WorkerKilled
  BY <1>16, <1>a DEF WorkerKilled, WorkerUnchanged
<1>17. CASE UNCHANGED vars
  BY <1>17, <1>a DEF vars
<1> QED
  BY <1>1, <1>2, <1>3, <1>4, <1>5, <1>6, <1>7, <1>8, <1>9, <1>10, <1>11,
     <1>12, <1>13, <1>14, <1>15, <1>16, <1>17
  DEF Next, Parent, Worker

\* The columns hold the same files, but for those of a worker.
LEMMA AgreeStep ==
    TypeInv /\ ControlInv /\ StoredInv /\ AgreeInv /\ [Next]_vars => AgreeInv'
<1> SUFFICES ASSUME TypeInv, ControlInv, StoredInv, AgreeInv, [Next]_vars PROVE AgreeInv'
  OBVIOUS
<1>a. ASSUME UNCHANGED <<segments, failed>>, Busy' = Busy PROVE AgreeInv'
  <2>1. \A c \in Column : StoredIn(c)' = StoredIn(c)
    BY <1>a DEF StoredIn, Members
  <2> QED
    BY <1>a, <2>1 DEF AgreeInv
<1>b. ASSUME worker = "none", worker' = "none" PROVE Busy' = Busy
  BY <1>b DEF Busy
<1>c. ASSUME worker # "none", worker' # "none", UNCHANGED group PROVE Busy' = Busy
  BY <1>c DEF Busy, Members
<1> USE DEF ControlInv, config, collecting, store, work
<1>1. CASE OpenShm
  BY <1>1, <1>a, <1>b, <1>c DEF OpenShm
<1>2. CASE CreateTree
  BY <1>2, <1>a, <1>b, <1>c DEF CreateTree
<1>3. CASE GetDef
  BY <1>3, <1>a, <1>b, <1>c DEF GetDef
<1>4. CASE Fork
  <2>1. worker = "none" /\ UNCHANGED <<segments, failed>>
    BY <1>4 DEF Fork
  <2>2. Busy = {} /\ \A c \in Column : StoredIn(c)' = StoredIn(c)
    BY <2>1 DEF Busy, StoredIn, Members
  <2> QED
    BY <2>1, <2>2 DEF AgreeInv
<1>5. CASE Reap
  <2>1. /\ worker \in {"exit0", "exit1", "killed"} /\ worker' = "none" /\ UNCHANGED segments
        /\ worker = "exit0" => failed' = failed
        /\ worker # "exit0" => failed' = failed \cup Members(group)
    BY <1>5 DEF Reap, Members
  <2>2. Busy = Members(group) /\ Busy' = {} /\ \A c \in Column : StoredIn(c)' = StoredIn(c)
    BY <2>1 DEF Busy, StoredIn, Members
  <2>3. worker = "exit0" => \A c \in Column : Members(group) \subseteq StoredIn(c)
    BY DEF StoredInv, Done, Past
  <2>4. CASE worker = "exit0"
    BY <2>1, <2>2, <2>3, <2>4 DEF AgreeInv
  <2>5. CASE worker # "exit0"
    BY <2>1, <2>2, <2>5 DEF AgreeInv
  <2> QED
    BY <2>4, <2>5
<1>6. CASE Restart
  BY <1>6, <1>a, <1>b, <1>c DEF Restart
<1>7. CASE ReadName
  <2>1. worker = "none" /\ worker' = "none" /\ UNCHANGED <<segments, failed>>
    BY <1>7, NameResult DEF ReadName
  <2> QED
    BY <2>1, <1>a, <1>b
<1>8. CASE EndOfFeed
  BY <1>8, <1>a, <1>b, <1>c DEF EndOfFeed
<1>9. CASE ReadFiles
  BY <1>9, <1>a, <1>b, <1>c DEF ReadFiles, WorkerUnchanged
<1>10. CASE Burn
  BY <1>10, <1>a, <1>b, <1>c DEF Burn, WorkerUnchanged
<1>11. CASE BurnDone
  BY <1>11, <1>a, <1>b, <1>c DEF BurnDone, WorkerUnchanged
<1>12. CASE StoreColumn
  <2>1. /\ worker = "store" /\ worker' # "none" /\ UNCHANGED <<failed, group>>
    BY <1>12 DEF StoreColumn, WorkerUnchanged
  <2>2. Busy = Members(group) /\ Busy' = Busy
    BY <2>1, <1>c DEF Busy
  <2>3. \A c \in Column : StoredIn(c)' \ Busy = StoredIn(c) \ Busy
    BY <1>12, <2>2, StoredAfter
  <2> QED
    BY <2>1, <2>2, <2>3 DEF AgreeInv
<1>13. CASE IncrementN1
  BY <1>13, <1>a, <1>b, <1>c DEF IncrementN1, WorkerUnchanged
<1>14. CASE WriteTree
  BY <1>14, <1>a, <1>b, <1>c DEF WriteTree, WorkerUnchanged
<1>15. CASE WorkerFails
  BY <1>15, <1>a, <1>b, <1>c DEF WorkerFails, WorkerUnchanged
<1>16. CASE WorkerKilled
  BY <1>16, <1>a, <1>b, <1>c DEF WorkerKilled, WorkerUnchanged
<1>17. CASE UNCHANGED vars
  BY <1>17, <1>a DEF vars, Busy, Members
<1> QED
  BY <1>1, <1>2, <1>3, <1>4, <1>5, <1>6, <1>7, <1>8, <1>9, <1>10, <1>11,
     <1>12, <1>13, <1>14, <1>15, <1>16, <1>17
  DEF Next, Parent, Worker

-----------------------------------------------------------------------------
\* The inductive invariant holds of every behaviour.
LEMMA InitIInv == Init => IInv
<1> SUFFICES ASSUME Init PROVE IInv
  OBVIOUS
<1>1. <<>> \in Seq(1 .. MaxFiles) /\ <<>> \in Seq(Segment) /\ Len(<<>>) = 0
  OBVIOUS
<1>2. segments \in [Column -> Seq(Segment)] /\ \A c \in Column : segments[c] = <<>>
  BY <1>1 DEF Init
<1>3. TypeInv
  <2>1. /\ ibuf \in 0 .. files_per_segment - 1 /\ acc_samples \in Nat
        /\ last \in 0 .. MaxFiles /\ n1 \in Nat /\ errors \in 0 .. CHILD_ERROR_MAX + 1
        /\ channel \in 1 .. Timebase + 1 /\ restarts \in 0 .. MaxRestarts
        /\ Len(group) <= files_per_segment
    BY <1>1, SizesAssumption DEF Init, Timebase
  <2> QED
    BY <1>1, <1>2, <2>1 DEF Init, TypeInv
<1>4. ControlInv
  BY <1>1, SizesAssumption DEF Init, ControlInv, Before
<1>5. OrderInv /\ StoredInOrder
  BY <1>1, <1>2 DEF Init, OrderInv, StoredInOrder, Increasing, UpToLast
<1>6. CountInv /\ MarkedInv
  BY DEF Init, CountInv, MarkedInv, NotCounted
<1>7. SegmentTimesTrue /\ SegmentLengthTrue
  BY <1>1, <1>2 DEF SegmentTimesTrue, SegmentLengthTrue
<1>8. StoredInv /\ BurnedFilesAccounted
  BY DEF Init, StoredInv, Done, Past, BurnedFilesAccounted
<1>9. AgreeInv
  <2>1. \A c \in Column : StoredIn(c) = {}
    BY <1>1, <1>2 DEF StoredIn
  <2> QED
    BY <2>1 DEF AgreeInv
<1> QED
  BY <1>3, <1>4, <1>5, <1>6, <1>7, <1>8, <1>9 DEF IInv

LEMMA NextIInv == IInv /\ [Next]_vars => IInv'
BY TypeStep, ControlStep, OrderStep, CountStep, MarkedStep, TimesStep, LengthStep,
   StoredStep, BurnedStep, AgreeStep DEF IInv

\* Every reachable state of the controller satisfies the inductive invariant.
THEOREM Invariance == Spec => []IInv
BY InitIInv, NextIInv, PTL DEF Spec

\* The variables of the controller keep their types, through every failure
\* of a worker and every restart.
THEOREM TypeCorrect == Spec => []TypeInv
<1>1. IInv => TypeInv
  BY DEF IInv
<1> QED
  BY <1>1, Invariance, PTL

\* storeChannels() and storeTimebase() keep the segments of every column in
\* the order of the feed, without a file stored twice.
THEOREM InOrder == Spec => []StoredInOrder
<1>1. IInv => StoredInOrder
  BY DEF IInv
<1> QED
  BY <1>1, Invariance, PTL

\* beginSegment() is given the time of the first file of the segment, as far
\* as .id files or an undisturbed run make N1 right.
THEOREM TimesTrue == Spec => []SegmentTimesTrue
<1>1. IInv => SegmentTimesTrue
  BY DEF IInv
<1> QED
  BY <1>1, Invariance, PTL

\* A segment has the length of its files when groups are closed by number.
THEOREM LengthTrue == Spec => []SegmentLengthTrue
<1>1. IInv => SegmentLengthTrue
  BY DEF IInv
<1> QED
  BY <1>1, Invariance, PTL

\* A worker burns files that it stores in every column before it exits with
\* 0: a burned file is lost only by a worker that fails.
THEOREM BurnedAccounted == Spec => []BurnedFilesAccounted
<1>1. IInv => BurnedFilesAccounted
  BY DEF IInv
<1> QED
  BY <1>1, Invariance, PTL

\* Channels and timebase hold the same files between groups, but for those of
\* groups whose worker failed.
THEOREM Agree == Spec => []ColumnsAgree
<1>1. IInv => ColumnsAgree
  <2>1. worker = "none" => failed \cup Busy = failed
    BY DEF Busy
  <2> QED
    BY <2>1 DEF IInv, AgreeInv, ColumnsAgree
<1> QED
  BY <1>1, Invariance, PTL
=============================================================================
