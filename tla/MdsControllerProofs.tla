------------------------ MODULE MdsControllerProofs ------------------------
(***************************************************************************)
(* Theorems about MdsController with its Watchdog, for every size of the   *)
(* stdio buffers, limit of errors and number of lines: no raw file is      *)
(* removed before it is stored, and no controller at work is killed while  *)
(* the reads of the watchdog keep up with it.                              *)
(***************************************************************************)
EXTENDS MdsController, SequenceTheorems, TLAPS

\* How the worker in progress, the file it works on and the counters go
\* together: a worker lives only while the controller waits or has gone, and
\* only when a file has been named.
ControlInv ==
    /\ Running => errors <= CHILD_ERROR_MAX
    /\ pc \in {"getdef", "fgets", "fork"} => child = "none"
    /\ pc \in {"fork", "wait"} => rawblock < file
    /\ child # "none" => file > 0
    /\ child \in {"stored", "unlinked"} => file \in stored

\* Every chunk of commands that goes to the pipe begins with a disable.
DisableFirst(cmds) == cmds = <<>> \/ cmds[1] = 0

\* The commands are in step, and wdt has read the chunks whole.
InStep ==
    /\ "backlog" \notin oddities
    /\ "overflow" \notin oddities \/ "comment" \notin oddities

\* The buffer has taken a command before the alarm is set first.  Without
\* comments, disable and enable alternate, and the buffer, of even size, is
\* full only when a disable is due.
OutbufInv ==
    /\ first_time => pc = "getdef" /\ outbuf = <<>> /\ oddities = {} /\ wdt = "none"
    /\ timeout_set /\ pc \in {"fork", "wait", "getdef"} /\ ~ first_time => outbuf # <<>>
    /\ "comment" \notin oddities /\ timeout_set =>
        /\ pc = "fgets" => Len(outbuf) % 2 = 0
        /\ pc \in {"fork", "wait", "getdef"} /\ ~ first_time => Len(outbuf) % 2 = 1

\* wdt is disabled whenever it has seen the pipe empty, and never enabled
\* where int keeps the sign of a pointer.
DisabledInv ==
    /\ negative => ~ enabled
    /\ InStep =>
        /\ DisableFirst(outbuf) /\ DisableFirst(childbuf) /\ DisableFirst(pipe)
        /\ Running /\ pipe = <<>> => ~ enabled

\* The watchdog kills at once, and only a broken pipe or the watchdog kills.
FiredInv ==
    /\ wdt = "fired" => ~ Running
    /\ pc = "killed" => Broken

IInv ==
    /\ TypeInv
    /\ NoDataLoss
    /\ NoFalseKill
    /\ ControlInv
    /\ OutbufInv
    /\ DisabledInv
    /\ FiredInv

-----------------------------------------------------------------------------
\* set_alarm() keeps the types of the channel.
LEMMA SetAlarmTypes ==
    ASSUME WatchdogTypeInv, NEW c \in Command, SetAlarm(c)
    PROVE  WatchdogTypeInv'
<1>1. outbuf \o <<>> = outbuf /\ pipe \o outbuf \in Seq(Command)
  BY ConcatProperties DEF WatchdogTypeInv
<1>2. <<c>> \in Seq(Command) /\ Len(<<c>>) = 1
  OBVIOUS
<1>3. Append(outbuf, c) \in Seq(Command) /\ Len(Append(outbuf, c)) = Len(outbuf) + 1
  BY AppendProperties DEF WatchdogTypeInv
<1> QED
  BY <1>1, <1>2, <1>3, BufCapAssumption DEF SetAlarm, Overflows, WatchdogTypeInv

\* What a read() takes, and what it leaves.
LEMMA ReadPipe ==
    ASSUME WatchdogTypeInv, pipe # <<>>,
           NEW n \in Nat, n = IF Len(pipe) > BufCap THEN BufCap ELSE Len(pipe)
    PROVE  /\ SubSeq(pipe, 1, n) \in Seq(Command) /\ Len(SubSeq(pipe, 1, n)) = n
           /\ n > 0 /\ n <= BufCap /\ Head(SubSeq(pipe, 1, n)) = pipe[1]
           /\ SubSeq(pipe, n + 1, Len(pipe)) \in Seq(Command)
           /\ Len(pipe) <= BufCap => SubSeq(pipe, n + 1, Len(pipe)) = <<>>
<1>1. pipe \in Seq(Command) /\ Len(pipe) \in Nat /\ Len(pipe) > 0
  BY EmptySeq, LenProperties DEF WatchdogTypeInv
<1>2. n > 0 /\ n <= BufCap /\ n <= Len(pipe) /\ (Len(pipe) <= BufCap => n = Len(pipe))
  BY <1>1, BufCapAssumption
<1>3. /\ SubSeq(pipe, 1, n) \in Seq(Command) /\ Len(SubSeq(pipe, 1, n)) = n
      /\ SubSeq(pipe, 1, n)[1] = pipe[1]
  BY <1>1, <1>2, SubSeqProperties
<1>4. Head(SubSeq(pipe, 1, n)) = SubSeq(pipe, 1, n)[1]
  BY <1>2, <1>3, EmptySeq
<1>5. SubSeq(pipe, n + 1, Len(pipe)) \in Seq(Command)
  BY <1>1, <1>2, SubSeqProperties
<1>6. n = Len(pipe) => SubSeq(pipe, n + 1, Len(pipe)) = <<>>
  <2>1. Len(pipe) + 1 \in Int /\ Len(pipe) \in Int /\ Len(pipe) < Len(pipe) + 1
    BY <1>1
  <2>2. SubSeq(pipe, Len(pipe) + 1, Len(pipe)) = <<>>
    BY <2>1, SubSeqEmpty, Zenon
  <2> QED
    BY <2>2, Zenon
<1> QED
  BY <1>2, <1>3, <1>4, <1>5, <1>6

\* What the watchdog reads keeps them.
LEMMA ReadTypes ==
    ASSUME WatchdogTypeInv, WdtReads \/ WdtAtEOF
    PROVE  WatchdogTypeInv'
<1>1. \A s \in Seq(Command) : s # <<>> =>
            Tail(s) \in Seq(Command) /\ Len(s) \in Nat /\ Len(Tail(s)) = Len(s) - 1
  BY HeadTailProperties, LenProperties
<1>2. CASE WdtReads /\ wbuf = <<>>
  <2> DEFINE n == IF Len(pipe) > BufCap THEN BufCap ELSE Len(pipe)
             lines == SubSeq(pipe, 1, n)
  <2>1. n \in Nat /\ pipe # <<>>
    BY <1>2, LenProperties, BufCapAssumption DEF WdtReads, WatchdogTypeInv
  <2>2. /\ wbuf' = Tail(lines) /\ pipe' = SubSeq(pipe, n + 1, Len(pipe))
        /\ Returned(Head(lines)) /\ UNCHANGED <<outbuf, negative>> /\ wdt = "running"
    BY <1>2 DEF WdtReads, Backlog
  <2>3. /\ lines \in Seq(Command) /\ Len(lines) = n /\ n > 0 /\ n <= BufCap
        /\ SubSeq(pipe, n + 1, Len(pipe)) \in Seq(Command)
    BY <2>1, ReadPipe, Zenon
  <2> HIDE DEF n, lines
  <2>4. lines # <<>> /\ pipe' \in Seq(Command)
    BY <2>2, <2>3
  <2>5. wbuf' \in Seq(Command) /\ Len(wbuf') < BufCap
    <3>1. wbuf' \in Seq(Command) /\ Len(wbuf') = n - 1
      BY <1>1, <2>2, <2>3, <2>4, Zenon
    <3> QED
      BY <2>1, <2>3, <3>1, BufCapAssumption
  <2> QED
    BY <2>2, <2>4, <2>5 DEF Returned, WatchdogTypeInv
<1>3. CASE (WdtReads \/ WdtAtEOF) /\ wbuf # <<>>
  <2>1. /\ wbuf' = Tail(wbuf) /\ pipe' = pipe /\ Returned(Head(wbuf))
        /\ UNCHANGED <<outbuf, negative>> /\ wdt = "running"
    BY <1>3 DEF WdtReads, WdtAtEOF
  <2>2. wbuf' \in Seq(Command) /\ Len(wbuf') < BufCap
    BY <1>1, <1>3, <2>1, BufCapAssumption DEF WatchdogTypeInv
  <2> QED
    BY <2>1, <2>2 DEF Returned, WatchdogTypeInv
<1> QED
  BY <1>2, <1>3 DEF WdtAtEOF

\* Every step keeps the types of the channel ...
LEMMA ChannelTypeStep == TypeInv /\ [Next]_vars => WatchdogTypeInv'
<1> SUFFICES ASSUME TypeInv, [Next]_vars PROVE WatchdogTypeInv'
  OBVIOUS
<1>1. WatchdogTypeInv /\ childbuf \in Seq(Command) /\ 0 \in Command /\ 1 \in Command
  BY DEF TypeInv, Command
<1>a. /\ pipe \o outbuf \in Seq(Command) /\ pipe \o childbuf \in Seq(Command)
      /\ pipe \o Append(outbuf, 0) \in Seq(Command)
      /\ <<>> \in Seq(Command) /\ Len(<<>>) <= BufCap
  BY <1>1, ConcatProperties, AppendProperties, BufCapAssumption DEF WatchdogTypeInv
<1> USE BufCapAssumption, <1>1, <1>a DEF WatchdogTypeInv, channel, work
<1>b. ASSUME CountError PROVE WatchdogTypeInv'
  <2>1. CASE UNCHANGED channel
    BY <2>1
  <2>2. CASE ParentExits
    BY <2>2, Zenon DEF ParentExits, FlushAtExit
  <2> QED
    BY <1>b, <2>1, <2>2 DEF CountError
<1>2. CASE GetDef
  BY <1>2, SetAlarmTypes DEF GetDef, Alarm
<1>3. CASE ReadFile
  BY <1>3, SetAlarmTypes DEF ReadFile, Alarm
<1>4. CASE ReadComment
  BY <1>4, SetAlarmTypes DEF ReadComment
<1>5. CASE EndOfFeed
  BY <1>5 DEF EndOfFeed, ParentExits, FlushAtExit
<1>6. CASE Unreadable
  <2>1. pipe' = pipe \/ pipe' = pipe \o Append(outbuf, 0)
    BY <1>6, Zenon DEF Unreadable
  <2>2. outbuf' = <<>> \/ outbuf' = outbuf
    BY <1>6, Zenon DEF Unreadable
  <2>3. UNCHANGED <<wbuf, enabled, negative>> /\ (wdt' = wdt \/ wdt' = "running")
    BY <1>6, Zenon DEF Unreadable
  <2> QED
    BY <2>1, <2>2, <2>3, Zenon
<1>7. CASE Fork
  BY <1>7 DEF Fork
<1>8. CASE ForkFails
  BY <1>8 DEF ForkFails
<1>9. CASE Stores
  BY <1>9 DEF Stores
<1>10. CASE Unlinks
  BY <1>10 DEF Unlinks
<1>11. CASE WorkerSucceeds
  BY <1>11 DEF WorkerSucceeds, WorkerExits, FlushAtExit
<1>12. CASE WorkerFails
  BY <1>12 DEF WorkerFails, WorkerExits, FlushAtExit
<1>13. CASE WorkerKilled
  BY <1>13 DEF WorkerKilled
<1>14. CASE ReapSuccess
  BY <1>14 DEF ReapSuccess
<1>15. CASE ReapFailure
  BY <1>15, <1>b DEF ReapFailure
<1>16. CASE ReapNoForkNoChild
  BY <1>16, <1>b DEF ReapNoForkNoChild
<1>17. CASE ReapNoForkAssert
  BY <1>17 DEF ReapNoForkAssert
<1>18. CASE WatchdogReads
  BY <1>18, ReadTypes DEF WatchdogReads
<1>19. CASE WatchdogFires
  BY <1>19 DEF WatchdogFires, WdtTimesOut
<1>20. CASE WatchdogAtEOF
  BY <1>20, ReadTypes DEF WatchdogAtEOF
<1>21. CASE UNCHANGED vars
  BY <1>21 DEF vars
<1> QED
  BY <1>2, <1>3, <1>4, <1>5, <1>6, <1>7, <1>8, <1>9, <1>10, <1>11,
     <1>12, <1>13, <1>14, <1>15, <1>16, <1>17, <1>18, <1>19, <1>20, <1>21
  DEF Next, Parent, Feed, Worker, WatchdogStep

\* ... and of the controller.
LEMMA TypeStep == TypeInv /\ ControlInv /\ [Next]_vars => TypeInv'
<1> SUFFICES ASSUME TypeInv, ControlInv, [Next]_vars PROVE TypeInv'
  OBVIOUS
<1>1. WatchdogTypeInv'
  BY ChannelTypeStep
<1> USE ControllerAssumption, <1>1
    DEF TypeInv, ControlInv, WatchdogTypeInv, Command, Ended, Running, feed, work
<1>2. CASE GetDef
  BY <1>2 DEF GetDef, Alarm
<1>3. CASE ReadFile
  BY <1>3 DEF ReadFile, Alarm
<1>4. CASE ReadComment
  BY <1>4 DEF ReadComment
<1>5. CASE EndOfFeed
  BY <1>5 DEF EndOfFeed, ParentExits
<1>6. CASE Unreadable
  BY <1>6 DEF Unreadable
<1>7. CASE Fork
  BY <1>7 DEF Fork
<1>8. CASE ForkFails
  BY <1>8 DEF ForkFails
<1>9. CASE Stores
  BY <1>9 DEF Stores, WorkerUnchanged
<1>10. CASE Unlinks
  BY <1>10 DEF Unlinks, WorkerUnchanged
<1>11. CASE WorkerSucceeds
  BY <1>11 DEF WorkerSucceeds, WorkerExits, WorkerUnchanged
<1>12. CASE WorkerFails
  BY <1>12 DEF WorkerFails, WorkerExits, WorkerUnchanged
<1>13. CASE WorkerKilled
  BY <1>13 DEF WorkerKilled, WorkerUnchanged
<1>14. CASE ReapSuccess
  BY <1>14 DEF ReapSuccess, ReapUnchanged
<1>15. CASE ReapFailure
  BY <1>15 DEF ReapFailure, ReapUnchanged, CountError, ParentExits
<1>16. CASE ReapNoForkNoChild
  <2>1. CASE /\ errors' = 0 /\ pc' = "getdef" /\ rawblock' = rawblock + 1
             /\ child' = "none" /\ childbuf' = <<>>
    BY <1>16, <2>1 DEF ReapNoForkNoChild, ReapUnchanged
  <2>2. CASE rawblock' \in {rawblock, rawblock + 1} /\ CountError
    BY <1>16, <2>2 DEF ReapNoForkNoChild, ReapUnchanged, CountError, ParentExits
  <2> QED
    BY <1>16, <2>1, <2>2 DEF ReapNoForkNoChild
<1>17. CASE ReapNoForkAssert
  BY <1>17 DEF ReapNoForkAssert
<1>18. CASE WatchdogReads
  BY <1>18 DEF WatchdogReads, WdtUnchanged
<1>19. CASE WatchdogFires
  BY <1>19 DEF WatchdogFires, WdtUnchanged
<1>20. CASE WatchdogAtEOF
  BY <1>20 DEF WatchdogAtEOF, WdtUnchanged, Writers
<1>21. CASE UNCHANGED vars
  BY <1>21 DEF vars
<1> QED
  BY <1>2, <1>3, <1>4, <1>5, <1>6, <1>7, <1>8, <1>9, <1>10, <1>11,
     <1>12, <1>13, <1>14, <1>15, <1>16, <1>17, <1>18, <1>19, <1>20, <1>21
  DEF Next, Parent, Feed, Worker, WatchdogStep

\* A file is in the tree before its worker removes it.
LEMMA ControlStep ==
    TypeInv /\ ControlInv /\ NoDataLoss /\ [Next]_vars => ControlInv' /\ NoDataLoss'
<1> SUFFICES ASSUME TypeInv, ControlInv, NoDataLoss, [Next]_vars PROVE ControlInv' /\ NoDataLoss'
  OBVIOUS
<1> USE ControllerAssumption DEF TypeInv, ControlInv, NoDataLoss, Ended, Running, feed, work
<1>1. CASE GetDef
  BY <1>1 DEF GetDef, Alarm
<1>2. CASE ReadFile
  BY <1>2 DEF ReadFile, Alarm
<1>3. CASE ReadComment
  BY <1>3 DEF ReadComment
<1>4. CASE EndOfFeed
  BY <1>4 DEF EndOfFeed, ParentExits
<1>5. CASE Unreadable
  BY <1>5 DEF Unreadable
<1>6. CASE Fork
  BY <1>6 DEF Fork
<1>7. CASE ForkFails
  BY <1>7 DEF ForkFails
<1>8. CASE Stores
  BY <1>8 DEF Stores, WorkerUnchanged
<1>9. CASE Unlinks
  BY <1>9 DEF Unlinks, WorkerUnchanged
<1>10. CASE WorkerSucceeds
  BY <1>10 DEF WorkerSucceeds, WorkerExits, WorkerUnchanged
<1>11. CASE WorkerFails
  BY <1>11 DEF WorkerFails, WorkerExits, WorkerUnchanged
<1>12. CASE WorkerKilled
  BY <1>12 DEF WorkerKilled, WorkerUnchanged
<1>13. CASE ReapSuccess
  BY <1>13 DEF ReapSuccess, ReapUnchanged
<1>14. CASE ReapFailure
  BY <1>14 DEF ReapFailure, ReapUnchanged, CountError, ParentExits
<1>15. CASE ReapNoForkNoChild
  BY <1>15 DEF ReapNoForkNoChild, ReapUnchanged, CountError, ParentExits
<1>16. CASE ReapNoForkAssert
  BY <1>16 DEF ReapNoForkAssert
<1>17. CASE WatchdogReads
  BY <1>17 DEF WatchdogReads, WdtUnchanged
<1>18. CASE WatchdogFires
  BY <1>18 DEF WatchdogFires, WdtUnchanged
<1>19. CASE WatchdogAtEOF
  BY <1>19 DEF WatchdogAtEOF, WdtUnchanged, Writers
<1>20. CASE UNCHANGED vars
  BY <1>20 DEF vars
<1> QED
  BY <1>1, <1>2, <1>3, <1>4, <1>5, <1>6, <1>7, <1>8, <1>9, <1>10,
     <1>11, <1>12, <1>13, <1>14, <1>15, <1>16, <1>17, <1>18, <1>19, <1>20
  DEF Next, Parent, Feed, Worker, WatchdogStep

-----------------------------------------------------------------------------
\* Parity of the number of commands in the buffer.
LEMMA Parity ==
    /\ \A n \in Nat : n % 2 = 0 => (n + 1) % 2 = 1
    /\ \A n \in Nat : n % 2 = 1 => (n + 1) % 2 = 0
OBVIOUS

\* Commands put behind others leave a disable in front.
LEMMA DisableFirstAppend ==
    ASSUME NEW s \in Seq(Command), NEW c \in Command, DisableFirst(s), s # <<>> \/ c = 0
    PROVE  /\ DisableFirst(Append(s, c)) /\ Append(s, c) # <<>>
           /\ Len(Append(s, c)) = Len(s) + 1 /\ Len(s) \in Nat
<1>1. /\ Append(s, c) \in Seq(Command) /\ Append(s, c) # <<>>
      /\ Len(Append(s, c)) = Len(s) + 1 /\ Len(s) \in Nat
      /\ \A i \in 1 .. Len(s) : Append(s, c)[i] = s[i]
      /\ Append(s, c)[Len(s) + 1] = c
  BY AppendProperties, LenProperties
<1>2. CASE s = <<>>
  BY <1>1, <1>2, EmptySeq DEF DisableFirst
<1>3. CASE s # <<>>
  BY <1>1, <1>3, EmptySeq DEF DisableFirst
<1> QED
  BY <1>1, <1>2, <1>3

LEMMA DisableFirstConcat ==
    ASSUME NEW s \in Seq(Command), NEW t \in Seq(Command), DisableFirst(s), DisableFirst(t)
    PROVE  DisableFirst(s \o t) /\ (s \o t = <<>> => s = <<>>)
<1>1. /\ Len(s) \in Nat /\ Len(t) \in Nat /\ Len(s \o t) = Len(s) + Len(t)
      /\ \A i \in 1 .. Len(s) + Len(t) :
            (s \o t)[i] = IF i <= Len(s) THEN s[i] ELSE t[i - Len(s)]
      /\ s \o t \in Seq(Command)
  BY ConcatProperties, LenProperties
<1>2. CASE s = <<>>
  <2>1. s \o t = t
    BY <1>2, ConcatEmptySeq
  <2> QED
    BY <1>2, <2>1
<1>3. CASE s # <<>>
  <2>1. Len(s) > 0 /\ s[1] = 0
    BY <1>1, <1>3, EmptySeq DEF DisableFirst
  <2>2. (s \o t)[1] = 0
    BY <1>1, <2>1
  <2>3. s \o t # <<>>
    BY <1>1, <2>1, EmptySeq
  <2> QED
    BY <2>2, <2>3 DEF DisableFirst
<1> QED
  BY <1>2, <1>3

\* set_alarm() with the watchdog in use: what goes to the pipe and what stays
\* behind begins with a disable, unless a buffer that is full is not due one.
LEMMA AlarmCommands ==
    ASSUME TypeInv, NEW c \in Command, SetAlarm(c), DisableFirst(outbuf), DisableFirst(pipe),
           c = 0 \/ (outbuf # <<>> /\ ~ Overflows)
    PROVE  /\ DisableFirst(outbuf') /\ DisableFirst(pipe')
           /\ pipe' = <<>> => pipe = <<>>
<1>1. outbuf \in Seq(Command) /\ pipe \in Seq(Command)
  BY DEF TypeInv, WatchdogTypeInv
<1>2. outbuf' = (IF Overflows THEN <<c>> ELSE Append(outbuf, c))
  BY DEF SetAlarm
<1>3. pipe' = pipe \/ pipe' = pipe \o outbuf
  BY Zenon DEF SetAlarm
<1>4. DisableFirst(outbuf')
  <2>1. CASE Overflows
    BY <1>2, <2>1 DEF DisableFirst
  <2>2. CASE ~ Overflows
    BY <1>1, <1>2, <2>2, DisableFirstAppend, Zenon
  <2> QED
    BY <2>1, <2>2
<1>5. DisableFirst(pipe') /\ (pipe' = <<>> => pipe = <<>>)
  BY <1>1, <1>3, DisableFirstConcat, Zenon
<1> QED
  BY <1>4, <1>5

\* Its length: one more, or one after the buffer has been written out.
LEMMA AlarmLength ==
    ASSUME TypeInv, NEW c \in Command, SetAlarm(c)
    PROVE  /\ outbuf' # <<>>
           /\ Len(outbuf') \in Nat /\ Len(outbuf) \in Nat
           /\ ~ Overflows => Len(outbuf') = Len(outbuf) + 1
           /\ Overflows => Len(outbuf') = 1 /\ Len(outbuf) % 2 = 0
<1>1. outbuf \in Seq(Command)
  BY DEF TypeInv, WatchdogTypeInv
<1>2. /\ Append(outbuf, c) # <<>> /\ Len(outbuf) \in Nat
      /\ Len(Append(outbuf, c)) = Len(outbuf) + 1
  BY <1>1, AppendProperties, LenProperties
<1>3. <<c>> # <<>> /\ Len(<<c>>) = 1
  OBVIOUS
<1>4. Overflows => outbuf' = <<c>> /\ Len(outbuf) % 2 = 0
  BY BufCapAssumption DEF SetAlarm, Overflows
<1>5. ~ Overflows => outbuf' = Append(outbuf, c)
  BY DEF SetAlarm
<1>6. CASE Overflows
  BY <1>2, <1>3, <1>4, <1>6, Zenon
<1>7. CASE ~ Overflows
  <2>1. Len(outbuf') = Len(outbuf) + 1 /\ outbuf' # <<>>
    BY <1>2, <1>5, <1>7, Zenon
  <2>2. Len(outbuf') \in Nat
    BY <1>2, <2>1
  <2> QED
    BY <1>2, <1>7, <2>1, <2>2, Zenon
<1> QED
  BY <1>6, <1>7

\* While wdt reads all there is: until a full buffer has been written out,
\* nothing kills the controller, and without comments the watchdog never does.
LEMMA AlarmStep ==
    TypeInv /\ OutbufInv /\ DisabledInv /\ FiredInv /\ NoFalseKill /\ [Next]_vars
        => OutbufInv' /\ DisabledInv' /\ FiredInv' /\ NoFalseKill'
<1> SUFFICES ASSUME TypeInv, OutbufInv, DisabledInv, FiredInv, NoFalseKill, [Next]_vars
             PROVE  OutbufInv' /\ DisabledInv' /\ FiredInv' /\ NoFalseKill'
  OBVIOUS
<1>1. /\ 0 \in Command /\ 1 \in Command /\ timeout_set \in BOOLEAN /\ first_time \in BOOLEAN
      /\ enabled \in BOOLEAN /\ negative \in BOOLEAN
      /\ wdt \in {"none", "running", "fired", "ended"}
  BY DEF TypeInv, WatchdogTypeInv, Command
<1>s. /\ outbuf \in Seq(Command) /\ pipe \in Seq(Command) /\ childbuf \in Seq(Command)
      /\ wbuf \in Seq(Command)
  BY DEF TypeInv, WatchdogTypeInv
<1>e. DisableFirst(<<>>) /\ Len(<<>>) % 2 = 0
  BY DEF DisableFirst
\* GetDef, ReadFile and ReadComment.
<1>2. ASSUME NEW c \in Command, timeout_set, SetAlarm(c), UNCHANGED childbuf,
             NEW next \in {"fgets", "fork"},
             pc' = IF Overflows /\ Broken THEN "killed" ELSE next,
             pc \in {"getdef", "fgets"}, pc = "getdef" => ~ first_time,
             c = 1 => pc = "getdef", oddities \subseteq oddities',
             Overflows => "overflow" \in oddities'
      PROVE  /\ DisabledInv'
             /\ Overflows /\ "comment" \notin oddities' => pc = "fgets"
             /\ FiredInv' /\ NoFalseKill'
  <2>1. UNCHANGED <<enabled, negative>> /\ wdt' # "none" /\ (wdt # "none" => wdt' = wdt)
    BY <1>2, <1>1 DEF SetAlarm
  <2>2. Overflows /\ "comment" \notin oddities' => pc = "fgets"
    BY <1>2, AlarmLength DEF OutbufInv
  <2>3. ASSUME InStep'
        PROVE  /\ DisableFirst(outbuf') /\ DisableFirst(childbuf') /\ DisableFirst(pipe')
               /\ Running' /\ pipe' = <<>> => ~ enabled'
    <3>1. InStep
      BY <1>2, <2>3 DEF InStep
    <3>2. c = 0 \/ (outbuf # <<>> /\ ~ Overflows)
      BY <1>2, <2>2, <2>3 DEF InStep, OutbufInv, Command
    <3>3. DisableFirst(outbuf') /\ DisableFirst(pipe') /\ (pipe' = <<>> => pipe = <<>>)
      BY <1>2, <3>1, <3>2, AlarmCommands DEF DisabledInv
    <3>4. Running
      BY <1>2 DEF Running
    <3> QED
      BY <1>2, <2>1, <3>1, <3>3, <3>4 DEF DisabledInv
  <2>4. wdt # "fired" /\ wdt' # "fired"
    BY <1>2, <1>1, <2>1, Zenon DEF FiredInv, Running, SetAlarm
  <2>5. pc' = "killed" => Overflows /\ Broken
    BY <1>2
  <2>6. FiredInv' /\ NoFalseKill'
    BY <1>2, <2>1, <2>4, <2>5 DEF FiredInv, NoFalseKill, Broken
  <2>7. DisabledInv'
    BY <2>1, <2>3 DEF DisabledInv
  <2> QED
    BY <2>2, <2>6, <2>7
\* What exit() flushes begins with a disable.
<1>3. ASSUME NEW cmds \in Seq(Command), FlushAtExit(cmds), DisableFirst(pipe), DisableFirst(cmds)
      PROVE  DisableFirst(pipe') /\ (pipe' = <<>> => pipe = <<>>)
  <2>1. pipe' = pipe \/ pipe' = pipe \o cmds
    BY <1>3, Zenon DEF FlushAtExit
  <2> QED
    BY <1>3, <1>s, <2>1, DisableFirstConcat, Zenon
<1>4. ASSUME ParentExits, UNCHANGED <<oddities, timeout_set, first_time>>,
             childbuf' \in {childbuf, <<>>}, pc \in {"fgets", "wait"}
      PROVE  OutbufInv' /\ DisabledInv' /\ FiredInv' /\ NoFalseKill'
  <2>1. InStep' => InStep
    BY <1>4 DEF InStep
  <2>2. InStep => DisableFirst(pipe') /\ DisableFirst(outbuf') /\ DisableFirst(childbuf')
    BY <1>3, <1>4, <1>s, <1>e DEF ParentExits, DisabledInv
  <2>3. pc' = "exited" /\ UNCHANGED <<enabled, wdt, negative>> /\ outbuf' = <<>>
    BY <1>4 DEF ParentExits
  <2> QED
    BY <1>4, <1>1, <2>1, <2>2, <2>3
       DEF OutbufInv, DisabledInv, FiredInv, NoFalseKill, Running, Broken
<1> USE <1>1
    DEF OutbufInv, DisabledInv, FiredInv, NoFalseKill, InStep, Running, Broken,
        channel, feed, work
<1>5. CASE GetDef
  <2>1. CASE first_time \/ ~ timeout_set
    <3>1. /\ UNCHANGED <<outbuf, pipe, enabled, wdt, negative, timeout_set, childbuf, oddities>>
          /\ pc' = "fgets" /\ pc = "getdef" /\ first_time' = FALSE
      BY <1>5, <2>1 DEF GetDef, Alarm
    <3>2. first_time => Len(outbuf) % 2 = 0
      BY <1>5, <1>e
    <3> QED
      BY <2>1, <3>1, <3>2
  <2>2. CASE ~ first_time /\ timeout_set
    <3>1. /\ SetAlarm(1) /\ UNCHANGED <<childbuf, timeout_set>> /\ pc = "getdef" /\ ~ first_time'
          /\ pc' = IF Overflows /\ Broken THEN "killed" ELSE "fgets"
          /\ oddities \subseteq oddities' /\ (Overflows => "overflow" \in oddities')
      BY <1>5, <2>2 DEF GetDef, Alarm
    <3>2. /\ DisabledInv' /\ FiredInv' /\ NoFalseKill'
          /\ Overflows /\ "comment" \notin oddities' => pc = "fgets"
      BY <2>2, <3>1, <1>2
    <3>3. OutbufInv'
      BY <2>2, <3>1, <3>2, AlarmLength, Parity
    <3> QED
      BY <3>2, <3>3
  <2> QED
    BY <2>1, <2>2
<1>6. CASE ReadFile
  <2>1. CASE ~ timeout_set
    <3>1. /\ UNCHANGED <<outbuf, pipe, enabled, wdt, negative, timeout_set, first_time, childbuf>>
          /\ oddities \subseteq oddities' /\ pc = "fgets" /\ pc' = "fork"
      BY <1>6, <2>1 DEF ReadFile, Alarm
    <3> QED
      BY <2>1, <3>1
  <2>2. CASE timeout_set
    <3>1. /\ SetAlarm(0) /\ UNCHANGED <<childbuf, timeout_set>> /\ pc = "fgets"
          /\ first_time' = first_time
          /\ pc' = IF Overflows /\ Broken THEN "killed" ELSE "fork"
          /\ oddities \subseteq oddities' /\ (Overflows => "overflow" \in oddities')
      BY <1>6, <2>2 DEF ReadFile, Alarm
    <3>2. DisabledInv' /\ FiredInv' /\ NoFalseKill'
      BY <2>2, <3>1, <1>2
    <3>3. /\ outbuf' # <<>> /\ Len(outbuf) \in Nat
          /\ Len(outbuf') = Len(outbuf) + 1 \/ Len(outbuf') = 1
      BY <3>1, AlarmLength
    <3>4. "comment" \notin oddities => Len(outbuf') % 2 = 1
      <4>1. "comment" \notin oddities => Len(outbuf) % 2 = 0
        BY <2>2, <3>1
      <4>2. 1 % 2 = 1
        OBVIOUS
      <4> QED
        BY <3>3, <4>1, <4>2, Parity, Zenon
    <3>5. ~ first_time
      BY <3>1
    <3>6. OutbufInv'
      BY <3>1, <3>3, <3>4, <3>5
    <3> QED
      BY <3>2, <3>6
  <2> QED
    BY <2>1, <2>2
<1>7. CASE ReadComment
  <2>1. CASE ~ timeout_set
    <3>1. /\ UNCHANGED <<outbuf, pipe, enabled, wdt, negative, timeout_set, first_time, childbuf>>
          /\ oddities \subseteq oddities' /\ pc = "fgets" /\ pc' = "fgets"
      BY <1>7, <2>1 DEF ReadComment
    <3> QED
      BY <2>1, <3>1
  <2>2. CASE timeout_set
    <3>1. /\ SetAlarm(0) /\ UNCHANGED <<childbuf, timeout_set>> /\ pc = "fgets"
          /\ first_time' = first_time
          /\ pc' = IF Overflows /\ Broken THEN "killed" ELSE "fgets"
          /\ oddities \subseteq oddities' /\ (Overflows => "overflow" \in oddities')
          /\ "comment" \in oddities'
      BY <1>7, <2>2 DEF ReadComment
    <3>2. DisabledInv' /\ FiredInv' /\ NoFalseKill'
      BY <2>2, <3>1, <1>2
    <3>3. OutbufInv'
      BY <2>2, <3>1
    <3> QED
      BY <3>2, <3>3
  <2> QED
    BY <2>1, <2>2
<1>8. CASE EndOfFeed
  BY <1>8, <1>4 DEF EndOfFeed
<1>9. CASE Unreadable
  <2>1. CASE ~ timeout_set
    BY <1>9, <2>1 DEF Unreadable
  <2>2. CASE timeout_set
    <3>1. /\ outbuf' = <<>>
          /\ UNCHANGED <<wbuf, enabled, negative, first_time, timeout_set, childbuf, oddities>>
          /\ pc' = "exited" /\ pc = "fgets"
      BY <1>9, <2>2 DEF Unreadable
    <3>2. (wdt' = wdt \/ wdt' = "running") /\ (wdt # "none" => wdt' = wdt)
      BY <1>9, <2>2, Zenon DEF Unreadable
    <3>3. pipe' = pipe \/ pipe' = pipe \o Append(outbuf, 0)
      BY <1>9, <2>2, Zenon DEF Unreadable
    <3>4. InStep => DisableFirst(Append(outbuf, 0)) /\ Append(outbuf, 0) \in Seq(Command)
      BY <1>s, DisableFirstAppend, AppendProperties
    <3>5. InStep => DisableFirst(pipe')
      BY <1>s, <3>3, <3>4, DisableFirstConcat, Zenon
    <3> QED
      BY <3>1, <3>2, <3>5, <1>e
  <2> QED
    BY <2>1, <2>2
<1>10. CASE Fork
  BY <1>10 DEF Fork
<1>11. CASE ForkFails
  BY <1>11 DEF ForkFails
<1>12. CASE Stores
  BY <1>12 DEF Stores, WorkerUnchanged
<1>13. CASE Unlinks
  BY <1>13 DEF Unlinks, WorkerUnchanged
<1>14. ASSUME NEW from, NEW status, WorkerExits(from, status)
       PROVE  OutbufInv' /\ DisabledInv' /\ FiredInv' /\ NoFalseKill'
  <2>1. FlushAtExit(childbuf) /\ UNCHANGED <<outbuf, wbuf, enabled, wdt, negative, childbuf>>
        /\ UNCHANGED <<pc, timeout_set, first_time, oddities>>
    BY <1>14 DEF WorkerExits, WorkerUnchanged
  <2>2. InStep => DisableFirst(pipe') /\ (pipe' = <<>> => pipe = <<>>)
    BY <1>3, <1>s, <2>1
  <2> QED
    BY <2>1, <2>2
<1>15. CASE WorkerSucceeds
  BY <1>15, <1>14 DEF WorkerSucceeds
<1>16. CASE WorkerFails
  BY <1>16, <1>14 DEF WorkerFails
<1>17. CASE WorkerKilled
  BY <1>17 DEF WorkerKilled, WorkerUnchanged
<1>18. CASE ReapSuccess
  BY <1>18, <1>e DEF ReapSuccess, ReapUnchanged
<1>19. CASE ReapFailure
  <2>1. CASE ParentExits
    BY <1>19, <2>1, <1>4 DEF ReapFailure, ReapUnchanged, CountError
  <2>2. CASE pc' = "getdef" /\ UNCHANGED channel
    BY <1>19, <2>2, <1>e DEF ReapFailure, ReapUnchanged, CountError
  <2> QED
    BY <1>19, <2>1, <2>2 DEF ReapFailure, CountError
<1>20. CASE ReapNoForkNoChild
  <2>1. CASE ParentExits /\ childbuf' = <<>>
    BY <1>20, <2>1, <1>4 DEF ReapNoForkNoChild, ReapUnchanged
  <2>2. CASE pc' = "getdef" /\ UNCHANGED channel /\ childbuf' = <<>>
    BY <1>20, <2>2, <1>e DEF ReapNoForkNoChild, ReapUnchanged
  <2> QED
    BY <1>20, <2>1, <2>2 DEF ReapNoForkNoChild, CountError
<1>21. CASE ReapNoForkAssert
  BY <1>21 DEF ReapNoForkAssert
<1>22. CASE WatchdogReads
  <2>1. wdt = "running" /\ pipe # <<>> /\ UNCHANGED <<outbuf, negative>>
        /\ UNCHANGED <<pc, timeout_set, first_time, childbuf>>
        /\ oddities' = oddities \cup (IF Backlog THEN {"backlog"} ELSE {})
    BY <1>22 DEF WatchdogReads, WdtReads, WdtUnchanged
  <2>2. wdt' \in {"running", "ended"} /\ (negative => UNCHANGED enabled)
    BY <1>22 DEF WatchdogReads, WdtReads, Returned
  <2>3. CASE wbuf = <<>>
    <3> DEFINE n == IF Len(pipe) > BufCap THEN BufCap ELSE Len(pipe)
               lines == SubSeq(pipe, 1, n)
    <3>1. /\ pipe' = SubSeq(pipe, n + 1, Len(pipe))
          /\ ~ negative => enabled' = (Head(lines) = 1)
      BY <1>22, <2>3 DEF WatchdogReads, WdtReads, Backlog, Returned
    <3>2. n \in Nat
      BY <1>s, LenProperties, BufCapAssumption
    <3>3. /\ Head(lines) = pipe[1]
          /\ Len(pipe) <= BufCap => SubSeq(pipe, n + 1, Len(pipe)) = <<>>
      BY <2>1, <3>2, ReadPipe, Zenon DEF TypeInv
    <3> HIDE DEF n, lines
    <3>4. ASSUME InStep'
          PROVE  InStep /\ pipe' = <<>> /\ ~ enabled'
      <4>1. InStep /\ Len(pipe) <= BufCap
        BY <1>s, <2>1, <2>3, <3>4, LenProperties, BufCapAssumption DEF Backlog
      <4>2. pipe[1] = 0
        BY <2>1, <4>1 DEF DisableFirst
      <4> QED
        BY <2>2, <3>1, <3>3, <4>1, <4>2
    <3>5. "backlog" \notin oddities' => "backlog" \notin oddities
      BY <2>1
    <3>6. OutbufInv'
      BY <2>1
    <3>7. DisabledInv'
      <4>1. negative' => ~ enabled'
        BY <2>1, <2>2
      <4>2. ASSUME InStep'
            PROVE  /\ DisableFirst(outbuf') /\ DisableFirst(childbuf') /\ DisableFirst(pipe')
                   /\ ~ enabled'
        <5>1. DisableFirst(outbuf) /\ DisableFirst(childbuf)
          BY <3>4, <4>2
        <5>2. DisableFirst(pipe') /\ ~ enabled'
          BY <3>4, <4>2, <1>e
        <5> QED
          BY <2>1, <5>1, <5>2
      <4> QED
        BY <4>1, <4>2
    <3> QED
      BY <2>1, <2>2, <3>5, <3>6, <3>7
  <2>4. CASE wbuf # <<>>
    <3>1. UNCHANGED <<pipe, oddities>>
      BY <1>22, <2>1, <2>4 DEF WatchdogReads, WdtReads, Backlog
    <3> QED
      BY <2>1, <2>2, <3>1
  <2> QED
    BY <2>3, <2>4
<1>23. CASE WatchdogFires
  BY <1>23 DEF WatchdogFires, WdtTimesOut, WdtUnchanged
<1>24. CASE WatchdogAtEOF
  <2>1. wdt' \in {"running", "ended"} /\ wdt = "running" /\ (negative => UNCHANGED enabled)
        /\ UNCHANGED <<outbuf, pipe, negative, pc, timeout_set, first_time, childbuf, oddities>>
        /\ ~ Running
    BY <1>24 DEF WatchdogAtEOF, WdtAtEOF, Returned, WdtUnchanged, Writers
  <2> QED
    BY <2>1
<1>25. CASE UNCHANGED vars
  BY <1>25 DEF vars
<1> QED
  BY <1>5, <1>6, <1>7, <1>8, <1>9, <1>10, <1>11, <1>12, <1>13, <1>15, <1>16, <1>17,
     <1>18, <1>19, <1>20, <1>21, <1>22, <1>23, <1>24, <1>25
  DEF Next, Parent, Feed, Worker, WatchdogStep

-----------------------------------------------------------------------------
\* The invariants together: they hold at the start ...
LEMMA InitIInv == Init => IInv
<1> SUFFICES ASSUME Init PROVE IInv
  OBVIOUS
<1>1. outbuf = <<>> /\ Len(outbuf) = 0 /\ wbuf = <<>> /\ Len(wbuf) = 0 /\ <<>> \in Seq(Command)
  BY DEF Init, WatchdogInit
<1> USE ControllerAssumption, BufCapAssumption DEF Init, WatchdogInit, feed, work
<1>2. TypeInv
  <2>1. WatchdogTypeInv
    <3>1. outbuf \in Seq(Command) /\ pipe \in Seq(Command) /\ wbuf \in Seq(Command)
      BY <1>1
    <3>2. Len(outbuf) <= BufCap /\ Len(wbuf) < BufCap
      BY <1>1
    <3> QED
      BY <3>1, <3>2 DEF WatchdogTypeInv
  <2>2. childbuf \in Seq(Command)
    BY <1>1
  <2> QED
    BY <2>1, <2>2 DEF TypeInv, Command, Ended
<1>3. NoDataLoss /\ NoFalseKill /\ ControlInv /\ FiredInv
  BY DEF NoDataLoss, NoFalseKill, ControlInv, FiredInv, Running, Broken
<1>4. OutbufInv /\ DisabledInv
  BY DEF OutbufInv, DisabledInv, DisableFirst
<1> QED
  BY <1>2, <1>3, <1>4 DEF IInv

\* ... and every step keeps them.
LEMMA NextIInv == IInv /\ [Next]_vars => IInv'
BY TypeStep, ControlStep, AlarmStep DEF IInv

\* In every behaviour of runArgs(), its worker and wdt.
THEOREM Invariance == Spec => []IInv
BY InitIInv, NextIInv, PTL DEF Spec

\* The controller, the worker, the buffers and the pipe hold what their types
\* say: the file counters never pass the lines read, consecutive_child_errors
\* never passes the limit by more than one.
THEOREM TypeCorrect == Spec => []TypeInv
<1>1. IInv => TypeInv
  BY DEF IInv
<1> QED
  BY <1>1, Invariance, PTL

\* unlink() of a raw file comes after dump() has stored it, whatever kills
\* the worker or the controller.
THEOREM NoFileLost == Spec => []NoDataLoss
<1>1. IInv => NoDataLoss
  BY DEF IInv
<1> QED
  BY <1>1, Invariance, PTL

\* set_alarm() never flushes, yet wdt, acting on commands that are late, kills
\* no controller at work as long as none of its reads leaves commands in the
\* pipe: not before a full stdio buffer has been written out, and not at all
\* while the feed has no comment line.
THEOREM NoControllerKilled == Spec => []NoFalseKill
<1>1. IInv => NoFalseKill
  BY DEF IInv
<1> QED
  BY <1>1, Invariance, PTL
=============================================================================
