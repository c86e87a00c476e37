--------------------------- MODULE SessionProofs ---------------------------
(***************************************************************************)
(* Theorems about the command sessions of Dt100Session and KddSession and  *)
(* the calls of Acq2xxVolts over them, in every program of CardPrograms:   *)
(* for every length of buffers and replies, every error code and every     *)
(* number of commands.                                                     *)
(***************************************************************************)
EXTENDS CardPrograms, SequenceTheorems, WellFoundedInduction, TLAPS

-----------------------------------------------------------------------------
\* The steps of a session, by themselves.

\* A signal ends the read() of a command.
GivenUp ==
    /\ transport = "dt100" /\ sock = "reading"
    /\ rc' = -1
    /\ sock' = "idle"
    /\ overruns' = overruns + 1
    /\ UNCHANGED <<net, rxbuf, sent, code, output, leftover, closed, response, kdd>>

SessionNext ==
    \/ transport = "dt100" /\ Send /\ UNCHANGED kdd
    \/ SendLine("cmd") \/ SendLine("shell")
    \/ Read /\ UNCHANGED kdd
    \/ ReadLine
    \/ Closes
    \/ GivenUp

sessions == <<session, kdd>>

\* A step of a program is one of its session, or leaves the session alone.
LEMMA ProgramStep == [ProgramsNext]_everything => [SessionNext]_sessions
<1> USE DEF sessions
<1>1. ASSUME NEW what, Ask(what) PROVE SessionNext
  BY <1>1 DEF Ask, SessionNext
<1>2. ASSUME Transport PROVE SessionNext
  BY <1>2 DEF Transport, Receives, SessionNext
<1>3. CASE UNCHANGED vars
  BY <1>3 DEF vars
<1>4. CASE CardNext
  <2>1. CASE CardRuns \/ SomebodyArms
    BY <2>1, <1>3 DEF CardRuns, SomebodyArms
  <2>2. CASE Library
    <3>1. CASE Call
      BY <3>1, <1>1 DEF Call, CallVolts, CallOther
    <3>2. CASE Reply
      BY <3>2, <1>1 DEF Reply, OtherReply, ChannelsReply, RangesReply, Data, Fails
    <3> QED
      BY <2>2, <3>1, <3>2 DEF Library
  <2>3. CASE Transport
    BY <2>3, <1>2
  <2>4. CASE TestCalls
    BY <2>4, <1>1 DEF TestCalls, Command
  <2>5. CASE TestReply
    BY <2>5 DEF TestReply
  <2>6. CASE Interrupt
    <3>1. CASE ReadInterrupted
      BY <3>1 DEF ReadInterrupted, GivenUp, SessionNext, ReadLine
    <3> QED
      BY <2>6, <3>1, <1>3 DEF Interrupt
  <2>7. CASE Poll
    BY <2>7, <1>1, <1>3 DEF Poll, PollCalls, PollReply, PollEnds, OpenStat, ReadStat,
       NoStateChange, Command
  <2>8. CASE StatEnds
    BY <2>8, <1>3 DEF StatEnds
  <2>9. CASE ShellCommand \/ ShellComment \/ ShellReply \/ ShellEnds
    BY <2>9, <1>1, <1>3 DEF ShellCommand, ShellComment, ShellReply, ShellEnds
  <2> QED
    BY <1>4, <2>1, <2>2, <2>3, <2>4, <2>5, <2>6, <2>7, <2>8, <2>9 DEF CardNext
<1>5. CASE UNCHANGED everything
  BY <1>5, <1>3 DEF everything
<1> QED
  BY <1>3, <1>4, <1>5 DEF ProgramsNext

-----------------------------------------------------------------------------
\* Tokens and replies.

\* The output of a command is that many tokens of it.
LEMMA OutputTokens ==
    ASSUME NEW n \in Nat, NEW len \in Nat
    PROVE  /\ Output(n, len) \in Seq(Token) /\ Len(Output(n, len)) = len
           /\ \A i \in 1 .. len :
                Output(n, len)[i] = [kind |-> "output", cmd |-> n, val |-> i]
<1> DEFINE s == Output(n, len)
<1>1. s \in [1 .. len -> Token]
  BY DEF Output, Token
<1>2. s \in Seq(Token)
  BY <1>1, SeqDef
<1>3. Len(s) \in Nat /\ DOMAIN s = 1 .. Len(s) /\ DOMAIN s = 1 .. len
  BY <1>1, <1>2, LenProperties
<1>4. Len(s) = len
  <2> HIDE DEF s
  <2> DEFINE m == Len(s)
  <2>1. m \in Nat /\ 1 .. m = 1 .. len
    BY <1>3, Zenon
  <2> HIDE DEF m
  <2>2. m = len
    BY <2>1
  <2> QED
    BY <2>2 DEF m
<1> QED
  BY <1>2, <1>4 DEF Output

\* A code of no more than two digits has a first one.
LEMMA FirstDigitOfCode ==
    ASSUME NEW ecode \in 0 .. 99
    PROVE  /\ FirstDigit(ecode) \in Nat
           /\ FirstDigit(ecode) > 0 => ecode > 0
           /\ ecode < 10 => FirstDigit(ecode) = ecode
BY DEF FirstDigit

\* The two numbers of a trailer take two or three tokens.
NumberTokens(ecode) == IF ecode < 10 THEN 2 ELSE 3

\* The trailer is EOF and the two numbers of its command.
LEMMA TrailerTokens ==
    ASSUME NEW n \in Nat, NEW ecode \in 0 .. 99
    PROVE  LET t == Trailer(n, ecode)
           IN  /\ t \in Seq(Token) /\ Len(t) = 1 + NumberTokens(ecode)
               /\ t[1] = [kind |-> "EOF", cmd |-> n, val |-> 0]
               /\ t[2] = [kind |-> "cnum", cmd |-> n, val |-> n]
               /\ t[3] = [kind |-> "ecode", cmd |-> n, val |-> FirstDigit(ecode)]
               /\ ecode >= 10 => t[4] = [kind |-> "digit", cmd |-> n, val |-> ecode]
<1> DEFINE a == << [kind |-> "EOF", cmd |-> n, val |-> 0],
                   [kind |-> "cnum", cmd |-> n, val |-> n],
                   [kind |-> "ecode", cmd |-> n, val |-> FirstDigit(ecode)] >>
           d == [kind |-> "digit", cmd |-> n, val |-> ecode]
<1>1. FirstDigit(ecode) \in Nat /\ ecode \in Nat
  BY FirstDigitOfCode
<1>2. a \in Seq(Token) /\ Len(a) = 3 /\ d \in Token
  BY <1>1 DEF Token, TrailerNumbers
<1>3. CASE ecode < 10
  <2>1. Trailer(n, ecode) = a \o <<>>
    BY <1>3 DEF Trailer, LastDigit
  <2>2. Trailer(n, ecode) = a
    BY <1>2, <2>1, ConcatEmptySeq
  <2> QED
    BY <1>1, <1>2, <1>3, <2>2 DEF NumberTokens
<1>4. CASE ~ (ecode < 10)
  <2>1. Trailer(n, ecode) = a \o << d >>
    BY <1>4 DEF Trailer, LastDigit
  <2>2. Trailer(n, ecode) = Append(a, d)
    BY <1>2, <2>1
  <2> QED
    BY <1>1, <1>2, <1>4, <2>2, AppendProperties DEF NumberTokens
<1> QED
  BY <1>3, <1>4

\* An answer, and a reply, behind what was left of the one before.
Answer(l, n, len) == l \o Output(n, len)
WholeReply(l, n, len, ecode) == Answer(l, n, len) \o Trailer(n, ecode)

\* The word EOF is where the answer ends, and the two numbers follow.
ReplyHas(l, n, len, ecode) ==
    LET text == Answer(l, n, len)
        reply == WholeReply(l, n, len, ecode)
        eof == Len(l) + len + 1
    IN  /\ text \in Seq(Token) /\ reply \in Seq(Token)
        /\ Len(l) \in Nat /\ Len(text) = eof - 1 /\ Len(reply) = eof + NumberTokens(ecode)
        /\ \A i \in 1 .. Len(l) : reply[i] = l[i]
        /\ \A i \in Len(l) + 1 .. eof - 1 : reply[i].kind = "output"
        /\ \A i \in 1 .. eof - 1 : reply[i] = text[i]
        /\ reply[eof].kind = "EOF"
        /\ reply[eof + 1] = [kind |-> "cnum", cmd |-> n, val |-> n]
        /\ reply[eof + 2] = [kind |-> "ecode", cmd |-> n, val |-> FirstDigit(ecode)]
        /\ ecode >= 10 => reply[eof + 3] = [kind |-> "digit", cmd |-> n, val |-> ecode]

\* Where each token of a reply is.
LEMMA ReplyTokens ==
    ASSUME NEW l \in Seq(Token), NEW n \in Nat, NEW len \in Nat, NEW ecode \in 0 .. 99
    PROVE  ReplyHas(l, n, len, ecode)
<1> DEFINE o == Output(n, len)
           t == Trailer(n, ecode)
           word == [kind |-> "EOF", cmd |-> n, val |-> 0]
           cnum == [kind |-> "cnum", cmd |-> n, val |-> n]
           ec == [kind |-> "ecode", cmd |-> n, val |-> FirstDigit(ecode)]
           dg == [kind |-> "digit", cmd |-> n, val |-> ecode]
           w == NumberTokens(ecode)
<1>1. /\ o \in Seq(Token) /\ Len(o) = len
      /\ \A i \in 1 .. len : o[i] = [kind |-> "output", cmd |-> n, val |-> i]
  BY OutputTokens, Zenon
<1>2. /\ t \in Seq(Token) /\ Len(t) = 1 + w /\ t[1] = word /\ t[2] = cnum /\ t[3] = ec
      /\ ecode >= 10 => t[4] = dg
  BY TrailerTokens, Zenon
<1>14. w \in {2, 3} /\ (ecode >= 10 => w = 3)
  BY DEF NumberTokens
<1>3. \A i \in 1 .. len : o[i].kind = "output"
  <2> HIDE DEF o
  <2> QED
    BY <1>1
<1> HIDE DEF o, t, cnum, ec, dg, w
<1> DEFINE head == l \o o
<1>4. Len(l) \in Nat
  BY LenProperties
<1>5. /\ head \in Seq(Token) /\ Len(head) = Len(l) + len
      /\ \A i \in 1 .. Len(l) + len : head[i] = IF i <= Len(l) THEN l[i] ELSE o[i - Len(l)]
  BY <1>1, ConcatProperties, Zenon
<1> HIDE DEF head
<1> DEFINE s == head \o t
<1>6. /\ s \in Seq(Token) /\ Len(s) = Len(head) + (1 + w)
      /\ \A i \in 1 .. Len(head) + (1 + w) : s[i] = IF i <= Len(head) THEN head[i] ELSE t[i - Len(head)]
  <2>1. /\ s \in Seq(Token) /\ Len(s) = Len(head) + Len(t)
        /\ \A i \in 1 .. Len(head) + Len(t) :
             s[i] = IF i <= Len(head) THEN head[i] ELSE t[i - Len(head)]
    <3>1. head \in Seq(Token) /\ t \in Seq(Token)
      BY <1>2, <1>5
    <3> QED
      BY <3>1, ConcatProperties
  <2> HIDE DEF s
  <2> QED
    BY <1>2, <2>1
<1> HIDE DEF s
<1>7. \A i \in 1 .. Len(l) + len : s[i] = head[i]
  BY <1>4, <1>5, <1>6, <1>14
<1>8. \A i \in 1 .. Len(l) : s[i] = l[i]
  BY <1>4, <1>5, <1>7
<1>9. \A i \in Len(l) + 1 .. Len(l) + len : s[i].kind = "output"
  <2>1. ASSUME NEW i \in Len(l) + 1 .. Len(l) + len
        PROVE  s[i] = o[i - Len(l)] /\ i - Len(l) \in 1 .. len
    BY <1>4, <1>5, <1>7
  <2> QED
    BY <1>3, <2>1
<1>10. /\ s[Len(head) + 1] = t[1] /\ s[Len(head) + 2] = t[2] /\ s[Len(head) + 3] = t[3]
       /\ ecode >= 10 => s[Len(head) + 4] = t[4]
  <2> DEFINE h == Len(head)
  <2>1. h \in Nat /\ \A i \in 1 .. h + (1 + w) : s[i] = IF i <= h THEN head[i] ELSE t[i - h]
    BY <1>4, <1>5, <1>6
  <2> HIDE DEF h
  <2>2. ASSUME NEW k \in 1 .. 1 + w PROVE s[h + k] = t[k]
    <3>1. k \in Nat /\ h + k \in 1 .. h + (1 + w) /\ ~ (h + k <= h) /\ h + k - h = k
      BY <1>14, <2>1
    <3> QED
      BY <2>1, <3>1
  <2>3. 1 \in 1 .. 1 + w /\ 2 \in 1 .. 1 + w /\ 3 \in 1 .. 1 + w /\ (ecode >= 10 => 4 \in 1 .. 1 + w)
    BY <1>14
  <2> QED
    BY <2>2, <2>3 DEF h
<1> DEFINE p == Len(l) + len + 1
<1>11. Len(head) + 1 = p /\ Len(head) + 2 = p + 1 /\ Len(head) + 3 = p + 2 /\ Len(head) + 4 = p + 3
       /\ Len(head) = p - 1 /\ Len(l) + len = p - 1
  BY <1>4, <1>5
<1> HIDE DEF p
<1>12. s[p].kind = "EOF" /\ s[p + 1] = cnum /\ s[p + 2] = ec /\ (ecode >= 10 => s[p + 3] = dg)
  <2>1. word.kind = "EOF"
    OBVIOUS
  <2> HIDE DEF word
  <2> QED
    BY <1>2, <1>10, <1>11, <2>1
<1>13. /\ head \in Seq(Token) /\ s \in Seq(Token)
       /\ Len(l) \in Nat /\ Len(head) = p - 1 /\ Len(s) = p + w
       /\ \A i \in 1 .. Len(l) : s[i] = l[i]
       /\ \A i \in Len(l) + 1 .. p - 1 : s[i].kind = "output"
       /\ \A i \in 1 .. p - 1 : s[i] = head[i]
       /\ s[p].kind = "EOF" /\ s[p + 1] = cnum /\ s[p + 2] = ec
       /\ ecode >= 10 => s[p + 3] = dg
  <2>1. Len(s) = p + w
    BY <1>4, <1>5, <1>6, <1>11, <1>14
  <2>2. \A i \in Len(l) + 1 .. p - 1 : s[i].kind = "output"
    BY <1>9, <1>11
  <2>3. \A i \in 1 .. p - 1 : s[i] = head[i]
    BY <1>7, <1>11
  <2> QED
    BY <1>4, <1>5, <1>6, <1>8, <1>11, <1>12, <2>1, <2>2, <2>3
<1> QED
  BY <1>13, Zenon DEF ReplyHas, Answer, WholeReply, head, s, o, t, p, cnum, ec, dg, w
-----------------------------------------------------------------------------
\* Sequences that are taken apart and put together.

\* A sequence cut in two is the concatenation of its halves.
LEMMA Halves ==
    ASSUME NEW S, NEW a \in Seq(S), NEW b \in Seq(S)
    PROVE  /\ a \o b \in Seq(S)
           /\ Len(a) \in Nat /\ Len(b) \in Nat /\ Len(a \o b) = Len(a) + Len(b)
           /\ \A i \in 1 .. Len(a) : (a \o b)[i] = a[i]
           /\ \A j \in 1 .. Len(b) : (a \o b)[Len(a) + j] = b[j]
<1> DEFINE s == a \o b
           k == Len(a)
           m == Len(b)
<1>1. k \in Nat /\ m \in Nat
  BY LenProperties
<1>2. /\ s \in Seq(S) /\ Len(s) = k + m
      /\ \A i \in 1 .. k + m : s[i] = IF i <= k THEN a[i] ELSE b[i - k]
  BY ConcatProperties
<1> HIDE DEF s, k, m
<1>3. \A i \in 1 .. k : s[i] = a[i]
  BY <1>1, <1>2
<1>4. ASSUME NEW j \in 1 .. m PROVE s[k + j] = b[j]
  <2>1. k + j \in 1 .. k + m /\ ~ (k + j <= k) /\ (k + j) - k = j
    BY <1>1
  <2> QED
    BY <1>2, <2>1
<1>5. /\ s \in Seq(S) /\ k \in Nat /\ m \in Nat /\ Len(s) = k + m
      /\ (\A i \in 1 .. k : s[i] = a[i]) /\ (\A j \in 1 .. m : s[k + j] = b[j])
  BY <1>1, <1>2, <1>3, <1>4
<1> QED
  BY <1>5, Zenon DEF s, k, m

\* Concatenation is associative, in the form the provers take.
LEMMA Associative == \A S : \A r, s, t \in Seq(S) : (r \o s) \o t = r \o (s \o t)
BY ConcatAssociative

\* A chunk is moved from a stream to the end of a buffer: together they hold
\* what they held.
LEMMA ChunkTypes ==
    ASSUME NEW S, NEW a \in Seq(S), NEW b \in Seq(S), NEW k \in 1 .. Len(b)
    PROVE  /\ SubSeq(b, 1, k) \in Seq(S) /\ Len(SubSeq(b, 1, k)) = k
           /\ SubSeq(b, k + 1, Len(b)) \in Seq(S)
           /\ a \o SubSeq(b, 1, k) \in Seq(S)
           /\ Len(a \o SubSeq(b, 1, k)) = Len(a) + k
<1> DEFINE x == SubSeq(b, 1, k)
           y == SubSeq(b, k + 1, Len(b))
<1>1. Len(b) \in Nat /\ \A i \in 1 .. Len(b) : b[i] \in S
  BY LenProperties, ElementOfSeq
<1>2. 1 \in Int /\ k \in Int /\ \A i \in 1 .. k : b[i] \in S
  BY <1>1
<1>3. x \in Seq(S) /\ Len(x) = IF 1 <= k THEN k - 1 + 1 ELSE 0
  BY <1>2, SubSeqProperties
<1>4. k + 1 \in Int /\ Len(b) \in Int /\ \A i \in k + 1 .. Len(b) : b[i] \in S
  BY <1>1
<1>5. y \in Seq(S)
  BY <1>4, SubSeqProperties
<1>6. Len(x) = k
  BY <1>3
<1> HIDE DEF x, y
<1>7. a \o x \in Seq(S) /\ Len(a \o x) = Len(a) + k
  BY <1>3, <1>6, ConcatProperties
<1> QED
  BY <1>3, <1>5, <1>6, <1>7, Zenon DEF x, y

\* No token is lost, added or moved out of its place.
LEMMA ChunkMoved ==
    ASSUME NEW S, NEW a \in Seq(S), NEW b \in Seq(S), NEW k \in 1 .. Len(b)
    PROVE  (a \o SubSeq(b, 1, k)) \o SubSeq(b, k + 1, Len(b)) = a \o b
<1> DEFINE x == SubSeq(b, 1, k)
           y == SubSeq(b, k + 1, Len(b))
<1>1. x \in Seq(S) /\ y \in Seq(S)
  BY ChunkTypes, Zenon
<1>2. x \o y = b
  <2>1. Len(b) \in Nat
    BY LenProperties
  <2>2. 1 \in 1 .. Len(b) + 1 /\ k \in 1 - 1 .. Len(b) /\ Len(b) \in k .. Len(b)
    BY <2>1
  <2>3. x \o y = SubSeq(b, 1, Len(b))
    BY <2>2, ConcatAdjacentSubSeq
  <2> QED
    BY <2>3, SubSeqFull
<1> HIDE DEF x, y
<1>3. (a \o x) \o y = a \o (x \o y)
  <2>1. x \in Seq(S)
    BY <1>1
  <2>2. y \in Seq(S)
    BY <1>1
  <2> QED
    BY <2>1, <2>2, Associative, SMTT(60)
<1>4. (a \o x) \o y = a \o b
  BY <1>2, <1>3
<1> QED
  BY <1>4, Zenon DEF x, y

\* So is a line.
LEMMA HeadMoved ==
    ASSUME NEW S, NEW a \in Seq(S), NEW b \in Seq(S), b # <<>>
    PROVE  /\ Head(b) \in S /\ Head(b) = b[1]
           /\ Tail(b) \in Seq(S)
           /\ Len(b) \in Nat \ {0}
           /\ Append(a, Head(b)) \in Seq(S)
           /\ Append(a, Head(b)) \o Tail(b) = a \o b
<1>1. Head(b) \in S /\ Tail(b) \in Seq(S)
  BY HeadTailProperties
<1>2. Head(b) = b[1]
  OBVIOUS
<1>3. Len(b) \in Nat \ {0}
  BY EmptySeq
<1>4. Append(a, Head(b)) \in Seq(S)
  BY <1>1, AppendProperties
<1> DEFINE h == Head(b)
           t == Tail(b)
           o == <<h>>
<1>5. Append(a, h) = a \o o
  BY <1>1, AppendIsConcat
<1>6. o \in Seq(S)
  BY <1>1
<1>7. o \o t = b
  <2>1. 1 \in 1 .. Len(b) /\ Len(b) \in 1 .. Len(b)
    BY <1>3
  <2>2. SubSeq(b, 1, Len(b)) = <<b[1]>> \o SubSeq(b, 1 + 1, Len(b))
    BY <2>1, SubSeqRecursiveFirst
  <2>3. t = SubSeq(b, 2, Len(b))
    BY TailIsSubSeq
  <2> QED
    BY <1>2, <2>2, <2>3, SubSeqFull
<1> HIDE DEF h, t, o
<1>8. t \in Seq(S)
  BY <1>1 DEF t
<1>9. (a \o o) \o t = a \o b
  <2>1. (a \o o) \o t = a \o (o \o t)
    BY <1>6, <1>8, Associative
  <2> QED
    BY <1>7, <2>1
<1> QED
  BY <1>1, <1>2, <1>3, <1>4, <1>5, <1>9 DEF h, t

\* The beginning of a sequence.
LEMMA Beginning ==
    ASSUME NEW S, NEW a \in Seq(S), NEW s \in Seq(S), Len(a) <= Len(s),
           \A i \in 1 .. Len(a) : a[i] = s[i]
    PROVE  SubSeq(s, 1, Len(a)) = a
<1> DEFINE k == Len(a)
           x == SubSeq(s, 1, k)
<1>1. k \in Nat /\ Len(s) \in Nat /\ \A i \in 1 .. Len(s) : s[i] \in S
  BY LenProperties, ElementOfSeq
<1>2. 1 \in Int /\ k \in Int /\ \A i \in 1 .. k : s[i] \in S
  BY <1>1
<1>3. /\ x \in Seq(S) /\ Len(x) = IF 1 <= k THEN k - 1 + 1 ELSE 0
      /\ \A i \in 1 .. k - 1 + 1 : x[i] = s[1 + i - 1]
  <2> HIDE DEF k
  <2> QED
    BY <1>2, SubSeqProperties
<1>4. k - 1 + 1 = k /\ Len(x) = k
  BY <1>1, <1>3
<1>5. \A i \in 1 .. k : x[i] = a[i]
  <2> HIDE DEF x
  <2>1. ASSUME NEW i \in 1 .. k PROVE x[i] = s[i]
    <3>1. 1 + i - 1 = i
      BY <1>1
    <3> QED
      BY <1>3, <1>4, <3>1
  <2> QED
    BY <2>1
<1> HIDE DEF x
<1>6. x = a
  BY <1>3, <1>4, <1>5, SeqEqual
<1> QED
  BY <1>6 DEF x
-----------------------------------------------------------------------------
\* The lines of the driver.

LineSet(n) == [kind : {"output", "ERROR", "EOF"}, cmd : 1 .. n, val : Nat]

\* The answer to a command ends with its only line EOF; a line says ERROR if
\* the command failed, and none does otherwise.
LinesHave(n, len, ecode) ==
    LET lines == Lines(n, len, ecode)
        last == Len(lines) - 1
    IN  /\ lines \in Seq(LineSet(n)) /\ lines \in Seq(Token)
        /\ last \in Nat /\ last = IF ecode > 0 THEN len + 1 ELSE len
        /\ lines[last + 1].kind = "EOF"
        /\ \A i \in 1 .. len : lines[i].kind = "output"
        /\ ecode > 0 => lines[len + 1].kind = "ERROR"

\* Where each line of a driver's reply is.
LEMMA LineTokens ==
    ASSUME NEW n \in Nat \ {0}, NEW len \in Nat, NEW ecode \in Nat
    PROVE  LinesHave(n, len, ecode)
<1> DEFINE o == Output(n, len)
           x == IF ecode > 0 THEN Line(n, "ERROR") ELSE <<>>
           z == Line(n, "EOF")
           T == LineSet(n)
<1>1. o \in Seq(T)
  <2>1. o \in [1 .. len -> T]
    BY DEF Output, LineSet
  <2> QED
    BY <2>1, SeqDef
<1>2. Len(o) = len /\ \A i \in 1 .. len : o[i].kind = "output"
  <2>1. Len(o) = len /\ \A i \in 1 .. len : o[i] = [kind |-> "output", cmd |-> n, val |-> i]
    BY OutputTokens, Zenon
  <2> HIDE DEF o
  <2> QED
    BY <2>1
<1>3. /\ x \in Seq(T) /\ Len(x) = IF ecode > 0 THEN 1 ELSE 0
      /\ ecode > 0 => x[1].kind = "ERROR"
  <2>1. CASE ecode > 0
    BY <2>1 DEF Line, LineSet
  <2>2. CASE ~ (ecode > 0)
    BY <2>2, EmptySeq
  <2> QED
    BY <2>1, <2>2
<1>4. z \in Seq(T) /\ Len(z) = 1 /\ z[1].kind = "EOF"
  BY DEF Line, LineSet
<1>5. Lines(n, len, ecode) = (o \o x) \o z
  BY DEF Lines
<1> HIDE DEF o, x, z, T
<1> DEFINE y == o \o x
<1>6. /\ y \in Seq(T) /\ Len(y) = len + (IF ecode > 0 THEN 1 ELSE 0)
      /\ \A i \in 1 .. len : y[i].kind = "output"
      /\ ecode > 0 => y[len + 1].kind = "ERROR"
  <2>1. /\ y \in Seq(T) /\ Len(o) \in Nat /\ Len(x) \in Nat /\ Len(y) = Len(o) + Len(x)
        /\ \A i \in 1 .. Len(o) : y[i] = o[i]
        /\ \A j \in 1 .. Len(x) : y[Len(o) + j] = x[j]
    <3>1. x \in Seq(T)
      BY <1>3
    <3> QED
      BY <1>1, <3>1, Halves
  <2> HIDE DEF y
  <2>2. ecode > 0 => y[len + 1] = x[1]
    BY <1>2, <1>3, <2>1
  <2> QED
    BY <1>2, <1>3, <2>1, <2>2
<1> HIDE DEF y
<1> DEFINE s == y \o z
           k == Len(s) - 1
<1>7. /\ s \in Seq(T) /\ Len(y) \in Nat /\ Len(s) = Len(y) + Len(z)
      /\ \A i \in 1 .. Len(y) : s[i] = y[i]
      /\ \A j \in 1 .. Len(z) : s[Len(y) + j] = z[j]
  <2>1. y \in Seq(T) /\ z \in Seq(T)
    BY <1>4, <1>6
  <2> QED
    BY <2>1, Halves
<1> HIDE DEF s
<1>8. k \in Nat /\ k = Len(y) /\ s[k + 1] = z[1]
  BY <1>4, <1>7
<1>9. s \in Seq(Token)
  <2>1. T \subseteq Token
    BY DEF T, LineSet, Token
  <2> QED
    BY <1>7, <2>1, SeqMonotonic
<1>10. k = IF ecode > 0 THEN len + 1 ELSE len
  BY <1>6, <1>8
<1> HIDE DEF k
<1>11. \A i \in 1 .. len : s[i].kind = "output"
  BY <1>6, <1>7
<1>12. ecode > 0 => s[len + 1].kind = "ERROR"
  BY <1>6, <1>7
<1>13. /\ s \in Seq(T) /\ s \in Seq(Token)
       /\ k \in Nat /\ k = IF ecode > 0 THEN len + 1 ELSE len
       /\ s[k + 1].kind = "EOF"
       /\ \A i \in 1 .. len : s[i].kind = "output"
       /\ ecode > 0 => s[len + 1].kind = "ERROR"
  BY <1>4, <1>7, <1>8, <1>9, <1>10, <1>11, <1>12
<1>14. Lines(n, len, ecode) = s
  BY <1>5 DEF s, y
<1> QED
  BY <1>13, <1>14, Zenon DEF LinesHave, k, T
-----------------------------------------------------------------------------
\* The inductive invariant.

\* The TCP connection is only there for dt100.
ChannelInv == transport # "dt100" => net = <<>> /\ ~ closed

\* What the card has written from the last trailer on.
Stream == WholeReply(leftover, sent, output, code)

Numbers(s) == \A i \in 1 .. Len(s) : s[i].kind \in TrailerNumbers

\* While a command is read, the buffer and the stream hold what was left and
\* the reply, and no EOF has been seen; when it has been, numbers are left.
TcpInv ==
    transport = "dt100" /\ Intact =>
        /\ sock # "dead"
        /\ Numbers(leftover)
        /\ sock = "reading" => rxbuf \o net = Stream /\ EOFs(rxbuf) = {}
        /\ sock = "idle" => Numbers(net)
        /\ sent = 0 => sock = "idle" /\ net = <<>>
        /\ OwnTokens

\* A file on which no command was given up holds nothing but the rest of the
\* reply that is being read.
FilesInv ==
    transport # "dt100" /\ overruns = 0 =>
        /\ sock # "dead"
        /\ \A f \in {"cmd", "shell"} \ late :
              (sock = "reading" /\ fd = f) \/ fds[f] = <<>>
        /\ sock = "reading" => wasLate = (fd \in late)
        /\ sent > 0 => \A i \in 1 .. Len(response) : response[i].kind \in {"output", "ERROR"}

LinesInv ==
    transport # "dt100" /\ overruns = 0 =>
        /\ sock = "reading" /\ (~ wasLate \/ OwnSession(fd)) =>
              response \o fds[fd] = Lines(sent, output, code)
        /\ OwnLines

SessionInv == SessionTypes /\ KddTypes /\ ChannelInv /\ TcpInv /\ FilesInv /\ LinesInv

\* Until a call has failed, ai and ranges are the card's, and ranges are all
\* set but while they are asked for.
VoltsInv ==
    Intact /\ ~ failed =>
        /\ ai \in {-1, Channels}
        /\ ranges # Null => ai = Channels
        /\ ranges # Null => task = "getChannelRanges" \/ ranges = Channels
        /\ volts # "raw"

\* Only readChannelVolts() asks for ranges, when it has somewhere to keep them.
TaskInv ==
    /\ sent > 0 \/ task \in {"none", "data"}
    /\ ai \in {-1} \cup 1 .. Channels
    /\ ranges # Null => program = "library" /\ ai # -1
    /\ program = "library" /\ task \in {"data", "getChannelRanges"} => ranges # Null

IInv == SessionInv /\ VoltsInv /\ TaskInv
-----------------------------------------------------------------------------
\* Types of the sessions.

\* A nonempty set of numbers has a least one.
LEMMA LeastElement ==
    ASSUME NEW T, T \subseteq Nat, T # {}
    PROVE  \E m \in T : \A k \in T : m <= k
<1> DEFINE R == OpToRel(<, Nat)
<1>1. IsWellFoundedOn(R, Nat)
  BY NatLessThanWellFounded, Zenon
<1> HIDE DEF R
<1>2. \E m \in T : \A k \in T : ~ (<<k, m>> \in R)
  BY <1>1, WFMin
<1>3. ASSUME NEW m \in Nat, NEW k \in Nat, ~ (<<k, m>> \in R) PROVE m <= k
  BY <1>3 DEF R, OpToRel
<1> QED
  BY <1>2, <1>3

\* strstr() finds the first EOF, if there is one.
LEMMA FirstEOFFound ==
    ASSUME NEW buf \in Seq(Token), EOFs(buf) # {}
    PROVE  /\ FirstEOF(buf) \in 1 .. Len(buf)
           /\ FirstEOF(buf) \in EOFs(buf)
<1>1. Len(buf) \in Nat
  BY LenProperties
<1>2. EOFs(buf) \subseteq Nat /\ EOFs(buf) \subseteq 1 .. Len(buf)
  BY <1>1 DEF EOFs
<1>3. \E m \in EOFs(buf) : \A k \in EOFs(buf) : m <= k
  BY <1>2, LeastElement
<1>4. FirstEOF(buf) \in EOFs(buf)
  BY <1>3, Zenon DEF FirstEOF
<1> QED
  BY <1>2, <1>4

\* Lines of earlier commands are lines still when another is sent.
LEMMA LineSetGrows ==
    ASSUME NEW n \in Nat, NEW s \in Seq(LineSet(n))
    PROVE  s \in Seq(LineSet(n + 1))
<1>1. LineSet(n) \subseteq LineSet(n + 1)
  BY DEF LineSet
<1> QED
  BY <1>1, SeqMonotonic

\* A driver's lines are tokens.
LEMMA LineSetTokens ==
    ASSUME NEW n \in Nat, NEW s \in Seq(LineSet(n))
    PROVE  s \in Seq(Token)
<1>1. LineSet(n) \subseteq Token
  BY DEF LineSet, Token
<1> QED
  BY <1>1, SeqMonotonic

\* What a read() brings has the types it should.
LEMMA ReceiveTypes ==
    ASSUME SessionTypes, NEW k \in 1 .. Len(net), Receive(k)
    PROVE  /\ rxbuf' \in Seq(Token) /\ Len(rxbuf') \in Nat
           /\ Len(rxbuf') = Len(rxbuf) + k /\ Len(rxbuf') <= BufLen
           /\ net' \in Seq(Token)
           /\ rxbuf' \o net' = rxbuf \o net
<1>1. net \in Seq(Token) /\ rxbuf \in Seq(Token) /\ Len(rxbuf) \in Nat
  BY LenProperties DEF SessionTypes
<1>2. /\ rxbuf' = rxbuf \o SubSeq(net, 1, k) /\ net' = SubSeq(net, k + 1, Len(net))
      /\ k <= BufLen - Len(rxbuf)
  BY DEF Receive
<1> DEFINE x == rxbuf \o SubSeq(net, 1, k)
           y == SubSeq(net, k + 1, Len(net))
<1>3. /\ x \in Seq(Token) /\ y \in Seq(Token) /\ Len(x) = Len(rxbuf) + k
      /\ x \o y = rxbuf \o net
  <2>1. net \in Seq(Token)
    BY <1>1
  <2>2. rxbuf \in Seq(Token)
    BY <1>1
  <2>3. x \in Seq(Token) /\ y \in Seq(Token) /\ Len(x) = Len(rxbuf) + k
    <3>1. \A a, b \in Seq(Token) : \A j \in 1 .. Len(b) :
             /\ SubSeq(b, j + 1, Len(b)) \in Seq(Token)
             /\ a \o SubSeq(b, 1, j) \in Seq(Token)
             /\ Len(a \o SubSeq(b, 1, j)) = Len(a) + j
      BY ChunkTypes
    <3> QED
      BY <2>1, <2>2, <3>1, Zenon
  <2>4. x \o y = rxbuf \o net
    <3>1. \A a, b \in Seq(Token) : \A j \in 1 .. Len(b) :
             (a \o SubSeq(b, 1, j)) \o SubSeq(b, j + 1, Len(b)) = a \o b
      BY ChunkMoved
    <3> QED
      BY <2>1, <2>2, <3>1, Zenon
  <2> QED
    BY <2>3, <2>4
<1>4. rxbuf' = x /\ net' = y
  BY <1>2
<1> HIDE DEF x, y
<1>5. Len(net) \in Nat /\ k \in Nat
  BY <1>1, LenProperties
<1>6. Len(x) \in Nat /\ Len(x) <= BufLen
  <2>1. k <= BufLen - Len(rxbuf) /\ Len(rxbuf) \in Nat /\ Len(x) = Len(rxbuf) + k
    BY <1>1, <1>2, <1>3
  <2> QED
    BY <1>5, <2>1, BufLenAssumption
<1> QED
  BY <1>3, <1>4, <1>6

\* What is copied to the caller has, too.
LEMMA ReplyTypes ==
    ASSUME NEW buf \in Seq(Token), EOFs(buf) # {}
    PROVE  /\ ResultOf(buf) \in Int
           /\ SubSeq(buf, 1, FirstEOF(buf) - 1) \in Seq(Token)
           /\ Len(SubSeq(buf, 1, FirstEOF(buf) - 1)) = FirstEOF(buf) - 1
<1> DEFINE p == FirstEOF(buf)
<1>1. Len(buf) \in Nat /\ p \in 1 .. Len(buf)
  BY LenProperties, FirstEOFFound
<1>2. \A i \in 1 .. Len(buf) : buf[i] \in Token
  BY ElementOfSeq
<1> HIDE DEF p
<1>3. Ecode(buf) \in Nat
  <2>1. ASSUME NEW k \in {2, 3}, p + k <= Len(buf) PROVE buf[p + k].val \in Nat
    <3>1. p + k \in 1 .. Len(buf)
      BY <1>1, <2>1
    <3>2. buf[p + k] \in Token
      BY <1>2, <3>1
    <3> QED
      BY <3>2 DEF Token
  <2>2. CASE p + 3 <= Len(buf) /\ buf[p + 3].kind = "digit"
    <3>1. Ecode(buf) = buf[p + 3].val
      BY <2>2 DEF Ecode, p
    <3> QED
      BY <2>1, <2>2, <3>1
  <2>3. CASE ~ (p + 3 <= Len(buf) /\ buf[p + 3].kind = "digit")
    <3>1. Ecode(buf) = IF p + 2 <= Len(buf) THEN buf[p + 2].val ELSE 0
      BY <2>3 DEF Ecode, p
    <3> QED
      BY <2>1, <3>1
  <2> QED
    BY <2>2, <2>3
<1>4. ResultOf(buf) \in Int
  BY <1>1, <1>3 DEF ResultOf, p
<1>5. 1 \in Int /\ p - 1 \in Int /\ \A i \in 1 .. p - 1 : buf[i] \in Token
  BY <1>1, <1>2
<1>6. /\ SubSeq(buf, 1, p - 1) \in Seq(Token)
      /\ Len(SubSeq(buf, 1, p - 1)) = IF 1 <= p - 1 THEN p - 1 - 1 + 1 ELSE 0
  BY <1>5, SubSeqProperties
<1>7. Len(SubSeq(buf, 1, p - 1)) = p - 1
  BY <1>1, <1>6
<1> QED
  BY <1>4, <1>6, <1>7 DEF p

\* Every step of a session keeps its variables in their types.
LEMMA TypesStep ==
    ASSUME SessionTypes, KddTypes, ChannelInv, SessionNext
    PROVE  SessionTypes' /\ KddTypes' /\ ChannelInv'
<1> DEFINE Files == {"cmd", "shell"}
           FdsType(n) == [Files -> Seq(LineSet(n))]
<1>1. /\ net \in Seq(Token) /\ rxbuf \in Seq(Token) /\ Len(rxbuf) <= BufLen
      /\ sent \in Nat /\ code \in ErrorCodes \cup {0} /\ output \in Nat
      /\ leftover \in Seq(Token) /\ overruns \in Nat /\ closed \in BOOLEAN
      /\ sock \in {"idle", "reading", "dead"} /\ rc \in Int /\ response \in Seq(Token)
  BY DEF SessionTypes
<1>2. /\ transport \in Transports /\ fds \in FdsType(sent) /\ fd \in Files
      /\ late \subseteq Files /\ wasLate \in BOOLEAN
  BY DEF KddTypes, LineSet
<1>3. ASSUME NEW f \in Files
           PROVE  fds[f] \in Seq(LineSet(sent)) /\ fds[f] \in Seq(LineSet(sent + 1))
  <2>1. fds[f] \in Seq(LineSet(sent))
    BY <1>2
  <2> QED
    BY <1>1, <2>1, LineSetGrows
<1>4. fds \in FdsType(sent + 1)
  BY <1>2, <1>3, Zenon
<1>5. ASSUME UNCHANGED transport, fds' \in FdsType(sent'), fd' \in Files, late' \subseteq Files,
             wasLate' \in BOOLEAN
      PROVE  KddTypes'
  BY <1>2, <1>5 DEF KddTypes, LineSet
<1>6. <<>> \in Seq(Token) /\ Len(<<>>) = 0 /\ Untouched \in Seq(Token)
  BY EmptySeq DEF Untouched, Token
<1>7. ErrorCodes \subseteq 0 .. 99 /\ Outputs \subseteq Nat /\ LineOutputs \subseteq Nat
  BY RepliesAssumption, TransportsAssumption
<1>8. CASE transport = "dt100" /\ Send /\ UNCHANGED kdd
  <2> USE <1>8 DEF Send, kdd
  <2>1. PICK len \in Outputs, ecode \in ErrorCodes :
          /\ output' = len /\ code' = ecode
          /\ net' = IF closed THEN net ELSE net \o Output(sent', len) \o Trailer(sent', ecode)
    BY Zenon
  <2>2. sent' = sent + 1 /\ sent' \in Nat /\ len \in Nat /\ ecode \in 0 .. 99
    BY <1>1, <1>7, <2>1
  <2>3. net' \in Seq(Token)
    <3>1. WholeReply(net, sent', len, ecode) \in Seq(Token)
      <4> DEFINE n == sent'
      <4>1. n \in Nat
        BY <2>2
      <4> HIDE DEF n
      <4>2. WholeReply(net, n, len, ecode) \in Seq(Token)
        BY <1>1, <2>2, <4>1, ReplyTokens DEF ReplyHas
      <4> QED
        BY <4>2 DEF n
    <3> QED
      BY <1>1, <2>1, <3>1, Zenon DEF WholeReply, Answer
  <2>4. KddTypes'
    BY <1>2, <1>4, <1>5, <2>2
  <2>5. SessionTypes'
    <3>1. /\ rxbuf' \in Seq(Token) /\ Len(rxbuf') <= BufLen
          /\ leftover' \in Seq(Token) /\ response' \in Seq(Token)
      BY <1>1, <1>6, BufLenAssumption
    <3>2. code' \in ErrorCodes \cup {0} /\ output' \in Nat /\ sock' \in {"idle", "reading", "dead"}
      BY <2>1, <2>2
    <3>3. UNCHANGED <<overruns, closed, rc>>
      OBVIOUS
    <3> QED
      BY <1>1, <2>2, <2>3, <3>1, <3>2, <3>3 DEF SessionTypes
  <2> QED
    BY <2>4, <2>5 DEF ChannelInv
<1>9. ASSUME NEW f \in Files, SendLine(f)
      PROVE  SessionTypes' /\ KddTypes' /\ ChannelInv'
  <2> USE <1>9 DEF SendLine
  <2>1. PICK len \in LineOutputs, ecode \in ErrorCodes :
          /\ output' = len /\ code' = ecode
          /\ \/ fds' = [fds EXCEPT ![f] = Unread(f) \o Lines(sent', len, ecode)]
             \/ Unread(f) # <<>> /\ UNCHANGED fds
    BY Zenon
  <2>2. sent' = sent + 1 /\ sent' \in Nat /\ len \in Nat /\ ecode \in Nat
    BY <1>1, <1>7, <2>1
  <2>3. Unread(f) \o Lines(sent + 1, len, ecode) \in Seq(LineSet(sent + 1))
    <3>1. Unread(f) \in Seq(LineSet(sent + 1))
      BY <1>3, EmptySeq, Zenon DEF Unread
    <3>2. Lines(sent + 1, len, ecode) \in Seq(LineSet(sent + 1))
      <4> DEFINE n == sent + 1
      <4>1. n \in Nat \ {0}
        BY <1>1
      <4> HIDE DEF n
      <4>2. Lines(n, len, ecode) \in Seq(LineSet(n))
        BY <2>2, <4>1, LineTokens DEF LinesHave
      <4> QED
        BY <4>2 DEF n
    <3> QED
      BY <3>1, <3>2, ConcatProperties
  <2>4. fds' \in FdsType(sent')
    <3>1. CASE fds' = [fds EXCEPT ![f] = Unread(f) \o Lines(sent', len, ecode)]
      <4> DEFINE q == Unread(f) \o Lines(sent + 1, len, ecode)
      <4>1. fds' = [fds EXCEPT ![f] = q]
        BY <2>2, <3>1
      <4>2. q \in Seq(LineSet(sent + 1))
        BY <2>3
      <4> HIDE DEF q
      <4>3. fds' \in FdsType(sent + 1)
        BY <1>4, <4>1, <4>2
      <4> QED
        BY <2>2, <4>3
    <3>2. CASE UNCHANGED fds
      BY <1>4, <2>2, <3>2
    <3> QED
      BY <2>1, <3>1, <3>2
  <2>5. KddTypes'
    <3>1. wasLate' \in BOOLEAN /\ fd' \in Files /\ late' \subseteq Files /\ UNCHANGED transport
      BY <1>2
    <3> QED
      BY <1>5, <2>4, <3>1
  <2>6. SessionTypes'
    <3>1. response' \in Seq(Token) /\ sock' \in {"idle", "reading", "dead"}
      BY <1>6
    <3>2. code' \in ErrorCodes \cup {0} /\ output' \in Nat
      BY <2>1, <2>2
    <3>3. UNCHANGED <<net, rxbuf, leftover, overruns, closed, rc>>
      OBVIOUS
    <3> QED
      BY <1>1, <2>2, <3>1, <3>2, <3>3 DEF SessionTypes
  <2> QED
    BY <2>5, <2>6 DEF ChannelInv
<1>10. ASSUME NEW k \in 1 .. Len(net), ReadToEOF(k) \/ ReadMore(k) \/ ReadToFull(k), UNCHANGED kdd
       PROVE  SessionTypes' /\ KddTypes' /\ ChannelInv'
  <2>1. Receive(k)
    BY <1>10 DEF ReadToEOF, ReadMore, ReadToFull
  <2>2. rxbuf' \in Seq(Token) /\ Len(rxbuf') <= BufLen /\ net' \in Seq(Token)
    BY <2>1, ReceiveTypes
  <2>3. UNCHANGED <<sent, code, output, leftover, closed>>
    BY <2>1 DEF Receive
  <2>4. /\ sock' \in {"idle", "reading", "dead"} /\ rc' \in Int
        /\ response' \in Seq(Token) /\ overruns' \in Nat
    <3>1. CASE ReadToEOF(k)
      <4>1. /\ EOFs(rxbuf') # {} /\ rc' = ResultOf(rxbuf') /\ sock' = "idle" /\ UNCHANGED overruns
            /\ response' = SubSeq(rxbuf', 1, FirstEOF(rxbuf') - 1)
        BY <3>1 DEF ReadToEOF
      <4> DEFINE b == rxbuf'
      <4>2. b \in Seq(Token) /\ EOFs(b) # {}
        BY <2>2, <4>1
      <4> HIDE DEF b
      <4>3. ResultOf(b) \in Int /\ SubSeq(b, 1, FirstEOF(b) - 1) \in Seq(Token)
        BY <4>2, ReplyTypes
      <4>4. rc' \in Int /\ response' \in Seq(Token)
        BY <4>1, <4>3, Zenon DEF b
      <4> QED
        BY <1>1, <4>1, <4>4
    <3>2. CASE ReadMore(k)
      BY <1>1, <3>2 DEF ReadMore
    <3>3. CASE ReadToFull(k)
      BY <1>1, <3>3 DEF ReadToFull
    <3> QED
      BY <1>10, <3>1, <3>2, <3>3
  <2>5. SessionTypes'
    BY <1>1, <2>2, <2>3, <2>4 DEF SessionTypes
  <2>6. KddTypes'
    BY <1>2, <1>5, <1>10, <2>3 DEF kdd
  <2>7. ChannelInv'
    <3>1. net # <<>>
      BY <1>10
    <3> QED
      BY <1>10, <3>1 DEF ChannelInv, kdd
  <2> QED
    BY <2>5, <2>6, <2>7
<1>11. CASE ReadEnds /\ UNCHANGED kdd
  BY <1>1, <1>2, <1>5, <1>11 DEF ReadEnds, kdd, SessionTypes, ChannelInv
<1>12. ASSUME NEW kinds, Reads(kinds)
       PROVE  /\ fds' \in FdsType(sent) /\ Head(fds[fd]) \in Token
              /\ KddTypes' /\ ChannelInv'
  <2> USE <1>12 DEF Reads
  <2>1. fds[fd] \in Seq(LineSet(sent)) /\ fds[fd] # <<>>
    BY <1>2, <1>3
  <2>2. Head(fds[fd]) \in LineSet(sent) /\ Tail(fds[fd]) \in Seq(LineSet(sent))
    BY <2>1, HeadTailProperties
  <2>3. Head(fds[fd]) \in Token
    BY <1>1, <2>2 DEF LineSet, Token
  <2>4. fds' \in FdsType(sent)
    <3> DEFINE q == Tail(fds[fd])
    <3>1. fds' = [fds EXCEPT ![fd] = q]
      OBVIOUS
    <3>2. q \in Seq(LineSet(sent))
      BY <2>2
    <3> HIDE DEF q
    <3> QED
      BY <1>2, <3>1, <3>2
  <2>5. KddTypes'
    BY <1>2, <1>5, <2>4
  <2> QED
    BY <2>3, <2>4, <2>5 DEF ChannelInv
<1>13. CASE CopyLine
  <2>1. /\ Reads({"output", "ERROR"}) /\ response' = Append(response, Head(fds[fd]))
        /\ UNCHANGED <<net, rxbuf, sent, code, output, leftover, closed, overruns, sock, rc>>
    BY <1>13 DEF CopyLine, Reads
  <2>2. Head(fds[fd]) \in Token /\ KddTypes' /\ ChannelInv'
    BY <1>12, <2>1
  <2>3. response' \in Seq(Token)
    BY <1>1, <2>1, <2>2, AppendProperties
  <2> QED
    BY <1>1, <2>1, <2>2, <2>3 DEF SessionTypes
<1>14. CASE CopyOverruns
  <2>1. /\ Reads({"output", "ERROR"}) /\ overruns' = overruns + 1 /\ sock' = "dead"
        /\ UNCHANGED <<net, rxbuf, sent, code, output, leftover, closed, rc, response>>
    BY <1>14 DEF CopyOverruns, Reads
  <2> QED
    BY <1>1, <1>12, <2>1 DEF SessionTypes
<1>15. CASE EndOfReply
  <2>1. /\ Reads({"EOF"}) /\ sock' = "idle"
        /\ rc' \in {-1} \/ rc' \in {0, -1} \/ rc' = Len(response)
        /\ UNCHANGED <<net, rxbuf, sent, code, output, leftover, closed, overruns, response>>
    BY <1>15 DEF EndOfReply, Reads
  <2>2. Len(response) \in Nat
    BY <1>1, LenProperties
  <2>3. rc' \in Int
    BY <2>1, <2>2
  <2> QED
    BY <1>1, <1>12, <2>1, <2>3 DEF SessionTypes
<1>16. CASE IncompleteReply
  <2> USE <1>16 DEF IncompleteReply
  <2>1. fds' \in FdsType(sent)
    <3>1. CASE fds' = fds
      BY <1>2, <3>1
    <3>2. CASE fds' = [fds EXCEPT ![fd] = <<>>]
      <4>1. <<>> \in Seq(LineSet(sent))
        BY EmptySeq
      <4> QED
        BY <1>2, <3>2, <4>1
    <3> QED
      BY <3>1, <3>2
  <2>2. KddTypes'
    BY <1>2, <1>5, <2>1
  <2>3. SessionTypes'
    BY <1>1 DEF SessionTypes
  <2> QED
    BY <2>2, <2>3 DEF ChannelInv
<1>17. CASE Closes
  <2> USE <1>17 DEF Closes, CardCloses, kdd
  <2>1. PICK k \in 0 .. Len(net) : net' = SubSeq(net, 1, k)
    BY Zenon
  <2>2. net' \in Seq(Token)
    <3>1. \A i \in 1 .. Len(net) : net[i] \in Token
      BY <1>1, ElementOfSeq
    <3>2. Len(net) \in Nat
      BY <1>1, LenProperties
    <3>3. 1 \in Int /\ k \in Int /\ \A i \in 1 .. k : net[i] \in Token
      BY <3>1, <3>2
    <3> QED
      BY <2>1, <3>3, SubSeqProperties
  <2>3. KddTypes'
    BY <1>2, <1>5
  <2>4. SessionTypes'
    BY <1>1, <2>2 DEF SessionTypes
  <2> QED
    BY <2>3, <2>4 DEF ChannelInv
<1>18. CASE GivenUp
  BY <1>1, <1>2, <1>5, <1>18 DEF GivenUp, kdd, SessionTypes, ChannelInv
<1> QED
  BY <1>8, <1>9, <1>10, <1>11, <1>13, <1>14, <1>15, <1>16, <1>17, <1>18
     DEF SessionNext, Read, ReadLine

-----------------------------------------------------------------------------
\* The session over TCP.

\* When a reply has been read up to its EOF, whatever else came with it, the
\* caller gets the output, and what is left are its numbers.
IsRead(l, n, len, ecode, b, m) ==
    /\ SubSeq(b, 1, FirstEOF(b) - 1) = Answer(l, n, len)
    /\ ResultOf(b) < 0 => - ResultOf(b) \in {ecode, FirstDigit(ecode)}
    /\ \A i \in 1 .. Len(m) : m[i].cmd = n /\ m[i].kind \in TrailerNumbers

\* Reading up to the first EOF in the buffer gives that.
LEMMA ReplyRead ==
    ASSUME NEW l \in Seq(Token), NEW n \in Nat, NEW len \in Nat, NEW ecode \in 0 .. 99,
           NEW b \in Seq(Token), NEW m \in Seq(Token),
           Numbers(l), EOFs(b) # {},
           b \o m = WholeReply(l, n, len, ecode)
    PROVE  IsRead(l, n, len, ecode, b, m)
<1> DEFINE hd == Answer(l, n, len)
           st == WholeReply(l, n, len, ecode)
           q == Len(l) + len + 1
           cn == [kind |-> "cnum", cmd |-> n, val |-> n]
           ec == [kind |-> "ecode", cmd |-> n, val |-> FirstDigit(ecode)]
           dg == [kind |-> "digit", cmd |-> n, val |-> ecode]
           w == NumberTokens(ecode)
<1>1. /\ hd \in Seq(Token) /\ st \in Seq(Token)
      /\ Len(l) \in Nat /\ Len(hd) = q - 1 /\ Len(st) = q + w
      /\ \A i \in 1 .. Len(l) : st[i] = l[i]
      /\ \A i \in Len(l) + 1 .. q - 1 : st[i].kind = "output"
      /\ \A i \in 1 .. q - 1 : st[i] = hd[i]
      /\ st[q].kind = "EOF"
      /\ st[q + 1] = cn /\ st[q + 2] = ec /\ (ecode >= 10 => st[q + 3] = dg)
  <2>1. ReplyHas(l, n, len, ecode)
    BY ReplyTokens
  <2> QED
    BY <2>1, Zenon DEF ReplyHas
<1>2. /\ b \o m = st
      /\ Len(b) \in Nat /\ Len(m) \in Nat /\ Len(b \o m) = Len(b) + Len(m)
      /\ \A i \in 1 .. Len(b) : (b \o m)[i] = b[i]
      /\ \A j \in 1 .. Len(m) : (b \o m)[Len(b) + j] = m[j]
  BY Halves
<1>3. /\ cn.kind = "cnum" /\ cn.cmd = n
      /\ ec.kind = "ecode" /\ ec.cmd = n /\ ec.val = FirstDigit(ecode)
      /\ dg.kind = "digit" /\ dg.cmd = n /\ dg.val = ecode
  OBVIOUS
<1>4. q \in Nat /\ q >= 1
  BY <1>1
<1>11. w \in {2, 3} /\ (w = 3 => ecode >= 10) /\ (ecode >= 10 => w = 3)
  BY DEF NumberTokens
<1> HIDE DEF hd, st, q, cn, ec, dg, w
<1>12. ASSUME NEW i \in 1 .. w
       PROVE  st[q + i] \in {cn, ec, dg} /\ st[q + i].cmd = n /\ st[q + i].kind \in TrailerNumbers
  <2>1. st[q + i] \in {cn, ec, dg}
    <3>1. i = 1 \/ i = 2 \/ (i = 3 /\ ecode >= 10)
      BY <1>11
    <3> QED
      BY <1>1, <3>1
  <2> QED
    BY <1>3, <2>1 DEF TrailerNumbers
<1>5. /\ Len(b) + Len(m) = q + w
      /\ \A i \in 1 .. Len(b) : b[i] = st[i]
      /\ \A j \in 1 .. Len(m) : m[j] = st[Len(b) + j]
  BY <1>1, <1>2
<1>6. ASSUME NEW i \in 1 .. q + w, st[i].kind = "EOF" PROVE i = q
  <2>1. CASE i \in 1 .. Len(l)
    <3>1. st[i] = l[i]
      BY <1>1, <2>1
    <3>2. l[i].kind \in TrailerNumbers
      BY <2>1 DEF Numbers
    <3> QED
      BY <1>6, <3>1, <3>2 DEF TrailerNumbers
  <2>2. CASE i \in Len(l) + 1 .. q - 1
    <3>1. st[i].kind = "output"
      BY <1>1, <2>2
    <3> QED
      BY <1>6, <3>1
  <2>3. CASE i \in q + 1 .. q + w
    <3>1. i - q \in 1 .. w /\ q + (i - q) = i
      BY <1>4, <1>11, <2>3
    <3>2. st[i].kind \in TrailerNumbers
      BY <1>12, <3>1
    <3> QED
      BY <1>6, <3>2 DEF TrailerNumbers
  <2>4. \/ i \in 1 .. Len(l) \/ i \in Len(l) + 1 .. q - 1
        \/ i = q \/ i \in q + 1 .. q + w
    BY <1>1, <1>4, <1>11
  <2> QED
    BY <2>1, <2>2, <2>3, <2>4
<1>7. FirstEOF(b) = q /\ q <= Len(b)
  <2> DEFINE f == FirstEOF(b)
  <2>1. f \in 1 .. Len(b) /\ f \in EOFs(b)
    BY FirstEOFFound
  <2>2. b[f].kind = "EOF"
    BY <2>1 DEF EOFs
  <2> HIDE DEF f
  <2>3. st[f].kind = "EOF"
    BY <1>5, <2>1, <2>2
  <2>4. f \in 1 .. q + w
    BY <1>2, <1>4, <1>5, <1>11, <2>1
  <2>5. f = q
    BY <1>6, <2>3, <2>4
  <2> QED
    BY <1>2, <2>1, <2>5 DEF f
<1>8. SubSeq(b, 1, q - 1) = hd
  <2>1. Len(hd) = q - 1 /\ Len(hd) <= Len(b)
    BY <1>1, <1>2, <1>4, <1>7
  <2>2. \A i \in 1 .. Len(hd) : hd[i] = b[i]
    <3>1. ASSUME NEW i \in 1 .. q - 1 PROVE hd[i] = b[i]
      <4>1. st[i] = hd[i]
        BY <1>1
      <4>2. b[i] = st[i]
        BY <1>2, <1>4, <1>5, <1>7
      <4> QED
        BY <4>1, <4>2
    <3> QED
      BY <2>1, <3>1
  <2>3. hd \in Seq(Token)
    BY <1>1
  <2>4. SubSeq(b, 1, Len(hd)) = hd
    BY <2>1, <2>2, <2>3, Beginning
  <2> QED
    BY <2>1, <2>4
<1>9. ResultOf(b) < 0 => - ResultOf(b) \in {ecode, FirstDigit(ecode)}
  <2>1. Ecode(b) \in {ecode, FirstDigit(ecode), 0}
    <3>1. CASE q + 3 <= Len(b) /\ b[q + 3].kind = "digit"
      <4>1. w = 3
        BY <1>2, <1>4, <1>5, <1>11, <3>1
      <4>2. b[q + 3] = dg
        BY <1>1, <1>2, <1>4, <1>5, <1>11, <3>1, <4>1
      <4>3. Ecode(b) = b[q + 3].val
        BY <1>7, <3>1 DEF Ecode
      <4> QED
        BY <1>3, <4>2, <4>3
    <3>2. CASE ~ (q + 3 <= Len(b) /\ b[q + 3].kind = "digit")
      <4>1. Ecode(b) = IF q + 2 <= Len(b) THEN b[q + 2].val ELSE 0
        BY <1>7, <3>2 DEF Ecode
      <4>2. q + 2 <= Len(b) => b[q + 2] = ec
        BY <1>1, <1>2, <1>4, <1>5
      <4> QED
        BY <1>3, <4>1, <4>2
    <3> QED
      BY <3>1, <3>2
  <2>2. Ecode(b) \in Int
    <3>1. FirstDigit(ecode) \in Nat
      BY FirstDigitOfCode
    <3> QED
      BY <2>1, <3>1
  <2>3. ResultOf(b) < 0 => - ResultOf(b) = Ecode(b) /\ Ecode(b) > 0
    BY <1>4, <1>7, <2>2 DEF ResultOf
  <2> QED
    BY <2>1, <2>3
<1>10. ASSUME NEW j \in 1 .. Len(m) PROVE m[j].cmd = n /\ m[j].kind \in TrailerNumbers
  <2> DEFINE i == Len(b) + j - q
  <2>1. i \in 1 .. w /\ q + i = Len(b) + j
    BY <1>2, <1>4, <1>5, <1>7, <1>11
  <2> HIDE DEF i
  <2>2. m[j] = st[q + i]
    BY <1>5, <2>1
  <2> QED
    BY <1>12, <2>1, <2>2
<1> QED
  BY <1>7, <1>8, <1>10, <1>9, Zenon DEF IsRead, hd

\* Every step keeps the stream of a TCP session and what is read from it in step.
LEMMA TcpStep ==
    ASSUME SessionTypes, ChannelInv, TcpInv, SessionNext
    PROVE  TcpInv'
<1> SUFFICES ASSUME transport' = "dt100", Intact'
             PROVE  /\ (sock # "dead")'
                    /\ Numbers(leftover)'
                    /\ sock' = "reading" => (rxbuf \o net = Stream)' /\ (EOFs(rxbuf) = {})'
                    /\ sock' = "idle" => Numbers(net)'
                    /\ sent' = 0 => sock' = "idle" /\ net' = <<>>
                    /\ OwnTokens'
  BY DEF TcpInv
<1>1. transport = "dt100"
  BY DEF SessionNext, kdd, SendLine, ReadLine, CopyLine, CopyOverruns, EndOfReply, Reads,
     IncompleteReply, Closes, GivenUp
<1>2. /\ net \in Seq(Token) /\ rxbuf \in Seq(Token) /\ leftover \in Seq(Token)
      /\ sent \in Nat /\ code \in 0 .. 99 /\ output \in Nat /\ overruns \in Nat
  BY RepliesAssumption DEF SessionTypes
<1>3. overruns' = 0 /\ closed' = FALSE
  BY DEF Intact
<1>4. CASE Send
  <2> USE <1>4 DEF Send
  <2>1. Intact
    BY <1>3 DEF Intact
  <2>2. Numbers(net) /\ UNCHANGED <<overruns, closed>>
    BY <1>1, <2>1 DEF TcpInv
  <2>3. sock' = "reading" /\ rxbuf' = <<>> /\ leftover' = net
    BY <1>3
  <2>4. Numbers(leftover')
    BY <2>2, <2>3, Zenon
  <2>5. PICK len \in Outputs, ecode \in ErrorCodes :
          /\ output' = len /\ code' = ecode
          /\ net' = IF closed THEN net ELSE net \o Output(sent', len) \o Trailer(sent', ecode)
    BY Zenon
  <2>6. net' = WholeReply(leftover', sent', output', code')
    BY <1>3, <2>3, <2>5 DEF WholeReply, Answer
  <2>7. sent' \in Nat /\ output' \in Nat /\ code' \in 0 .. 99
    BY <1>2, <2>5, RepliesAssumption
  <2>8. net' \in Seq(Token)
    <3> DEFINE n == sent'
               len2 == output'
               e == code'
               l == leftover'
    <3>1. n \in Nat /\ len2 \in Nat /\ e \in 0 .. 99 /\ l \in Seq(Token)
      BY <1>2, <2>3, <2>7
    <3> HIDE DEF n, len2, e, l
    <3>2. WholeReply(l, n, len2, e) \in Seq(Token)
      BY <3>1, ReplyTokens DEF ReplyHas
    <3> QED
      BY <2>6, <3>2 DEF n, len2, e, l
  <2>9. rxbuf' \o net' = net'
    BY <2>3, <2>8, ConcatEmptySeq
  <2>10. EOFs(rxbuf') = {}
    <3>1. Len(<<>>) = 0
      BY EmptySeq
    <3> QED
      BY <2>3, <3>1 DEF EOFs
  <2>11. rxbuf' \o net' = Stream'
    BY <2>6, <2>9 DEF Stream
  <2>12. sent' # 0 /\ OwnTokens'
    BY <1>2, <2>3 DEF OwnTokens
  <2> QED
    BY <2>3, <2>4, <2>10, <2>11, <2>12
<1>5. ASSUME NEW k \in 1 .. Len(net), Receive(k), UNCHANGED overruns
      PROVE  /\ rxbuf' \in Seq(Token) /\ net' \in Seq(Token)
             /\ Numbers(leftover)
             /\ rxbuf' \o net' = WholeReply(leftover, sent, output, code)
             /\ UNCHANGED <<sent, code, output, leftover, closed>>
  <2>1. Intact /\ sock = "reading" /\ UNCHANGED <<sent, code, output, leftover, closed>>
    BY <1>3, <1>5 DEF Receive, Intact
  <2>2. Numbers(leftover) /\ rxbuf \o net = Stream
    BY <1>1, <2>1 DEF TcpInv
  <2>3. rxbuf' \in Seq(Token) /\ net' \in Seq(Token) /\ rxbuf' \o net' = rxbuf \o net
    BY <1>5, ReceiveTypes
  <2> QED
    BY <2>1, <2>2, <2>3 DEF Stream
<1>6. ASSUME NEW k \in 1 .. Len(net), ReadToEOF(k)
      PROVE  /\ sock' = "idle" /\ Numbers(leftover') /\ Numbers(net') /\ OwnTokens'
             /\ sent' = 0 => net' = <<>>
  <2> DEFINE b == rxbuf'
             m == net'
  <2>1. Receive(k) /\ UNCHANGED overruns /\ sock' = "idle" /\ EOFs(b) # {}
    BY <1>6 DEF ReadToEOF
  <2>2. rc' = ResultOf(b) /\ response' = SubSeq(b, 1, FirstEOF(b) - 1)
    BY <1>6 DEF ReadToEOF
  <2>3. /\ b \in Seq(Token) /\ m \in Seq(Token) /\ Numbers(leftover)
        /\ b \o m = WholeReply(leftover, sent, output, code)
        /\ UNCHANGED <<sent, code, output, leftover, closed>>
    BY <1>5, <2>1
  <2> HIDE DEF b, m
  <2>4. /\ SubSeq(b, 1, FirstEOF(b) - 1) = Answer(leftover, sent, output)
        /\ ResultOf(b) < 0 => - ResultOf(b) \in {code, FirstDigit(code)}
        /\ \A i \in 1 .. Len(m) : m[i].cmd = sent /\ m[i].kind \in TrailerNumbers
    <3>1. code \in 0 .. 99 /\ output \in Nat /\ sent \in Nat /\ leftover \in Seq(Token)
      BY <1>2
    <3>2. EOFs(b) # {} /\ Numbers(leftover)
      BY <2>1, <2>3
    <3>3. b \in Seq(Token) /\ m \in Seq(Token)
      BY <2>3
    <3>4. b \o m = WholeReply(leftover, sent, output, code)
      BY <2>3
    <3>5. IsRead(leftover, sent, output, code, b, m)
      BY <3>1, <3>2, <3>3, <3>4, ReplyRead
    <3> QED
      BY <3>5, Zenon DEF IsRead
  <2>5. net' = m
    BY DEF m
  <2>6. sent > 0
    <3>1. Intact /\ sock = "reading"
      BY <1>3, <2>1 DEF Receive, Intact
    <3> QED
      BY <1>1, <1>2, <3>1 DEF TcpInv
  <2>7. response' = leftover' \o Output(sent', output')
    BY <2>2, <2>3, <2>4 DEF Answer
  <2>8. rc' < 0 => - rc' \in {code', FirstDigit(code')}
    BY <2>2, <2>3, <2>4
  <2>9. \A i \in 1 .. Len(net') : net'[i].cmd = sent' /\ net'[i].kind \in TrailerNumbers
    BY <2>3, <2>4, <2>5
  <2>10. OwnTokens'
    BY <2>7, <2>8, <2>9 DEF OwnTokens
  <2>11. Numbers(net') /\ Numbers(leftover')
    BY <2>3, <2>9 DEF Numbers
  <2>12. sent' # 0
    BY <2>3, <2>6
  <2> QED
    BY <2>1, <2>10, <2>11, <2>12
<1>7. ASSUME NEW k \in 1 .. Len(net), ReadMore(k)
      PROVE  /\ sock' = "reading" /\ Numbers(leftover') /\ (rxbuf \o net = Stream)'
             /\ EOFs(rxbuf') = {} /\ sent' # 0
  <2>1. Receive(k) /\ UNCHANGED <<overruns, sock>> /\ EOFs(rxbuf') = {}
    BY <1>7 DEF ReadMore
  <2>2. sock = "reading"
    BY <2>1 DEF Receive
  <2>3. /\ rxbuf' \in Seq(Token) /\ net' \in Seq(Token) /\ Numbers(leftover)
        /\ rxbuf' \o net' = WholeReply(leftover, sent, output, code)
        /\ UNCHANGED <<sent, code, output, leftover, closed>>
    BY <1>5, <2>1
  <2>4. sent # 0
    <3>1. Intact
      BY <1>3, <2>1 DEF Receive, Intact
    <3> QED
      BY <1>1, <1>2, <2>2, <3>1 DEF TcpInv
  <2> QED
    BY <2>1, <2>2, <2>3, <2>4 DEF Stream
<1>8. ASSUME NEW k \in 1 .. Len(net), ReadToFull(k) PROVE FALSE
  BY <1>2, <1>3, <1>8 DEF ReadToFull
<1>9. CASE Read
  <2>1. ~ ReadEnds
    BY <1>3 DEF ReadEnds
  <2>2. PICK k \in 1 .. Len(net) : ReadToEOF(k) \/ ReadMore(k) \/ ReadToFull(k)
    BY <1>9, <2>1 DEF Read
  <2>3. CASE ReadToEOF(k)
    <3>1. /\ sock' = "idle" /\ Numbers(leftover') /\ Numbers(net') /\ OwnTokens'
          /\ sent' = 0 => net' = <<>>
      BY <1>6, <2>3
    <3> QED
      BY <3>1
  <2>4. CASE ReadMore(k)
    <3>1. /\ sock' = "reading" /\ Numbers(leftover') /\ (rxbuf \o net = Stream)'
          /\ EOFs(rxbuf') = {} /\ sent' # 0
      BY <1>7, <2>4
    <3>2. OwnTokens'
      BY <3>1 DEF OwnTokens
    <3> QED
      BY <3>1, <3>2
  <2> QED
    BY <1>8, <2>2, <2>3, <2>4
<1> QED
  BY <1>1, <1>2, <1>3, <1>4, <1>9 DEF SessionNext, SendLine, ReadLine, CopyLine, CopyOverruns,
     EndOfReply, Reads, IncompleteReply, Closes, CardCloses, GivenUp

-----------------------------------------------------------------------------
\* The session over a driver.

\* What has been copied of an answer is its beginning, and all of it when the
\* line EOF comes next.
AreRead(r, q, n, len, ecode) ==
    LET all == Front(Lines(n, len, ecode))
    IN  /\ IsPrefix(r, all)
        /\ Len(q) > 0 /\ q[1].kind = "EOF" =>
              /\ r = all /\ Len(q) = 1
              /\ Len(r) = IF ecode > 0 THEN len + 1 ELSE len
              /\ \A i \in 1 .. len : r[i].kind = "output"
              /\ ecode > 0 => r[len + 1].kind = "ERROR"

\* Reading lines up to EOF gives the response.
LEMMA LinesRead ==
    ASSUME NEW n \in Nat \ {0}, NEW len \in Nat, NEW ecode \in Nat,
           NEW r \in Seq(Token), NEW q \in Seq(Token),
           r \o q = Lines(n, len, ecode),
           \A i \in 1 .. Len(r) : r[i].kind \in {"output", "ERROR"}
    PROVE  AreRead(r, q, n, len, ecode)
<1> DEFINE s == Lines(n, len, ecode)
           k == Len(s) - 1
           front == SubSeq(s, 1, k)
<1>1. /\ s \in Seq(Token) /\ k \in Nat /\ k = IF ecode > 0 THEN len + 1 ELSE len
      /\ s[k + 1].kind = "EOF"
      /\ \A i \in 1 .. len : s[i].kind = "output"
      /\ ecode > 0 => s[len + 1].kind = "ERROR"
  <2>1. LinesHave(n, len, ecode)
    BY LineTokens
  <2> QED
    BY <2>1, Zenon DEF LinesHave
<1>2. /\ Len(r) \in Nat /\ Len(q) \in Nat /\ Len(r \o q) = Len(r) + Len(q)
      /\ \A i \in 1 .. Len(r) : (r \o q)[i] = r[i]
      /\ \A j \in 1 .. Len(q) : (r \o q)[Len(r) + j] = q[j]
  BY Halves
<1>3. r \o q = s
  OBVIOUS
<1>4. Len(s) = k + 1
  <2>1. Len(s) \in Nat
    BY <1>1, LenProperties
  <2> QED
    BY <2>1
<1>5. Front(s) = front
  BY DEF Front
<1> HIDE DEF s, k
<1>6. /\ Len(r) + Len(q) = k + 1
      /\ \A i \in 1 .. Len(r) : r[i] = s[i]
      /\ \A j \in 1 .. Len(q) : q[j] = s[Len(r) + j]
  BY <1>2, <1>3, <1>4
<1>7. Len(r) <= k
  <2> SUFFICES ASSUME k + 1 \in 1 .. Len(r) PROVE FALSE
    BY <1>1, <1>2, <1>6
  <2>1. r[k + 1] = s[k + 1] /\ r[k + 1].kind \in {"output", "ERROR"}
    BY <1>6
  <2>2. r[k + 1].kind = "EOF"
    BY <1>1, <2>1
  <2> QED
    BY <2>1, <2>2
<1>8. /\ front \in Seq(Token) /\ Len(front) = k
      /\ \A i \in 1 .. k : front[i] = s[i]
  <2>1. \A i \in 1 .. Len(s) : s[i] \in Token
    BY <1>1, ElementOfSeq
  <2>2. 1 \in Int /\ k \in Int /\ \A i \in 1 .. k : s[i] \in Token
    BY <1>1, <1>4, <2>1
  <2>3. /\ front \in Seq(Token) /\ Len(front) = IF 1 <= k THEN k - 1 + 1 ELSE 0
        /\ \A i \in 1 .. k - 1 + 1 : front[i] = s[1 + i - 1]
    BY <2>2, SubSeqProperties
  <2> HIDE DEF front
  <2>4. ASSUME NEW i \in 1 .. k PROVE front[i] = s[i]
    <3>1. i \in 1 .. k - 1 + 1 /\ 1 + i - 1 = i
      BY <1>1
    <3> QED
      BY <2>3, <3>1
  <2> QED
    BY <1>1, <2>3, <2>4
<1> HIDE DEF front
<1>9. \A i \in 1 .. Len(r) : r[i] = front[i]
  BY <1>1, <1>2, <1>6, <1>7, <1>8
<1>10. SubSeq(front, 1, Len(r)) = r
  BY <1>7, <1>8, <1>9, Beginning
<1>11. IsPrefix(r, front)
  <2>1. SubSeq(r, 1, Len(r)) = r
    BY SubSeqFull
  <2> QED
    BY <1>7, <1>8, <1>10, <2>1 DEF IsPrefix
<1>12. ASSUME Len(q) > 0, q[1].kind = "EOF"
       PROVE  /\ r = front /\ Len(q) = 1 /\ Len(r) = k
              /\ \A i \in 1 .. len : r[i].kind = "output"
              /\ ecode > 0 => r[len + 1].kind = "ERROR"
  <2>1. s[Len(r) + 1].kind = "EOF" /\ Len(r) + 1 \in 1 .. k + 1
    <3>1. Len(r) \in Nat /\ Len(q) \in Nat /\ k \in Nat /\ Len(r) <= k
      BY <1>1, <1>2, <1>7
    <3>2. 1 \in 1 .. Len(q)
      BY <1>12, <3>1
    <3>3. q[1] = s[Len(r) + 1]
      BY <1>6, <3>2
    <3>4. s[Len(r) + 1].kind = "EOF"
      BY <1>12, <3>3
    <3>5. Len(r) + 1 \in 1 .. k + 1
      BY <3>1
    <3> QED
      BY <3>4, <3>5
  <2>2. ASSUME NEW i \in 1 .. k PROVE s[i].kind # "EOF"
    <3>1. i \in 1 .. len \/ (ecode > 0 /\ i = len + 1)
      BY <1>1
    <3>2. CASE i \in 1 .. len
      <4>1. s[i].kind = "output"
        BY <1>1, <3>2
      <4> QED
        BY <4>1
    <3>3. CASE ecode > 0 /\ i = len + 1
      <4>1. s[i].kind = "ERROR"
        BY <1>1, <3>3
      <4> QED
        BY <4>1
    <3> QED
      BY <3>1, <3>2, <3>3
  <2>3. Len(r) = k
    BY <1>1, <1>2, <1>7, <2>1, <2>2
  <2>4. Len(q) = 1
    <3>1. Len(q) \in Nat /\ k \in Nat /\ Len(r) + Len(q) = k + 1
      BY <1>1, <1>2, <1>6
    <3> DEFINE x == Len(q)
    <3>2. x \in Nat /\ k + x = k + 1
      BY <2>3, <3>1
    <3> HIDE DEF x
    <3>3. x = 1
      BY <3>1, <3>2
    <3> QED
      BY <3>3 DEF x
  <2>5. r = front
    BY <1>8, <1>9, <2>3, SeqEqual
  <2>6. \A i \in 1 .. len : r[i].kind = "output"
    BY <1>1, <1>6, <2>3
  <2>7. ecode > 0 => r[len + 1].kind = "ERROR"
    BY <1>1, <1>6, <2>3
  <2> QED
    BY <2>3, <2>4, <2>5, <2>6, <2>7
<1> DEFINE all == Front(Lines(n, len, ecode))
<1>13. all = front
  BY <1>5 DEF s
<1> HIDE DEF all
<1>14. IsPrefix(r, all)
  BY <1>11, <1>13
<1>15. ASSUME Len(q) > 0, q[1].kind = "EOF"
       PROVE  /\ r = all /\ Len(q) = 1
              /\ Len(r) = IF ecode > 0 THEN len + 1 ELSE len
              /\ \A i \in 1 .. len : r[i].kind = "output"
              /\ ecode > 0 => r[len + 1].kind = "ERROR"
  BY <1>1, <1>12, <1>13, <1>15
<1> QED
  BY <1>14, <1>15, Zenon DEF AreRead, all

\* Every step keeps the files of a driver and what is read from them in step.
LEMMA LineStep ==
    ASSUME SessionTypes, KddTypes, ChannelInv, FilesInv, LinesInv, SessionNext
    PROVE  FilesInv' /\ LinesInv'
<1> DEFINE Files == {"cmd", "shell"}
           Own == ~ wasLate \/ (transport = "hostdrv" /\ fd = "shell")
           All == Lines(sent, output, code)
<1> SUFFICES ASSUME transport' # "dt100", overruns' = 0
             PROVE  /\ (sock # "dead")'
                    /\ \A f \in Files \ late' : (sock' = "reading" /\ fd' = f) \/ fds'[f] = <<>>
                    /\ sock' = "reading" => wasLate' = (fd' \in late')
                    /\ sent' > 0 =>
                        \A i \in 1 .. Len(response') : response'[i].kind \in {"output", "ERROR"}
                    /\ sock' = "reading" /\ Own' => response' \o fds'[fd'] = All'
                    /\ OwnLines'
  BY DEF FilesInv, LinesInv, OwnSession
<1>1. /\ transport # "dt100" /\ UNCHANGED transport
      /\ (\E f \in Files : SendLine(f)) \/ ReadLine
  <2>1. UNCHANGED transport
    BY DEF SessionNext, kdd, SendLine, ReadLine, CopyLine, CopyOverruns, EndOfReply, Reads,
       IncompleteReply, Closes, GivenUp
  <2>2. net = <<>> /\ ~ closed
    BY <2>1 DEF ChannelInv
  <2>3. ~ Read
    <3>1. Len(net) = 0
      BY <2>2, EmptySeq
    <3> QED
      BY <2>2, <3>1 DEF Read, ReadEnds
  <2> QED
    BY <2>1, <2>3 DEF SessionNext, Closes, GivenUp
<1>2. /\ sent \in Nat /\ code \in Nat /\ output \in Nat /\ overruns \in Nat
      /\ response \in Seq(Token)
  BY RepliesAssumption DEF SessionTypes
<1>3. /\ fds \in [Files -> Seq(LineSet(sent))] /\ fd \in Files
      /\ late \subseteq Files /\ wasLate \in BOOLEAN
  BY DEF KddTypes, LineSet
<1>4. ASSUME NEW f \in Files PROVE fds[f] \in Seq(Token)
  BY <1>2, <1>3, LineSetTokens
<1>5. overruns = 0
  <2>1. overruns' = overruns \/ overruns' = overruns + 1
    BY <1>1 DEF SendLine, ReadLine, CopyLine, CopyOverruns, EndOfReply, IncompleteReply
  <2> QED
    BY <1>2, <2>1
<1>6. /\ \A f \in Files \ late : (sock = "reading" /\ fd = f) \/ fds[f] = <<>>
      /\ sock = "reading" => wasLate = (fd \in late)
      /\ sent > 0 => \A i \in 1 .. Len(response) : response[i].kind \in {"output", "ERROR"}
      /\ sock = "reading" /\ Own => response \o fds[fd] = All
      /\ OwnLines /\ sock # "dead"
  BY <1>1, <1>5 DEF FilesInv, LinesInv, OwnSession
<1>7. ASSUME NEW f \in Files, SendLine(f)
      PROVE  /\ sock' = "reading" /\ fd' = f /\ late' = late /\ wasLate' = (f \in late)
             /\ response' = <<>>
             /\ \A g \in Files \ late : g # f => fds'[g] = <<>>
             /\ Own' => fds'[f] = All'
  <2> USE <1>7 DEF SendLine
  <2>1. /\ sock = "idle" /\ sock' = "reading" /\ fd' = f /\ late' = late
        /\ wasLate' = (f \in late) /\ response' = <<>> /\ sent' = sent + 1
    OBVIOUS
  <2>2. PICK len \in LineOutputs, ecode \in ErrorCodes :
          /\ output' = len /\ code' = ecode
          /\ \/ fds' = [fds EXCEPT ![f] = Unread(f) \o Lines(sent', len, ecode)]
             \/ Unread(f) # <<>> /\ UNCHANGED fds
    BY Zenon
  <2>3. \A g \in Files : g # f => fds'[g] = fds[g]
    BY <1>3, <2>2
  <2>4. \A g \in Files \ late : g # f => fds'[g] = <<>>
    BY <1>6, <2>1, <2>3
  <2>5. ASSUME Own' PROVE fds'[f] = All'
    <3>1. Unread(f) = <<>>
      <4>1. CASE f \notin late
        <5>1. fds[f] = <<>>
          BY <1>6, <2>1, <4>1
        <5> QED
          BY <5>1 DEF Unread
      <4>2. CASE f \in late
        <5>1. wasLate' = TRUE
          BY <2>1, <4>2
        <5>2. transport = "hostdrv" /\ f = "shell"
          BY <1>1, <2>1, <2>5, <5>1
        <5> QED
          BY <5>2 DEF Unread, OwnSession
      <4> QED
        BY <4>1, <4>2
    <3>2. fds'[f] = Unread(f) \o Lines(sent', len, ecode)
      BY <1>3, <2>2, <3>1
    <3>3. Lines(sent', output', code') \in Seq(Token)
      <4> DEFINE n == sent + 1
      <4>1. n \in Nat \ {0} /\ len \in Nat /\ ecode \in Nat
        BY <1>2, RepliesAssumption, TransportsAssumption
      <4> HIDE DEF n
      <4>2. LinesHave(n, len, ecode)
        BY <4>1, LineTokens
      <4>3. Lines(n, len, ecode) \in Seq(Token)
        BY <4>2 DEF LinesHave
      <4> QED
        BY <2>1, <2>2, <4>3 DEF n
    <3>4. fds'[f] = <<>> \o Lines(sent', output', code')
      BY <2>2, <3>1, <3>2
    <3> QED
      BY <3>3, <3>4, ConcatEmptySeq
  <2> QED
    BY <2>1, <2>4, <2>5
<1>8. CASE \E f \in Files : SendLine(f)
  <2>1. PICK f \in Files : SendLine(f)
    BY <1>8
  <2>2. /\ sock' = "reading" /\ fd' = f /\ late' = late /\ wasLate' = (f \in late)
        /\ response' = <<>>
        /\ \A g \in Files \ late : g # f => fds'[g] = <<>>
        /\ Own' => fds'[f] = All'
    BY <1>7, <2>1
  <2>3. Own' => response' \o fds'[fd'] = All'
    <3>1. fds'[f] = All' => <<>> \o fds'[f] = All'
      <4> DEFINE x == fds'[f]
      <4>1. x \in Seq(Token)
        <5>1. SessionTypes' /\ KddTypes'
          BY TypesStep
        <5>2. sent' \in Nat /\ fds' \in [Files -> Seq(LineSet(sent'))]
          BY <5>1 DEF SessionTypes, KddTypes, LineSet
        <5>3. x \in Seq(LineSet(sent'))
          BY <5>2
        <5> DEFINE n == sent'
        <5>4. n \in Nat /\ x \in Seq(LineSet(n))
          BY <5>2, <5>3
        <5> HIDE DEF n, x
        <5> QED
          BY <5>4, LineSetTokens
      <4> HIDE DEF x
      <4>2. <<>> \o x = x
        BY <4>1, ConcatEmptySeq
      <4> QED
        BY <4>2 DEF x
    <3> QED
      BY <2>2, <3>1
  <2>4. OwnLines'
    BY <2>2 DEF OwnLines
  <2>5. Len(response') = 0
    BY <2>2, EmptySeq
  <2> QED
    BY <2>2, <2>3, <2>4, <2>5
<1>9. ASSUME NEW kinds, Reads(kinds)
      PROVE  /\ sock = "reading" /\ sent > 0 /\ fds[fd] # <<>> /\ Head(fds[fd]).kind \in kinds
             /\ fds'[fd] = Tail(fds[fd])
             /\ \A g \in Files : g # fd => fds'[g] = fds[g]
             /\ UNCHANGED <<sent, code, output, fd, late, wasLate>>
             /\ Head(fds[fd]) \in Token /\ Head(fds[fd]) = fds[fd][1]
             /\ Tail(fds[fd]) \in Seq(Token) /\ Len(fds[fd]) \in Nat \ {0}
  <2> USE <1>9 DEF Reads
  <2>1. fds[fd] \in Seq(LineSet(sent)) /\ fds[fd] \in Seq(Token) /\ fds[fd] # <<>>
    BY <1>3, <1>4
  <2>2. Head(fds[fd]) \in LineSet(sent)
    BY <2>1, HeadTailProperties
  <2>3. sent > 0
    BY <1>2, <2>2 DEF LineSet
  <2> DEFINE q == fds[fd]
  <2>4. q \in Seq(Token) /\ q # <<>>
    BY <2>1
  <2> HIDE DEF q
  <2>5. Head(q) \in Token /\ Head(q) = q[1] /\ Tail(q) \in Seq(Token) /\ Len(q) \in Nat \ {0}
    BY <2>4, HeadMoved
  <2>6. /\ fds'[fd] = Tail(fds[fd]) /\ \A g \in Files : g # fd => fds'[g] = fds[g]
    BY <1>3
  <2>7. /\ sock = "reading" /\ Head(fds[fd]).kind \in kinds
        /\ UNCHANGED <<sent, code, output, fd, late, wasLate>>
    OBVIOUS
  <2> QED
    BY <2>1, <2>3, <2>5, <2>6, <2>7 DEF q
<1>10. Own' <=> (~ wasLate' \/ (transport = "hostdrv" /\ fd' = "shell"))
  BY <1>1
<1>11. CASE CopyLine
  <2> DEFINE q == fds[fd]
             h == Head(q)
  <2>1. /\ Reads({"output", "ERROR"}) /\ response' = Append(response, h)
        /\ UNCHANGED <<overruns, sock, rc>>
    BY <1>11 DEF CopyLine
  <2>2. /\ sock = "reading" /\ sent > 0 /\ q # <<>> /\ h.kind \in {"output", "ERROR"}
        /\ fds'[fd] = Tail(q)
        /\ \A g \in Files : g # fd => fds'[g] = fds[g]
        /\ UNCHANGED <<sent, code, output, fd, late, wasLate>>
        /\ h \in Token
    BY <1>9, <2>1
  <2>3. q \in Seq(Token)
    BY <1>3, <1>4
  <2>4. All' = All
    BY <2>2
  <2> HIDE DEF q
  <2>5. Append(response, h) \o Tail(q) = response \o q
    BY <1>2, <2>2, <2>3, HeadMoved
  <2>6. Own' => response' \o fds'[fd'] = All'
    <3>1. Own' => response \o q = All
      BY <1>6, <1>10, <2>2 DEF q
    <3> QED
      BY <2>1, <2>2, <2>4, <2>5, <3>1
  <2>7. \A i \in 1 .. Len(response') : response'[i].kind \in {"output", "ERROR"}
    <3> HIDE DEF h
    <3>1. /\ Len(Append(response, h)) = Len(response) + 1
          /\ \A i \in 1 .. Len(response) : Append(response, h)[i] = response[i]
          /\ Append(response, h)[Len(response) + 1] = h
      BY <1>2, <2>2, AppendProperties
    <3>2. Len(response) \in Nat
      BY <1>2, LenProperties
    <3>3. \A i \in 1 .. Len(response) : response[i].kind \in {"output", "ERROR"}
      BY <1>6, <2>2
    <3> DEFINE x == Append(response, h)
               k == Len(response)
    <3>4. /\ k \in Nat /\ Len(x) = k + 1 /\ x[k + 1] = h
          /\ \A i \in 1 .. k : x[i].kind \in {"output", "ERROR"}
      BY <3>1, <3>2, <3>3
    <3> HIDE DEF x, k
    <3>5. ASSUME NEW i \in 1 .. k + 1 PROVE x[i].kind \in {"output", "ERROR"}
      <4>1. i \in 1 .. k \/ i = k + 1
        BY <3>4
      <4> QED
        BY <2>2, <3>4, <4>1
    <3> QED
      BY <2>1, <3>4, <3>5 DEF x
  <2>8. \A f \in Files \ late' : (sock' = "reading" /\ fd' = f) \/ fds'[f] = <<>>
    BY <1>6, <2>1, <2>2
  <2>9. sock' = "reading" /\ wasLate' = (fd' \in late') /\ OwnLines'
    BY <1>6, <2>1, <2>2 DEF OwnLines
  <2> QED
    BY <2>6, <2>7, <2>8, <2>9
<1>12. ~ CopyOverruns
  BY <1>5 DEF CopyOverruns
<1>13. CASE EndOfReply
  <2> DEFINE q == fds[fd]
  <2>1. /\ Reads({"EOF"}) /\ sock' = "idle" /\ UNCHANGED <<overruns, response>>
        /\ rc' \in IF \E i \in DOMAIN response : response[i].kind = "ERROR" THEN {-1}
                   ELSE IF response = <<>> THEN {0, -1} ELSE {Len(response)}
    BY <1>13 DEF EndOfReply
  <2>2. /\ sock = "reading" /\ sent > 0 /\ q # <<>> /\ Head(q).kind \in {"EOF"}
        /\ fds'[fd] = Tail(q)
        /\ \A g \in Files : g # fd => fds'[g] = fds[g]
        /\ UNCHANGED <<sent, code, output, fd, late, wasLate>>
        /\ Head(q) = q[1] /\ Tail(q) \in Seq(Token) /\ Len(q) \in Nat \ {0}
    BY <1>9, <2>1
  <2>3. q \in Seq(Token)
    BY <1>3, <1>4
  <2>4. q[1].kind = "EOF" /\ Len(q) > 0
    BY <2>2
  <2>5. \A i \in 1 .. Len(response) : response[i].kind \in {"output", "ERROR"}
    BY <1>6, <2>2
  <2>6. ASSUME Own
        PROVE  /\ IsPrefix(response, Front(All)) /\ response = Front(All) /\ Len(q) = 1
               /\ Len(response) = IF code > 0 THEN output + 1 ELSE output
               /\ \A i \in 1 .. output : response[i].kind = "output"
               /\ code > 0 => response[output + 1].kind = "ERROR"
    <3>1. response \o q = Lines(sent, output, code)
      BY <1>6, <2>2, <2>6
    <3>2. sent \in Nat \ {0}
      BY <1>2, <2>2
    <3> HIDE DEF q
    <3>3. AreRead(response, q, sent, output, code)
      BY <1>2, <2>3, <2>5, <3>1, <3>2, LinesRead
    <3> QED
      BY <2>4, <3>3 DEF AreRead
  <2>7. Own => Tail(q) = <<>>
    <3> HIDE DEF q
    <3>1. Own => Len(Tail(q)) = 0
      BY <2>2, <2>3, <2>6, HeadTailProperties
    <3>2. Tail(q) # <<>> => Len(Tail(q)) \in Nat \ {0}
      BY <2>2, EmptySeq
    <3> QED
      BY <3>1, <3>2
  <2>8. \A f \in Files \ late' : fds'[f] = <<>>
    <3>1. ASSUME NEW f \in Files \ late PROVE fds'[f] = <<>>
      <4>1. CASE f = fd
        BY <1>6, <2>2, <2>7, <4>1
      <4>2. CASE f # fd
        BY <1>6, <2>2, <4>2
      <4> QED
        BY <4>1, <4>2
    <3> QED
      BY <2>2, <3>1
  <2>9. DOMAIN response = 1 .. Len(response) /\ Len(response) \in Nat
    BY <1>2, LenProperties
  <2>10. ASSUME Own PROVE (rc' >= 0 => code = 0) /\ (rc' < 0 => code > 0 \/ output = 0)
    <3>1. CASE code > 0
      <4>1. Len(response) = output + 1 /\ response[output + 1].kind = "ERROR"
        BY <2>6, <2>10, <3>1
      <4>2. output + 1 \in DOMAIN response
        BY <1>2, <2>9, <4>1
      <4>3. rc' = -1
        BY <2>1, <4>1, <4>2
      <4> QED
        BY <3>1, <4>3
    <3>2. CASE ~ (code > 0)
      <4>1. code = 0 /\ Len(response) = output /\ \A i \in 1 .. output : response[i].kind = "output"
        BY <1>2, <2>6, <2>10, <3>2
      <4>2. ~ \E i \in DOMAIN response : response[i].kind = "ERROR"
        BY <2>9, <4>1
      <4>3. CASE response = <<>>
        <5>1. output = 0
          BY <4>1, <4>3, EmptySeq
        <5> QED
          BY <4>1, <5>1
      <4>4. CASE response # <<>>
        <5>1. rc' = Len(response)
          BY <2>1, <4>2, <4>4
        <5> QED
          BY <2>9, <4>1, <5>1
      <4> QED
        BY <4>3, <4>4
    <3> QED
      BY <3>1, <3>2
  <2>11. OwnLines'
    <3>1. ASSUME Own' PROVE Own
      BY <1>10, <2>2, <3>1
    <3>2. Own' => IsPrefix(response, Front(All)) /\ response = Front(All)
      BY <2>6, <3>1
    <3>3. Own' => (rc' >= 0 => code = 0) /\ (rc' < 0 => code > 0 \/ output = 0)
      BY <2>10, <3>1
    <3>4. response' = response /\ sent' = sent /\ output' = output /\ code' = code
      BY <2>1, <2>2
    <3> QED
      BY <3>2, <3>3, <3>4 DEF OwnLines
  <2> QED
    BY <2>1, <2>2, <2>5, <2>8, <2>11
<1>14. CASE IncompleteReply
  <2>1. /\ sock = "reading" /\ fds' \in {fds, [fds EXCEPT ![fd] = <<>>]}
        /\ late' = late \cup {fd} /\ sock' = "idle" /\ rc' = -1
        /\ UNCHANGED <<sent, code, output, response, fd, wasLate>>
    BY <1>14 DEF IncompleteReply
  <2>2. \A f \in Files \ late' : fds'[f] = <<>>
    BY <1>3, <1>6, <2>1
  <2>3. sent' > 0 => \A i \in 1 .. Len(response') : response'[i].kind \in {"output", "ERROR"}
    BY <1>6, <2>1
  <2>4. OwnLines'
    <3>1. ASSUME Own', sent > 0 PROVE IsPrefix(response, Front(All))
      <4> DEFINE q == fds[fd]
      <4>1. response \o q = Lines(sent, output, code)
        BY <1>6, <1>10, <2>1, <3>1
      <4>2. sent \in Nat \ {0} /\ q \in Seq(Token)
        BY <1>2, <1>3, <1>4, <3>1
      <4>3. \A i \in 1 .. Len(response) : response[i].kind \in {"output", "ERROR"}
        BY <1>6, <3>1
      <4> HIDE DEF q
      <4>4. AreRead(response, q, sent, output, code)
        BY <1>2, <4>1, <4>2, <4>3, LinesRead
      <4> QED
        BY <4>4 DEF AreRead
    <3> QED
      BY <2>1, <3>1 DEF OwnLines
  <2> QED
    BY <2>1, <2>2, <2>3, <2>4
<1> QED
  BY <1>1, <1>8, <1>11, <1>12, <1>13, <1>14 DEF ReadLine

-----------------------------------------------------------------------------
\* The calls over a session.

\* When a command of an intact session has returned, acq2sh() has written to
\* the caller's buffer.
LEMMA ResponseWritten ==
    ASSUME SessionTypes, TcpInv, FilesInv, sock = "idle", Intact, sent > 0
    PROVE  response # Untouched
<1> SUFFICES ASSUME response = Untouched PROVE FALSE
  OBVIOUS
<1>1. Len(response) = 1 /\ response[1].kind = "stale"
  BY DEF Untouched
<1>2. response[1].kind \in {"output", "ERROR"} \cup TrailerNumbers
  <2>1. CASE transport = "dt100"
    <3>1. response = Answer(leftover, sent, output) /\ Numbers(leftover)
      BY <2>1 DEF TcpInv, OwnTokens, Answer
    <3> DEFINE x == Answer(leftover, sent, output)
               y == WholeReply(leftover, sent, output, code)
               k == Len(leftover)
    <3>2. ReplyHas(leftover, sent, output, code)
      <4>1. leftover \in Seq(Token) /\ sent \in Nat /\ output \in Nat /\ code \in 0 .. 99
        BY RepliesAssumption DEF SessionTypes
      <4> QED
        BY <4>1, ReplyTokens
    <3> DEFINE e == k + output + 1
    <3>3. /\ k \in Nat /\ Len(x) = e - 1
          /\ \A i \in 1 .. k : y[i] = leftover[i]
          /\ \A i \in k + 1 .. e - 1 : y[i].kind = "output"
          /\ \A i \in 1 .. e - 1 : y[i] = x[i]
      BY <3>2, Zenon DEF ReplyHas
    <3>4. output \in Nat
      BY DEF SessionTypes
    <3>5. Len(x) = 1
      BY <1>1, <3>1
    <3> HIDE DEF x, y
    <3>6. \A i \in 1 .. k : leftover[i].kind \in TrailerNumbers
      BY <3>1 DEF Numbers
    <3> HIDE DEF k
    <3>7. k + output = 1
      BY <3>3, <3>4, <3>5
    <3>8. y[1] = x[1]
      <4>1. 1 \in 1 .. e - 1
        BY <3>3, <3>4, <3>7
      <4> HIDE DEF e
      <4> QED
        BY <3>3, <4>1
    <3>9. CASE k = 1
      <4>1. y[1] = leftover[1] /\ leftover[1].kind \in TrailerNumbers
        BY <3>3, <3>6, <3>9
      <4> QED
        BY <3>1, <3>8, <4>1 DEF x
    <3>10. CASE k = 0
      <4>1. y[1].kind = "output"
        BY <3>3, <3>4, <3>7, <3>10
      <4> QED
        BY <3>1, <3>8, <4>1 DEF x
    <3> QED
      BY <3>3, <3>4, <3>7, <3>9, <3>10
  <2>2. CASE transport # "dt100"
    <3>1. \A i \in 1 .. Len(response) : response[i].kind \in {"output", "ERROR"}
      BY <2>2 DEF FilesInv, Intact
    <3> QED
      BY <1>1, <3>1
  <2> QED
    BY <2>1, <2>2
<1> QED
  BY <1>1, <1>2 DEF TrailerNumbers

\* A damaged session stays damaged.
LEMMA DamageStays ==
    ASSUME SessionTypes, [SessionNext]_sessions
    PROVE  /\ Intact' => Intact
           /\ sent \in Nat /\ (sent' = sent \/ sent' = sent + 1)
<1>1. overruns \in Nat /\ sent \in Nat /\ closed \in BOOLEAN
  BY DEF SessionTypes
<1> QED
  BY <1>1 DEF SessionNext, sessions, session, kdd, Intact, Send, SendLine, Read, ReadToEOF,
     ReadMore, ReadToFull, Receive, ReadEnds, ReadLine, CopyLine, CopyOverruns, EndOfReply,
     IncompleteReply,
     Reads, Closes, CardCloses, GivenUp

\* Every step keeps what a program has been told by its card.
LEMMA VoltsStep ==
    ASSUME SessionTypes, VoltsInv, TaskInv, ProgramsNext,
           sock = "idle" /\ Intact /\ sent > 0 => response # Untouched
    PROVE  VoltsInv' /\ TaskInv'
<1>1. /\ Intact' => Intact
      /\ sent \in Nat /\ (sent' = sent \/ sent' = sent + 1)
  BY ProgramStep, DamageStays
<1>2. Channels \in Nat \ {0} /\ Null = -1
  BY ChannelsAssumption DEF Null
<1>3. UNCHANGED program
  BY DEF ProgramsNext, CardNext, programs, given, CardRuns, SomebodyArms, Library, TestCalls,
     TestReply, Interrupt, Poll, PollCalls, PollReply, PollEnds, OpenStat, ReadStat,
     NoStateChange, StatEnds,
     ShellCommand, ShellComment, ShellReply, ShellEnds
\* The calls that leave ai, ranges and volts alone.
<1>4. ASSUME UNCHANGED <<ai, ranges, failed, volts, task>>
      PROVE  VoltsInv' /\ TaskInv'
  BY <1>1, <1>3, <1>4 DEF VoltsInv, TaskInv
<1>5. ASSUME UNCHANGED <<ai, ranges, volts>>, failed' = failed \/ failed', task' = "none",
             task # "getChannelRanges" \/ program # "library" \/ failed'
      PROVE  VoltsInv' /\ TaskInv'
  BY <1>1, <1>3, <1>5 DEF VoltsInv, TaskInv
<1>6. ASSUME NEW what, Ask(what), UNCHANGED <<ai, ranges, failed, volts>>,
             program # "library" \/ (task = "none" /\ what \notin {"data", "getChannelRanges"})
      PROVE  VoltsInv' /\ TaskInv'
  <2>1. sent' = sent + 1 /\ task' = what
    BY <1>6 DEF Ask, Send, SendLine
  <2> QED
    BY <1>1, <1>3, <1>6, <2>1 DEF VoltsInv, TaskInv
<1>7. CASE Library
  <2>1. program = "library"
    BY <1>7 DEF Library
  <2>2. CASE CallVolts
    <3>1. CASE /\ ranges = Null /\ ai = -1
               /\ Ask("getAvailableChannels")
               /\ UNCHANGED <<ai, ranges, failed, volts>>
      BY <1>6, <2>2, <3>1 DEF CallVolts
    <3>2. CASE /\ ranges = Null /\ ai # -1
               /\ ranges' = 0
               /\ Ask("getChannelRanges")
               /\ UNCHANGED <<ai, failed, volts>>
      <4>1. sent' = sent + 1 /\ task' = "getChannelRanges"
        BY <3>2 DEF Ask, Send, SendLine
      <4> QED
        BY <1>1, <1>2, <1>3, <2>1, <3>2, <4>1 DEF VoltsInv, TaskInv
    <3>3. CASE /\ ranges # Null /\ sock # "dead"
               /\ task' = "data"
               /\ UNCHANGED <<session, kdd, ai, ranges, asked, failed, volts>>
      <4>1. task = "none"
        BY <2>2 DEF CallVolts
      <4> QED
        BY <1>1, <1>3, <2>1, <3>3, <4>1 DEF VoltsInv, TaskInv
    <3> QED
      BY <2>2, <3>1, <3>2, <3>3 DEF CallVolts
  <2>3. CASE CallOther
    <3>1. PICK what \in LibraryCalls : Ask(what)
      BY <2>3 DEF CallOther
    <3>2. what \notin {"data", "getChannelRanges"}
      BY LibraryAssumption DEF Setters, Getters, Fields
    <3> QED
      BY <1>6, <2>3, <3>1, <3>2 DEF CallOther
  <2>4. CASE OtherReply
    <3>1. task # "getChannelRanges"
      BY <2>4, LibraryAssumption DEF OtherReply, Setters, Getters, Fields
    <3> QED
      BY <1>5, <2>4, <3>1 DEF OtherReply
  <2>5. CASE ChannelsReply
    <3>1. task = "getAvailableChannels" /\ sock = "idle"
      BY <2>5 DEF ChannelsReply
    <3>2. CASE Fails /\ UNCHANGED ranges
      <4>1. ai' \in {-1} \cup 1 .. Channels /\ (ai # -1 => ai' # -1)
        BY <1>2, <2>5, <3>1 DEF ChannelsReply, Fails, Ask, CountIn, TaskInv
      <4> QED
        BY <1>3, <2>1, <3>1, <3>2, <4>1 DEF Fails, VoltsInv, TaskInv
    <3>3. CASE /\ ai' \in CountIn
               /\ ranges' = 0
               /\ Ask("getChannelRanges")
               /\ UNCHANGED <<failed, volts>>
      <4>1. sent' = sent + 1 /\ task' = "getChannelRanges"
        BY <3>3 DEF Ask, Send, SendLine
      <4>2. (Intact => ai' = Channels) /\ ai' \in 1 .. Channels
        BY <1>2, <3>1, <3>3 DEF CountIn, TaskInv
      <4> QED
        BY <1>1, <1>2, <1>3, <2>1, <3>3, <4>1, <4>2 DEF VoltsInv, TaskInv
    <3> QED
      BY <2>5, <3>2, <3>3 DEF ChannelsReply
  <2>6. CASE RangesReply
    <3>1. task = "getChannelRanges" /\ ranges # Null
      BY <2>1, <2>6 DEF RangesReply, TaskInv
    <3>2. CASE Fails
      <4>1. UNCHANGED ai
        BY <1>2, <2>6, <3>1, <3>2 DEF RangesReply, Fails
      <4> QED
        BY <1>3, <2>1, <3>1, <3>2, <4>1 DEF Fails, VoltsInv, TaskInv
    <3>3. CASE /\ ranges' = ai
               /\ task' = "data"
               /\ UNCHANGED <<session, kdd, ai, asked, failed, volts>>
      <4>1. UNCHANGED ai /\ ranges' = ai /\ task' = "data" /\ UNCHANGED <<failed, volts>>
        BY <3>3
      <4>2. VoltsInv'
        BY <1>1, <1>2, <3>1, <4>1 DEF VoltsInv
      <4>3. TaskInv'
        BY <1>1, <1>2, <1>3, <2>1, <3>1, <4>1 DEF TaskInv
      <4> QED
        BY <4>2, <4>3
    <3> QED
      BY <2>6, <3>2, <3>3 DEF RangesReply
  <2>7. CASE Data
    <3>1. task = "data" /\ task' = "none" /\ UNCHANGED <<session, kdd, ai, ranges>> /\ ranges # Null
      BY <2>1, <2>7 DEF Data, TaskInv
    <3>2. Intact /\ ~ failed' => volts' # "raw"
      BY <1>2, <2>7, <3>1 DEF Data, VoltsInv
    <3>3. failed' \/ failed' = failed
      BY <2>7 DEF Data
    <3> QED
      BY <1>1, <1>3, <2>1, <3>1, <3>2, <3>3 DEF VoltsInv, TaskInv
  <2> QED
    BY <1>7, <2>2, <2>3, <2>4, <2>5, <2>6, <2>7 DEF Library, Call, Reply
<1>8. CASE TestReply
  <2>1. /\ task # "none" /\ sock = "idle" /\ task' = "none" /\ program # "library"
        /\ UNCHANGED <<ranges, failed, volts>>
        /\ ai' = ai \/ (task = "getAvailableChannels" /\ ai' \in CountIn)
    BY <1>8 DEF TestReply, Tests
  <2>2. (Intact => ai' = ai \/ ai' = Channels) /\ ai' \in {-1} \cup 1 .. Channels
    BY <1>2, <2>1 DEF CountIn, TaskInv
  <2> QED
    BY <1>1, <1>3, <2>1, <2>2 DEF VoltsInv, TaskInv
<1>9. CASE TestCalls
  BY <1>6, <1>9 DEF TestCalls, Command, Tests
<1>10. CASE PollCalls
  BY <1>6, <1>10 DEF PollCalls, Command, Polls
<1>11. CASE PollReply
  BY <1>5, <1>11 DEF PollReply, Polls
<1>12. CASE ShellCommand
  BY <1>6, <1>12 DEF ShellCommand, Shell, Shells
<1>13. CASE ShellReply
  BY <1>5, <1>13 DEF ShellReply, Shells
<1>14. ASSUME UNCHANGED vars PROVE UNCHANGED <<ai, ranges, failed, volts, task>>
  BY <1>14 DEF vars, api
<1>15. CASE Transport \/ Interrupt
  BY <1>4, <1>14, <1>15 DEF Transport, Interrupt, api
<1>16. CASE CardRuns \/ SomebodyArms \/ StatEnds \/ ShellComment \/ ShellEnds
  BY <1>4, <1>14, <1>16 DEF CardRuns, SomebodyArms, StatEnds, ShellComment, ShellEnds
<1>17. CASE PollEnds \/ OpenStat \/ ReadStat \/ NoStateChange
  BY <1>4, <1>14, <1>17 DEF PollEnds, OpenStat, ReadStat, NoStateChange
<1>18. CASE UNCHANGED <<vars, programs>>
  BY <1>4, <1>14, <1>18
<1> QED
  BY <1>7, <1>8, <1>9, <1>10, <1>11, <1>12, <1>13, <1>15, <1>16, <1>17, <1>18
     DEF ProgramsNext, CardNext, Poll

-----------------------------------------------------------------------------
\* The state in which a program begins.
LEMMA Begins == ProgramsInit => IInv
<1> SUFFICES ASSUME ProgramsInit PROVE IInv
  OBVIOUS
<1>1. SessionInit /\ KddInit /\ ai = -1 /\ ranges = Null /\ task = "none" /\ volts = "none"
  BY DEF ProgramsInit, Init
<1>2. <<>> \in Seq(Token) /\ Len(<<>>) = 0 /\ Untouched \in Seq(Token)
  BY EmptySeq DEF Untouched, Token
<1>3. SessionTypes
  <2>1. /\ net \in Seq(Token) /\ rxbuf \in Seq(Token)
        /\ leftover \in Seq(Token) /\ response \in Seq(Token)
    BY <1>1, <1>2 DEF SessionInit
  <2>2. Len(rxbuf) <= BufLen
    BY <1>1, <1>2, BufLenAssumption DEF SessionInit
  <2>3. /\ sent \in Nat /\ code \in ErrorCodes \cup {0} /\ output \in Nat /\ overruns \in Nat
        /\ closed \in BOOLEAN /\ sock \in {"idle", "reading", "dead"} /\ rc \in Int
    <3>1. /\ sent = 0 /\ code = 0 /\ output = 0 /\ overruns = 0 /\ closed = FALSE
          /\ sock = "idle" /\ rc = 0
      BY <1>1, Zenon DEF SessionInit
    <3>2. closed \in BOOLEAN
      BY <3>1, Zenon
    <3>3. sock \in {"idle", "reading", "dead"}
      BY <3>1, Zenon
    <3>4. code \in ErrorCodes \cup {0}
      BY <3>1, Zenon
    <3>5. sent \in Nat /\ output \in Nat /\ overruns \in Nat /\ rc \in Int
      <4>1. sent = 0 /\ output = 0 /\ overruns = 0 /\ rc = 0
        BY <3>1, Zenon
      <4> QED
        BY <4>1
    <3> QED
      BY <3>2, <3>3, <3>4, <3>5
  <2> QED
    BY <2>1, <2>2, <2>3 DEF SessionTypes
<1>4. KddTypes
  <2>1. <<>> \in Seq([kind : {"output", "ERROR", "EOF"}, cmd : 1 .. sent, val : Nat])
    BY EmptySeq
  <2> QED
    BY <1>1, <2>1 DEF KddInit, KddTypes
<1>5. ChannelInv
  BY <1>1 DEF SessionInit, ChannelInv
<1>6. TcpInv
  <2>1. Numbers(<<>>)
    BY <1>2 DEF Numbers
  <2> QED
    BY <1>1, <2>1 DEF SessionInit, TcpInv, OwnTokens
<1>7. FilesInv /\ LinesInv
  BY <1>1 DEF SessionInit, KddInit, FilesInv, LinesInv, OwnLines
<1>8. VoltsInv /\ TaskInv
  BY <1>1 DEF VoltsInv, TaskInv
<1> QED
  BY <1>3, <1>4, <1>5, <1>6, <1>7, <1>8 DEF IInv, SessionInv

\* Every step of a program preserves the invariant.
LEMMA StepKeeps == IInv /\ [ProgramsNext]_everything => IInv'
<1> SUFFICES ASSUME IInv, [ProgramsNext]_everything PROVE IInv'
  OBVIOUS
<1>1. [SessionNext]_sessions
  BY ProgramStep
<1>2. SessionInv'
  <2>1. CASE SessionNext
    BY <2>1, TypesStep, TcpStep, LineStep DEF IInv, SessionInv
  <2>2. CASE UNCHANGED sessions
    BY <2>2 DEF IInv, SessionInv, sessions, session, kdd, SessionTypes, KddTypes, ChannelInv,
       TcpInv, FilesInv, LinesInv, Intact, Stream, OwnTokens, OwnLines, OwnSession
  <2> QED
    BY <1>1, <2>1, <2>2
<1>3. VoltsInv' /\ TaskInv'
  <2>1. CASE ProgramsNext
    BY <2>1, ResponseWritten, VoltsStep DEF IInv, SessionInv
  <2>2. CASE UNCHANGED everything
    BY <2>2 DEF everything, vars, session, api, programs, given, IInv, VoltsInv, TaskInv, Intact
  <2> QED
    BY <2>1, <2>2
<1> QED
  BY <1>2, <1>3 DEF IInv

\* In every program the sessions and the calls over them keep the invariant.
THEOREM Invariance == ProgramsSpec => []IInv
BY Begins, StepKeeps, PTL DEF ProgramsSpec

\* Over TCP, a driver or hostdrv, a caller gets the reply to its own command,
\* whatever the lengths of the buffer, of the reply and of the chunks.
THEOREM OwnReply == ProgramsSpec => []OwnResponse
<1>1. IInv => OwnResponse
  <2> SUFFICES ASSUME IInv PROVE OwnResponse
    OBVIOUS
  <2>1. CASE transport = "dt100"
    BY <2>1 DEF IInv, SessionInv, TcpInv, OwnResponse, OwnTokens
  <2>2. CASE transport # "dt100"
    BY <2>2 DEF IInv, SessionInv, LinesInv, OwnResponse, OwnLines
  <2> QED
    BY <2>1, <2>2
<1> QED
  BY <1>1, Invariance, PTL

\* readChannelVolts() of a card with any number of channels returns raw data
\* as volts only after a call has failed.
THEOREM NoRawBeforeError == ProgramsSpec => []RawOnlyAfterError
<1>1. IInv => RawOnlyAfterError
  BY DEF IInv, VoltsInv, RawOnlyAfterError
<1> QED
  BY <1>1, Invariance, PTL
=============================================================================
