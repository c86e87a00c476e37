-------------------------- MODULE Acq132DataProofs --------------------------
(***************************************************************************)
(* Lemmas about the demultiplexer, for any number of quads, any FIFOSAM    *)
(* and any number of scans: what it makes of rows has the types it should, *)
(* and quads that are given the same signatures keep the same cursors.     *)
(***************************************************************************)
EXTENDS Acq132Data, SequenceTheorems, WellFoundedInduction, TLAPS

\* A nonempty set of numbers has a least one.
LEMMA LeastNumber ==
    ASSUME NEW T, T \subseteq Nat, T # {}
    PROVE  \E m \in T : \A k \in T : m <= k
<1> DEFINE R == OpToRel(<, Nat)
<1>1. IsWellFoundedOn(R, Nat)
  BY NatLessThanWellFounded, Zenon
<1> HIDE DEF R
<1>2. \E m \in T : \A k \in T : ~ (<<k, m>> \in R)
  BY <1>1, WFMin
<1>3. ASSUME NEW m \in Nat, NEW k \in Nat, ~ (<<k, m>> \in R) PROVE m <= k
  BY <1>3 DEF R, OpToRel
<1> QED
  BY <1>2, <1>3

\* Induction, for a set.
LEMMA NumbersFromZero ==
    ASSUME NEW T, 0 \in T, \A n \in Nat : n \in T => n + 1 \in T
    PROVE  \A n \in Nat : n \in T
<1> DEFINE U == Nat \ T
<1> SUFFICES ASSUME U # {} PROVE FALSE
  OBVIOUS
<1>1. PICK m \in U : \A k \in U : m <= k
  <2>1. U \subseteq Nat
    OBVIOUS
  <2> QED
    BY <2>1, LeastNumber
<1>2. m \in Nat /\ m # 0
  OBVIOUS
<1>3. m - 1 \in Nat /\ ~ (m <= m - 1) /\ (m - 1) + 1 = m
  BY <1>2
<1>4. m - 1 \in T
  BY <1>1, <1>3
<1> QED
  BY <1>3, <1>4

\* f is a for 0 and goes on by g, up to n.
Recurses(f, a, g, n) == f[0] = a /\ \A m \in 1 .. n : f[m] = g[<<f[m - 1], m>>]

\* A function can be defined by what it is for 0 and how it goes on.
LEMMA Recursion ==
    ASSUME NEW A, NEW a \in A, NEW L \in Nat, NEW g \in [A \X (1 .. L) -> A]
    PROVE  \E f \in [0 .. L -> A] : Recurses(f, a, g, L)
<1> DEFINE T == { n \in Nat : n <= L => \E f \in [0 .. n -> A] : Recurses(f, a, g, n) }
<1>1. 0 \in T
  <2>1. [m \in 0 .. 0 |-> a] \in [0 .. 0 -> A] /\ Recurses([m \in 0 .. 0 |-> a], a, g, 0)
    BY DEF Recurses
  <2> QED
    BY <2>1, Zenon
<1>2. ASSUME NEW n \in Nat, n \in T PROVE n + 1 \in T
  <2> n + 1 \in Nat
    OBVIOUS
  <2> SUFFICES ASSUME n + 1 <= L PROVE \E f \in [0 .. n + 1 -> A] : Recurses(f, a, g, n + 1)
    BY Zenon
  <2>1. n <= L
    OBVIOUS
  <2>2. PICK f \in [0 .. n -> A] : Recurses(f, a, g, n)
    BY <1>2, <2>1, Zenon
  <2> DEFINE last == g[<<f[n], n + 1>>]
             h == [m \in 0 .. n + 1 |-> IF m <= n THEN f[m] ELSE last]
  <2> HIDE DEF T
  <2>3. last \in A
    <3>1. f[n] \in A /\ n + 1 \in 1 .. L
      OBVIOUS
    <3>2. <<f[n], n + 1>> \in A \X (1 .. L)
      BY <3>1, Zenon
    <3> QED
      BY <3>2, Zenon
  <2>4. ASSUME NEW m \in 1 .. n + 1 PROVE h[m] = g[<<h[m - 1], m>>]
    <3>1. CASE m <= n
      <4>1. h[m] = f[m] /\ h[m - 1] = f[m - 1] /\ m \in 1 .. n
        BY <3>1
      <4>2. f[m] = g[<<f[m - 1], m>>]
        BY <4>1, <2>2, Zenon DEF Recurses
      <4> QED
        BY <4>1, <4>2, Zenon
    <3>2. CASE m = n + 1
      <4>1. h[m] = last /\ h[m - 1] = f[n]
        BY <3>2
      <4> QED
        BY <4>1, <3>2, Zenon
    <3> QED
      BY <3>1, <3>2
  <2>5. h[0] = a
    <3>1. h[0] = f[0]
      OBVIOUS
    <3> QED
      BY <3>1, <2>2, Zenon DEF Recurses
  <2>6. h \in [0 .. n + 1 -> A]
    <3> HIDE DEF last
    <3> QED
      BY <2>3
  <2> HIDE DEF h
  <2> QED
    BY <2>4, <2>5, <2>6, Zenon DEF Recurses
<1>3. L \in T
  <2> HIDE DEF T
  <2> QED
    BY <1>1, <1>2, NumbersFromZero, Zenon
<1> QED
  BY <1>3

-----------------------------------------------------------------------------
\* The rows are of a set R, whose es is a flag.
DQuads(R) == [data : Seq(R), es : Seq(Nat), sig : Seq(R)]
Models(R) == [Quads -> DQuads(R)]
Places(R) == [iq : 1 .. NQuads, isam : 0 .. FIFOSAM, actual : Nat, dm : Models(R)]
Start(dm) == [iq |-> 1, isam |-> 0, actual |-> 0, dm |-> dm]

\* A quad takes a row.
LEMMA ConsumeTypes ==
    ASSUME NEW R, NEW dq \in DQuads(R), NEW row \in R, NEW stash_es \in BOOLEAN
    PROVE  Consume(dq, row, stash_es) \in DQuads(R)
<1>1. dq.data \in Seq(R) /\ dq.es \in Seq(Nat) /\ dq.sig \in Seq(R)
  BY DEF DQuads
<1>2. Len(dq.data) \in Nat
  BY <1>1, LenProperties
<1>3. /\ Append(dq.data, row) \in Seq(R) /\ Append(dq.sig, row) \in Seq(R)
      /\ Append(dq.es, Len(dq.data)) \in Seq(Nat)
  BY <1>1, <1>2, AppendProperties
<1> HIDE DEF DQuads
<1>4. [dq EXCEPT !.data = Append(@, row)] \in DQuads(R)
  BY <1>3 DEF DQuads
<1>5. [dq EXCEPT !.es = Append(@, Len(dq.data)), !.sig = Append(@, row)] \in DQuads(R)
  BY <1>3 DEF DQuads
<1> QED
  BY <1>4, <1>5, Zenon DEF Consume

\* The constants.
LEMMA Counts ==
    /\ NQuads \in Nat \ {0} /\ FIFOSAM \in Nat \ {0}
    /\ \A i \in 1 .. NQuads : scanlist[i] \in Quads
    /\ \A q \in Quads : \E i \in 1 .. NQuads : q = scanlist[i]
    /\ \A i, j \in 1 .. NQuads : scanlist[i] = scanlist[j] => i = j
<1>1. NQuads \in Nat \ {0} /\ DOMAIN scanlist = 1 .. NQuads
  BY ScanAssumption, LenProperties DEF NQuads
<1> QED
  BY <1>1, ScanAssumption DEF Quads, IsInjective


\* The next quad has its turn, or the same goes on.
LEMMA TakeTurnTypes ==
    ASSUME NEW R, NEW at \in Places(R), NEW maxsamples
    PROVE  /\ TakeTurn(at, maxsamples) \in Places(R)
           /\ TakeTurn(at, maxsamples).isam < FIFOSAM
           /\ TakeTurn(at, maxsamples).dm = at.dm
<1>1. NQuads \in Nat \ {0} /\ FIFOSAM \in Nat \ {0}
  BY Counts
<1>2. at.iq \in 1 .. NQuads /\ at.isam \in 0 .. FIFOSAM /\ at.dm \in Models(R)
  BY DEF Places
<1>3. (at.iq % NQuads) + 1 \in 1 .. NQuads
  BY <1>1, <1>2
<1> DEFINE next == [iq |-> (at.iq % NQuads) + 1, isam |-> 0, actual |-> 0, dm |-> at.dm]
<1>4. next \in Places(R) /\ next.isam = 0 /\ next.dm = at.dm
  <2>1. 0 \in 0 .. FIFOSAM /\ 0 \in Nat
    BY <1>1
  <2> DEFINE i == (at.iq % NQuads) + 1
  <2> HIDE DEF i
  <2> QED
    BY <1>2, <1>3, <2>1 DEF Places, i
<1>5. at.isam # FIFOSAM => at.isam < FIFOSAM
  BY <1>1, <1>2
<1> HIDE DEF Places, next
<1>6. 0 < FIFOSAM
  BY <1>1
<1>7. CASE at.isam = FIFOSAM \/ at.actual >= maxsamples
  <2>1. TakeTurn(at, maxsamples) = next
    BY <1>7, Zenon DEF TakeTurn, next
  <2> QED
    BY <2>1, <1>4, <1>6
<1>8. CASE ~ (at.isam = FIFOSAM \/ at.actual >= maxsamples)
  <2>1. TakeTurn(at, maxsamples) = at
    BY <1>8, Zenon DEF TakeTurn
  <2> QED
    BY <2>1, <1>5, <1>8
<1> QED
  BY <1>7, <1>8

\* What GiveRow() makes of a row, when it is known whose turn it is.
Given(at, row, stash_es) ==
    [dm |-> [at.dm EXCEPT ![scanlist[at.iq]] = Consume(@, row, stash_es)],
     iq |-> at.iq, isam |-> at.isam + 1,
     actual |-> at.actual + (IF row.es THEN 0 ELSE 1)]

\* The turn is taken first.
LEMMA GiveRowTakesTurn ==
    ASSUME NEW R, NEW at \in Places(R), NEW row, NEW maxsamples, NEW stash_es
    PROVE  GiveRow(at, row, maxsamples, stash_es) = Given(TakeTurn(at, maxsamples), row, stash_es)
<1>1. TakeTurn(at, maxsamples).dm = at.dm
  BY TakeTurnTypes
<1> QED
  BY <1>1, Zenon DEF GiveRow, Given

\* A row is given to the quad whose turn it is, and to no other.
LEMMA GivenResult ==
    ASSUME NEW R, \A r \in R : r.es \in BOOLEAN,
           NEW at \in Places(R), at.isam < FIFOSAM, NEW row \in R, NEW stash_es \in BOOLEAN
    PROVE  LET then == Given(at, row, stash_es)
               q == scanlist[at.iq]
           IN  /\ then \in Places(R)
               /\ then.iq = at.iq /\ then.isam = at.isam + 1
               /\ then.dm[q] = Consume(at.dm[q], row, stash_es)
               /\ \A p \in Quads \ {q} : then.dm[p] = at.dm[p]
               /\ then.actual <= at.actual + 1
<1> DEFINE q == scanlist[at.iq]
           c == Consume(at.dm[q], row, stash_es)
           dm == [at.dm EXCEPT ![q] = c]
           more == at.actual + (IF row.es THEN 0 ELSE 1)
<1>1. at.iq \in 1 .. NQuads /\ at.isam \in 0 .. FIFOSAM /\ at.actual \in Nat /\ at.dm \in Models(R)
  BY DEF Places
<1>2. q \in Quads
  BY <1>1, Counts
<1>3. c \in DQuads(R)
  <2>1. at.dm[q] \in DQuads(R)
    BY <1>1, <1>2 DEF Models
  <2> HIDE DEF q
  <2> QED
    BY <2>1, ConsumeTypes
<1> HIDE DEF c
<1>4. dm \in Models(R) /\ dm[q] = c /\ \A p \in Quads \ {q} : dm[p] = at.dm[p]
  <2> HIDE DEF q
  <2> QED
    BY <1>1, <1>2, <1>3 DEF Models
<1>6. at.isam + 1 \in 0 .. FIFOSAM /\ more \in Nat /\ more <= at.actual + 1
  BY <1>1, Counts
<1> HIDE DEF dm, more
<1> DEFINE then == [dm |-> dm, iq |-> at.iq, isam |-> at.isam + 1, actual |-> more]
<1>8. then \in Places(R)
  BY <1>1, <1>4, <1>6 DEF Places
<1>9. then.iq = at.iq /\ then.isam = at.isam + 1 /\ then.actual = more /\ then.dm = dm
  OBVIOUS
<1> HIDE DEF then
<1>10. Given(at, row, stash_es) = then
  BY Zenon DEF Given, then, more, dm, c, q
<1> QED
  BY <1>4, <1>6, <1>8, <1>9, <1>10, Zenon DEF q, c

-----------------------------------------------------------------------------
\* processAll() as a walk over the rows.
Walks(h, rows, dm, maxsamples, stash_es) ==
    h = [m \in 0 .. Len(rows) |->
            IF m = 0 THEN Start(dm)
            ELSE GiveRow(h[m - 1], rows[m], maxsamples, stash_es)]

\* A walk through places that ends with what processAll() makes of the rows.
IsWalk(f, R, rows, dm, maxsamples, stash_es) ==
    /\ f \in [0 .. Len(rows) -> Places(R)]
    /\ Walks(f, rows, dm, maxsamples, stash_es)
    /\ processAll(rows, dm, maxsamples, stash_es) = f[Len(rows)].dm

\* There is one, and it is processAll()'s.
LEMMA ProcessAllWalks ==
    ASSUME NEW R, \A r \in R : r.es \in BOOLEAN, NEW rows \in Seq(R), NEW dm \in Models(R),
           NEW maxsamples, NEW stash_es \in BOOLEAN
    PROVE  \E f : IsWalk(f, R, rows, dm, maxsamples, stash_es)
<1> DEFINE L == Len(rows)
           Step(at, m) == GiveRow(at, rows[m], maxsamples, stash_es)
           g == [p \in Places(R) \X (1 .. L) |-> Step(p[1], p[2])]
           after == CHOOSE h : Walks(h, rows, dm, maxsamples, stash_es)
<1>1. processAll(rows, dm, maxsamples, stash_es) = after[L].dm
  BY Zenon DEF processAll, Walks, Start
<1>2. L \in Nat /\ \A m \in 1 .. L : rows[m] \in R
  BY LenProperties, ElementOfSeq
<1>3. ASSUME NEW at \in Places(R), NEW m \in 1 .. L PROVE Step(at, m) \in Places(R)
  <2> DEFINE turn == TakeTurn(at, maxsamples)
  <2>1. turn \in Places(R) /\ turn.isam < FIFOSAM
    BY TakeTurnTypes
  <2>2. rows[m] \in R
    BY <1>2
  <2> HIDE DEF turn
  <2>3. Given(turn, rows[m], stash_es) \in Places(R)
    BY <2>1, <2>2, GivenResult
  <2>4. Step(at, m) = Given(turn, rows[m], stash_es)
    BY GiveRowTakesTurn, Zenon DEF turn
  <2> QED
    BY <2>3, <2>4, Zenon
<1> HIDE DEF Step, L
<1>4. g \in [Places(R) \X (1 .. L) -> Places(R)]
  BY <1>3
<1>5. \A at \in Places(R), m \in 1 .. L : g[<<at, m>>] = Step(at, m)
  OBVIOUS
<1> HIDE DEF g
<1>6. Start(dm) \in Places(R)
  <2>1. 1 \in 1 .. NQuads /\ 0 \in 0 .. FIFOSAM /\ 0 \in Nat
    BY Counts
  <2> HIDE DEF Models
  <2> QED
    BY <2>1 DEF Start, Places
<1>7. PICK f \in [0 .. L -> Places(R)] : Recurses(f, Start(dm), g, L)
  BY <1>2, <1>4, <1>6, Recursion
<1>8. ASSUME NEW m \in 1 .. L PROVE f[m] = Step(f[m - 1], m)
  <2>1. m - 1 \in 0 .. L
    BY <1>2
  <2>2. f[m - 1] \in Places(R)
    BY <2>1
  <2>3. f[m] = g[<<f[m - 1], m>>]
    BY <1>7, Zenon DEF Recurses
  <2> QED
    BY <2>2, <2>3, <1>5, Zenon
<1>9. f[0] = Start(dm)
  BY <1>7, Zenon DEF Recurses
<1>10. Walks(f, rows, dm, maxsamples, stash_es)
  <2> DEFINE walk == [m \in 0 .. L |-> IF m = 0 THEN Start(dm) ELSE Step(f[m - 1], m)]
  <2>1. ASSUME NEW m \in 0 .. L PROVE f[m] = walk[m]
    <3>1. m = 0 \/ m \in 1 .. L
      BY <1>2
    <3> QED
      BY <3>1, <1>8, <1>9
  <2>2. f = walk
    BY <2>1
  <2> QED
    BY <2>2, Zenon DEF Walks, Step, L
\* There is no other.
<1>11. Walks(after, rows, dm, maxsamples, stash_es)
  BY <1>10, Zenon
<1> HIDE DEF after
<1>12. \A m \in 0 .. L : after[m] = IF m = 0 THEN Start(dm) ELSE Step(after[m - 1], m)
  <2>1. after = [m \in 0 .. L |-> IF m = 0 THEN Start(dm) ELSE Step(after[m - 1], m)]
    BY <1>11, Zenon DEF Walks, Step, L
  <2> DEFINE walk == [m \in 0 .. L |-> IF m = 0 THEN Start(dm) ELSE Step(after[m - 1], m)]
  <2>2. \A m \in 0 .. L : walk[m] = IF m = 0 THEN Start(dm) ELSE Step(after[m - 1], m)
    OBVIOUS
  <2> HIDE DEF walk
  <2> QED
    BY <2>1, <2>2, Zenon DEF walk
<1> DEFINE T == { m \in Nat : m <= L => after[m] = f[m] }
<1>13. 0 \in T
  BY <1>2, <1>9, <1>12
<1>14. ASSUME NEW m \in Nat, m \in T PROVE m + 1 \in T
  <2> SUFFICES ASSUME m + 1 <= L PROVE after[m + 1] = f[m + 1]
    OBVIOUS
  <2>1. m + 1 \in 1 .. L /\ m + 1 \in 0 .. L /\ m <= L /\ (m + 1) - 1 = m /\ m + 1 # 0
    BY <1>2
  <2>2. after[m] = f[m]
    BY <2>1, <1>14
  <2>3. after[m + 1] = Step(after[m], m + 1)
    BY <2>1, <1>12
  <2>4. f[m + 1] = Step(f[m], m + 1)
    BY <2>1, <1>8
  <2> QED
    BY <2>2, <2>3, <2>4, Zenon
<1>15. L \in T
  <2> HIDE DEF T
  <2> QED
    BY <1>2, <1>13, <1>14, NumbersFromZero, Zenon
<1>16. after[L] = f[L]
  BY <1>2, <1>15
<1>17. f \in [0 .. L -> Places(R)]
  OBVIOUS
<1>18. processAll(rows, dm, maxsamples, stash_es) = f[L].dm
  BY <1>1, <1>16, Zenon
<1> QED
  BY <1>10, <1>17, <1>18, Zenon DEF L, IsWalk

-----------------------------------------------------------------------------
\* Scans of rows: products of the numbers of scans, quads and rows.

\* A multiple of F between 1 and F is F.
LEMMA OneTurn ==
    ASSUME NEW d \in Int, NEW F \in Nat \ {0}, 1 <= d * F, d * F <= F
    PROVE  d = 1
<1>1. d >= 1
  <2> SUFFICES ASSUME d <= 0 PROVE FALSE
    OBVIOUS
  <2>1. (- d) * F >= 0
    OBVIOUS
  <2>2. (- d) * F = - (d * F)
    OBVIOUS
  <2> QED
    BY <2>1, <2>2
<1>2. d <= 1
  <2> SUFFICES ASSUME d >= 2 PROVE FALSE
    OBVIOUS
  <2>1. (d - 2) * F >= 0
    OBVIOUS
  <2>2. (d - 2) * F = d * F - 2 * F
    OBVIOUS
  <2> QED
    BY <2>1, <2>2
<1> QED
  BY <1>1, <1>2

\* Where row j of the turn of quad i in scan c is.
At(c, i, j) == (c * NQuads + i - 1) * FIFOSAM + j

\* No quad has been given more rows than there were.
LEMMA AtTypes ==
    ASSUME NEW c \in Nat, NEW i \in 1 .. NQuads, NEW j \in 0 .. FIFOSAM
    PROVE  At(c, i, j) \in Nat /\ c * FIFOSAM + j \in Nat /\ c * FIFOSAM + j <= At(c, i, j)
<1>1. NQuads \in Nat \ {0} /\ FIFOSAM \in Nat \ {0}
  BY Counts
<1>2. c * NQuads \in Nat /\ c * NQuads >= c
  <2>1. c * NQuads = c + c * (NQuads - 1)
    BY <1>1
  <2>2. c * (NQuads - 1) \in Nat
    BY <1>1
  <2> QED
    BY <2>1, <2>2
<1> DEFINE x == c * NQuads + i - 1
<1>3. x \in Nat /\ x - c \in Nat
  BY <1>1, <1>2
<1> HIDE DEF x
<1>4. x * FIFOSAM \in Nat /\ c * FIFOSAM \in Nat /\ (x - c) * FIFOSAM \in Nat
  BY <1>1, <1>3
<1>5. x * FIFOSAM = c * FIFOSAM + (x - c) * FIFOSAM
  BY <1>1, <1>3
<1>6. At(c, i, j) = x * FIFOSAM + j
  BY DEF At, x
<1> QED
  BY <1>4, <1>5, <1>6

\* Row j of the turn of a quad in scan c, one of n, is a row of the quad's.
LEMMA RowOfScan ==
    ASSUME NEW c \in Nat, NEW n \in Nat, c < n, NEW j \in 0 .. FIFOSAM, j < FIFOSAM
    PROVE  LET x == c * FIFOSAM + j
           IN  /\ x \in 0 .. n * FIFOSAM /\ x + 1 \in 1 .. n * FIFOSAM /\ x + 1 \in 0 .. n * FIFOSAM
               /\ (x + 1) - 1 = x /\ x + 1 = c * FIFOSAM + (j + 1) /\ x \in Nat
<1>1. FIFOSAM \in Nat \ {0}
  BY Counts
<1> DEFINE d == n - c - 1
           y == c * FIFOSAM
           z == d * FIFOSAM
<1>2. d \in Nat /\ n = c + d + 1
  OBVIOUS
<1> HIDE DEF d
<1>3. y \in Nat /\ z \in Nat /\ n * FIFOSAM = y + z + FIFOSAM
  BY <1>1, <1>2
<1> HIDE DEF y, z
<1>4. c * FIFOSAM = y
  BY Zenon DEF y
<1> QED
  BY <1>1, <1>3, <1>4

\* After the last row of a turn comes the first of the next.
LEMMA AtNext ==
    ASSUME NEW c \in Nat, NEW i \in 1 .. NQuads
    PROVE  /\ i < NQuads => At(c, i, FIFOSAM) = At(c, i + 1, 0)
           /\ At(c, NQuads, FIFOSAM) = At(c + 1, 1, 0)
<1>1. NQuads \in Nat \ {0} /\ FIFOSAM \in Nat \ {0}
  BY Counts
<1>2. c * NQuads \in Nat /\ (c + 1) * NQuads = c * NQuads + NQuads
  BY <1>1
<1>3. ASSUME NEW x \in Int PROVE x * FIFOSAM + FIFOSAM = (x + 1) * FIFOSAM + 0
  BY <1>1, <1>3
<1>4. (c * NQuads + i - 1) + 1 = c * NQuads + (i + 1) - 1
  BY <1>1, <1>2
<1>5. (c * NQuads + NQuads - 1) + 1 = (c + 1) * NQuads + 1 - 1
  BY <1>1, <1>2
<1>6. c * NQuads + i - 1 \in Int /\ c * NQuads + NQuads - 1 \in Int
  BY <1>1, <1>2
<1> QED
  BY <1>3, <1>4, <1>5, <1>6, Zenon DEF At

\* A whole number of scans ends with the last row of the last quad.
LEMMA AtEnd ==
    ASSUME NEW c \in Nat, NEW i \in 1 .. NQuads, NEW j \in 1 .. FIFOSAM, NEW n \in Nat,
           At(c, i, j) = (n * NQuads) * FIFOSAM
    PROVE  i = NQuads /\ j = FIFOSAM /\ n = c + 1
<1>1. NQuads \in Nat \ {0} /\ FIFOSAM \in Nat \ {0}
  BY Counts
<1> DEFINE x == c * NQuads + i - 1
           y == n * NQuads
<1>2. x \in Nat /\ y \in Nat
  <2>1. c * NQuads \in Nat /\ n * NQuads \in Nat
    BY <1>1
  <2> QED
    BY <1>1, <2>1
<1>3. x * FIFOSAM + j = y * FIFOSAM
  BY DEF At
<1>4. x = c * NQuads + i - 1 /\ y = n * NQuads
  OBVIOUS
<1> HIDE DEF x, y
<1>5. (y - x) * FIFOSAM = y * FIFOSAM - x * FIFOSAM
  BY <1>1, <1>2
<1>6. (y - x) * FIFOSAM = j
  <2>1. x * FIFOSAM \in Int /\ y * FIFOSAM \in Int
    BY <1>1, <1>2
  <2> QED
    BY <1>1, <1>3, <1>5, <2>1
<1>7. y - x = 1
  BY <1>1, <1>2, <1>6, OneTurn
<1>8. j = FIFOSAM
  BY <1>1, <1>6, <1>7
<1>9. (n - c) * NQuads = i
  <2>1. (n - c) * NQuads = n * NQuads - c * NQuads
    BY <1>1
  <2>2. n * NQuads \in Int /\ c * NQuads \in Int
    BY <1>1
  <2> QED
    BY <1>1, <1>4, <1>7, <2>1, <2>2
<1>10. n - c = 1
  BY <1>1, <1>9, OneTurn
<1>11. i = NQuads /\ n = c + 1
  BY <1>1, <1>9, <1>10
<1> QED
  BY <1>8, <1>11

-----------------------------------------------------------------------------
\* What may be said of a quad row by row.

\* The rows that the quad at position i of scanlist has been given when it is
\* the turn of quad iq in scan c, which has been given isam.
Depth(i, iq, isam, c) ==
    IF i < iq THEN c * FIFOSAM + FIFOSAM
    ELSE IF i = iq THEN c * FIFOSAM + isam ELSE c * FIFOSAM + 0

\* S[<<i, x>>] is what the quad at position i may be after x rows: after m rows
\* in all, every quad is what it may be after those that it has been given.
InPlace(at, m, S, c) ==
    /\ m = At(c, at.iq, at.isam)
    /\ at.actual <= at.isam
    /\ \A i \in 1 .. NQuads : at.dm[scanlist[i]] \in S[<<i, Depth(i, at.iq, at.isam, c)>>]

\* A change of turn leaves every quad where it is.
LEMMA TurnInPlace ==
    ASSUME NEW R, NEW at \in Places(R), NEW m, NEW S, NEW c \in Nat, InPlace(at, m, S, c),
           NEW maxsamples \in Nat, FIFOSAM < maxsamples
    PROVE  \E d \in Nat : InPlace(TakeTurn(at, maxsamples), m, S, d)
<1>1. NQuads \in Nat \ {0} /\ FIFOSAM \in Nat \ {0}
  BY Counts
<1>2. at.iq \in 1 .. NQuads /\ at.isam \in 0 .. FIFOSAM /\ at.actual \in Nat
  BY DEF Places
<1>3. ~ (at.actual >= maxsamples)
  BY <1>1, <1>2 DEF InPlace
<1>4. CASE at.isam # FIFOSAM
  <2>1. TakeTurn(at, maxsamples) = at
    BY <1>3, <1>4, Zenon DEF TakeTurn
  <2> QED
    BY <2>1, Zenon
<1> DEFINE next == [iq |-> (at.iq % NQuads) + 1, isam |-> 0, actual |-> 0, dm |-> at.dm]
<1>5. ASSUME at.isam = FIFOSAM PROVE TakeTurn(at, maxsamples) = next
  BY <1>5, Zenon DEF TakeTurn
<1>6. next.iq = (at.iq % NQuads) + 1 /\ next.isam = 0 /\ next.actual = 0 /\ next.dm = at.dm
  OBVIOUS
<1> HIDE DEF next
<1>7. CASE at.isam = FIFOSAM /\ at.iq < NQuads
  <2>1. next.iq = at.iq + 1
    BY <1>1, <1>2, <1>6, <1>7
  <2>2. m = At(c, at.iq + 1, 0)
    BY <1>2, <1>7, AtNext, Zenon DEF InPlace
  <2>3. ASSUME NEW i \in 1 .. NQuads PROVE Depth(i, at.iq, FIFOSAM, c) = Depth(i, at.iq + 1, 0, c)
    <3>1. CASE i < at.iq
      <4>1. i < at.iq + 1
        BY <1>2, <3>1
      <4> QED
        BY <3>1, <4>1, Zenon DEF Depth
    <3>2. CASE i = at.iq
      <4>1. i < at.iq + 1 /\ ~ (i < at.iq)
        BY <1>2, <3>2
      <4> QED
        BY <3>2, <4>1, Zenon DEF Depth
    <3>3. CASE i > at.iq
      <4>1. ~ (i < at.iq) /\ i # at.iq /\ ~ (i < at.iq + 1)
        BY <1>2, <3>3
      <4> QED
        BY <4>1, Zenon DEF Depth
    <3> QED
      BY <1>2, <3>1, <3>2, <3>3
  <2>4. 0 <= 0
    OBVIOUS
  <2>5. InPlace(next, m, S, c)
    BY <1>6, <1>7, <2>1, <2>2, <2>3, <2>4, Zenon DEF InPlace
  <2> QED
    BY <1>5, <1>7, <2>5, Zenon
<1>8. CASE at.isam = FIFOSAM /\ at.iq = NQuads
  <2>1. next.iq = 1
    BY <1>1, <1>6, <1>8
  <2>2. m = At(c + 1, 1, 0)
    BY <1>2, <1>8, AtNext, Zenon DEF InPlace
  <2>3. ASSUME NEW i \in 1 .. NQuads PROVE Depth(i, NQuads, FIFOSAM, c) = Depth(i, 1, 0, c + 1)
    <3>1. Depth(i, NQuads, FIFOSAM, c) = c * FIFOSAM + FIFOSAM
      <4>1. i < NQuads \/ i = NQuads
        BY <1>1
      <4>2. ~ (NQuads < NQuads)
        BY <1>1
      <4> QED
        BY <4>1, <4>2, Zenon DEF Depth
    <3>2. Depth(i, 1, 0, c + 1) = (c + 1) * FIFOSAM + 0
      <4>1. ~ (i < 1)
        BY <1>1
      <4> QED
        BY <4>1, Zenon DEF Depth
    <3>3. (c + 1) * FIFOSAM + 0 = c * FIFOSAM + FIFOSAM
      BY <1>1
    <3> QED
      BY <3>1, <3>2, <3>3, Zenon
  <2>4. 0 <= 0 /\ c + 1 \in Nat
    OBVIOUS
  <2>5. InPlace(next, m, S, c + 1)
    BY <1>6, <1>8, <2>1, <2>2, <2>3, <2>4, Zenon DEF InPlace
  <2> QED
    BY <1>5, <1>8, <2>4, <2>5, Zenon
<1>9. at.iq < NQuads \/ at.iq = NQuads
  BY <1>1, <1>2
<1> QED
  BY <1>4, <1>7, <1>8, <1>9, Zenon

\* A row takes its quad one row further, and no other.
LEMMA RowInPlace ==
    ASSUME NEW R, \A r \in R : r.es \in BOOLEAN,
           NEW at \in Places(R), at.isam < FIFOSAM, NEW row \in R, NEW stash_es \in BOOLEAN,
           NEW m, NEW c \in Nat, NEW S, InPlace(at, m, S, c),
           \A dq \in DQuads(R) :
                dq \in S[<<at.iq, c * FIFOSAM + at.isam>>] =>
                    Consume(dq, row, stash_es) \in S[<<at.iq, c * FIFOSAM + (at.isam + 1)>>]
    PROVE  InPlace(Given(at, row, stash_es), m + 1, S, c)
<1>1. NQuads \in Nat \ {0} /\ FIFOSAM \in Nat \ {0}
  BY Counts
<1>2. at.iq \in 1 .. NQuads /\ at.isam \in 0 .. FIFOSAM /\ at.actual \in Nat /\ at.dm \in Models(R)
  BY DEF Places
<1> DEFINE then == Given(at, row, stash_es)
           q == scanlist[at.iq]
           d == c * FIFOSAM + at.isam
<1>3. /\ then.iq = at.iq /\ then.isam = at.isam + 1 /\ then.actual <= at.actual + 1
      /\ then.dm[q] = Consume(at.dm[q], row, stash_es)
      /\ \A p \in Quads \ {q} : then.dm[p] = at.dm[p]
      /\ then \in Places(R)
  BY GivenResult
<1>4. then.actual \in Nat
  <2> HIDE DEF then
  <2> QED
    BY <1>3 DEF Places
<1> HIDE DEF then
<1>5. m + 1 = At(c, then.iq, then.isam)
  <2>1. m = At(c, at.iq, at.isam)
    BY DEF InPlace
  <2>2. At(c, at.iq, at.isam) \in Nat
    BY <1>2, AtTypes
  <2>3. (c * NQuads + at.iq - 1) * FIFOSAM \in Int
    <3>1. c * NQuads + at.iq - 1 \in Int
      BY <1>1, <1>2
    <3> QED
      BY <1>1, <3>1
  <2>4. At(c, at.iq, at.isam) + 1 = At(c, at.iq, at.isam + 1)
    BY <1>2, <2>3 DEF At
  <2> QED
    BY <1>3, <2>1, <2>4, Zenon
<1>6. then.actual <= then.isam
  BY <1>2, <1>3, <1>4 DEF InPlace
<1>7. ~ (at.iq < at.iq)
  BY <1>2
<1>8. at.dm[q] \in DQuads(R)
  <2>1. q \in Quads
    BY <1>2, Counts
  <2> QED
    BY <1>2, <2>1 DEF Models
<1>9. then.dm[q] \in S[<<at.iq, c * FIFOSAM + (at.isam + 1)>>]
  <2>1. Depth(at.iq, at.iq, at.isam, c) = d
    BY <1>7, Zenon DEF Depth
  <2>2. at.dm[q] \in S[<<at.iq, d>>]
    BY <1>2, <2>1, Zenon DEF InPlace
  <2> QED
    BY <1>3, <1>8, <2>2, Zenon
<1>10. ASSUME NEW i \in 1 .. NQuads
       PROVE  then.dm[scanlist[i]] \in S[<<i, Depth(i, then.iq, then.isam, c)>>]
  <2>1. CASE i = at.iq
    <3>1. Depth(i, then.iq, then.isam, c) = c * FIFOSAM + (at.isam + 1)
      BY <1>3, <1>7, <2>1, Zenon DEF Depth
    <3> QED
      BY <1>9, <2>1, <3>1, Zenon
  <2>2. CASE i # at.iq
    <3>1. scanlist[i] \in Quads \ {q}
      BY <1>2, <2>2, Counts
    <3>2. then.dm[scanlist[i]] = at.dm[scanlist[i]]
      BY <1>3, <3>1, Zenon
    <3>3. Depth(i, then.iq, then.isam, c) = Depth(i, at.iq, at.isam, c)
      BY <1>3, <2>2, Zenon DEF Depth
    <3> QED
      BY <3>2, <3>3, Zenon DEF InPlace
  <2> QED
    BY <2>1, <2>2
<1> QED
  BY <1>5, <1>6, <1>10, Zenon DEF InPlace, then

\* What is true of each quad before its first row.
Begins(S, dm) == \A i \in 1 .. NQuads : dm[scanlist[i]] \in S[<<i, 0>>]

\* What is true of a quad after x of its rows is after one more.
Advances(S, R, rows, stash_es) ==
    \A c \in Nat, i \in 1 .. NQuads, j \in 0 .. FIFOSAM :
        j < FIFOSAM /\ At(c, i, j) < Len(rows) =>
            \A dq \in DQuads(R) :
                dq \in S[<<i, c * FIFOSAM + j>>] =>
                    Consume(dq, rows[At(c, i, j) + 1], stash_es)
                        \in S[<<i, c * FIFOSAM + (j + 1)>>]

\* Whole scans take each quad through its own rows.
LEMMA ProcessAllSteps ==
    ASSUME NEW R, \A r \in R : r.es \in BOOLEAN,
           NEW rows \in Seq(R), NEW dm \in Models(R),
           NEW maxsamples \in Nat, FIFOSAM < maxsamples, NEW stash_es \in BOOLEAN,
           NEW S, Advances(S, R, rows, stash_es),
           Begins(S, dm),
           NEW n \in Nat, Len(rows) = (n * NQuads) * FIFOSAM
    PROVE  /\ processAll(rows, dm, maxsamples, stash_es) \in Models(R)
           /\ \A i \in 1 .. NQuads :
                processAll(rows, dm, maxsamples, stash_es)[scanlist[i]] \in S[<<i, n * FIFOSAM>>]
<1> DEFINE L == Len(rows)
<1>1. NQuads \in Nat \ {0} /\ FIFOSAM \in Nat \ {0} /\ 1 \in 1 .. NQuads
  BY Counts
<1>2. L \in Nat /\ \A m \in 1 .. L : rows[m] \in R
  BY LenProperties, ElementOfSeq
<1>3. PICK f : IsWalk(f, R, rows, dm, maxsamples, stash_es)
  BY ProcessAllWalks, Zenon
<1>3a. f \in [0 .. L -> Places(R)] /\ Walks(f, rows, dm, maxsamples, stash_es)
      /\ processAll(rows, dm, maxsamples, stash_es) = f[L].dm
  BY <1>3, Zenon DEF IsWalk
<1>4. f[0] = Start(dm)
  <2> DEFINE walk == [m \in 0 .. L |-> IF m = 0 THEN Start(dm)
                        ELSE GiveRow(f[m - 1], rows[m], maxsamples, stash_es)]
  <2>1. f = walk
    BY <1>3a, Zenon DEF Walks
  <2>2. walk[0] = Start(dm)
    BY <1>2
  <2> QED
    BY <2>1, <2>2, Zenon
<1>5. ASSUME NEW m \in 1 .. L
      PROVE  f[m] = GiveRow(f[m - 1], rows[m], maxsamples, stash_es)
  <2> DEFINE walk == [k \in 0 .. L |-> IF k = 0 THEN Start(dm)
                        ELSE GiveRow(f[k - 1], rows[k], maxsamples, stash_es)]
  <2>1. f = walk
    BY <1>3a, Zenon DEF Walks
  <2>2. m \in 0 .. L /\ m # 0
    BY <1>2
  <2>3. walk[m] = GiveRow(f[m - 1], rows[m], maxsamples, stash_es)
    BY <2>2, Zenon
  <2> QED
    BY <2>1, <2>3, Zenon
<1> HIDE DEF L
<1> DEFINE T == { m \in Nat : m <= L =>
                    /\ \E c \in Nat : InPlace(f[m], m, S, c)
                    /\ m # 0 => f[m].isam # 0 }
<1>6. 0 \in T
  <2>1. Start(dm).iq = 1 /\ Start(dm).isam = 0 /\ Start(dm).actual = 0 /\ Start(dm).dm = dm
    BY DEF Start
  <2>2. 0 = At(0, 1, 0)
    BY <1>1 DEF At
  <2>3. ASSUME NEW i \in 1 .. NQuads PROVE dm[scanlist[i]] \in S[<<i, Depth(i, 1, 0, 0)>>]
    <3>1. 0 * FIFOSAM + 0 = 0
      BY <1>1
    <3>2. ~ (i < 1)
      BY <1>1
    <3>3. Depth(i, 1, 0, 0) = 0
      BY <3>1, <3>2, Zenon DEF Depth
    <3> QED
      BY <3>3, Zenon DEF Begins
  <2>4. 0 <= 0 /\ 0 \in Nat
    OBVIOUS
  <2>5. InPlace(f[0], 0, S, 0)
    BY <1>4, <2>1, <2>2, <2>3, <2>4, Zenon DEF InPlace
  <2> QED
    BY <2>4, <2>5, Zenon
<1>7. ASSUME NEW m \in Nat, m \in T PROVE m + 1 \in T
  <2> m + 1 \in Nat
    OBVIOUS
  <2> SUFFICES ASSUME m + 1 <= L
               PROVE  /\ \E c \in Nat : InPlace(f[m + 1], m + 1, S, c)
                      /\ f[m + 1].isam # 0
    BY Zenon
  <2>1. m + 1 \in 1 .. L /\ m \in 0 .. L /\ m <= L /\ (m + 1) - 1 = m /\ m < L
    BY <1>2
  <2>2. f[m] \in Places(R)
    BY <1>3a, <2>1
  <2>3. PICK c \in Nat : InPlace(f[m], m, S, c)
    BY <1>7, <2>1, Zenon
  <2> DEFINE turn == TakeTurn(f[m], maxsamples)
  <2>4. turn \in Places(R) /\ turn.isam < FIFOSAM
    BY <2>2, TakeTurnTypes
  <2>5. PICK d \in Nat : InPlace(turn, m, S, d)
    BY <2>2, <2>3, TurnInPlace
  <2> HIDE DEF turn, T
  <2>6. turn.iq \in 1 .. NQuads /\ turn.isam \in 0 .. FIFOSAM
    BY <2>4 DEF Places
  <2>7. m = At(d, turn.iq, turn.isam)
    BY <2>5, Zenon DEF InPlace
  <2>8. \A dq \in DQuads(R) :
            dq \in S[<<turn.iq, d * FIFOSAM + turn.isam>>] =>
                Consume(dq, rows[m + 1], stash_es)
                    \in S[<<turn.iq, d * FIFOSAM + (turn.isam + 1)>>]
    BY <2>1, <2>4, <2>6, <2>7, Zenon DEF Advances, L
  <2>9. rows[m + 1] \in R
    BY <1>2, <2>1
  <2>10. InPlace(Given(turn, rows[m + 1], stash_es), m + 1, S, d)
    BY <2>4, <2>5, <2>8, <2>9, RowInPlace
  <2>11. Given(turn, rows[m + 1], stash_es).isam = turn.isam + 1
    BY <2>4, <2>9, GivenResult
  <2>12. turn.isam + 1 # 0
    BY <2>6
  <2>13. f[m + 1] = Given(turn, rows[m + 1], stash_es)
    <3>1. f[m + 1] = GiveRow(f[m], rows[m + 1], maxsamples, stash_es)
      BY <2>1, <1>5, Zenon
    <3>2. GiveRow(f[m], rows[m + 1], maxsamples, stash_es)
            = Given(TakeTurn(f[m], maxsamples), rows[m + 1], stash_es)
      BY <2>2, GiveRowTakesTurn
    <3> QED
      BY <3>1, <3>2, Zenon DEF turn
  <2> QED
    BY <2>10, <2>11, <2>12, <2>13, Zenon
<1>8. L \in T
  <2> HIDE DEF T
  <2> QED
    BY <1>2, <1>6, <1>7, NumbersFromZero, Zenon
<1>9. L <= L
  BY <1>2
<1>10. PICK c \in Nat : InPlace(f[L], L, S, c)
  BY <1>8, <1>9, Zenon
<1>11. L # 0 => f[L].isam # 0
  BY <1>8, <1>9, Zenon
<1>12. f[L] \in Places(R)
  <2>1. L \in 0 .. L
    BY <1>2
  <2> QED
    BY <1>3a, <2>1
<1> HIDE DEF T
<1>13. f[L].dm \in Models(R) /\ f[L].iq \in 1 .. NQuads /\ f[L].isam \in 0 .. FIFOSAM
  BY <1>12 DEF Places
<1>14. ASSUME NEW i \in 1 .. NQuads PROVE f[L].dm[scanlist[i]] \in S[<<i, n * FIFOSAM>>]
  <2>1. CASE L = 0
    <3>1. n = 0
      <4> SUFFICES ASSUME n # 0 PROVE FALSE
        OBVIOUS
      <4>1. n * NQuads \in Nat \ {0}
        BY <1>1
      <4>2. (n * NQuads) * FIFOSAM # 0
        BY <1>1, <4>1
      <4> QED
        BY <2>1, <4>2 DEF L
    <3>2. n * FIFOSAM = 0
      BY <1>1, <3>1
    <3>3. f[L].dm = dm
      BY <1>4, <2>1 DEF Start
    <3> QED
      BY <3>2, <3>3, Zenon DEF Begins
  <2>2. CASE L # 0
    <3>1. f[L].isam \in 1 .. FIFOSAM
      BY <1>1, <1>11, <1>13, <2>2
    <3>2. At(c, f[L].iq, f[L].isam) = (n * NQuads) * FIFOSAM
      BY <1>10, Zenon DEF InPlace, L
    <3>3. f[L].iq = NQuads /\ f[L].isam = FIFOSAM /\ n = c + 1
      BY <1>13, <3>1, <3>2, AtEnd
    <3>4. Depth(i, NQuads, FIFOSAM, c) = c * FIFOSAM + FIFOSAM
      <4>1. i < NQuads \/ i = NQuads
        BY <1>1
      <4> QED
        BY <4>1, Zenon DEF Depth
    <3>5. c * FIFOSAM + FIFOSAM = n * FIFOSAM
      BY <1>1, <3>3
    <3> QED
      BY <1>10, <3>3, <3>4, <3>5, Zenon DEF InPlace
  <2> QED
    BY <2>1, <2>2
<1> QED
  BY <1>3a, <1>13, <1>14, Zenon

\* process() of n scans, of memory from the first row of scan k on.
LEMMA ProcessScans ==
    ASSUME NEW R, \A r \in R : r.es \in BOOLEAN,
           NEW memory, \A m \in Nat : memory[m] \in R, NEW dm \in Models(R),
           NEW k \in Nat, NEW n \in Nat, NEW stash_es \in BOOLEAN, n = 0 => ~ stash_es,
           NEW S, Begins(S, dm),
           \A c \in Nat, i \in 1 .. NQuads, j \in 0 .. FIFOSAM :
                j < FIFOSAM /\ c < n =>
                    \A dq \in DQuads(R) :
                        dq \in S[<<i, c * FIFOSAM + j>>] =>
                            Consume(dq, memory[At(k + c, i, j)], stash_es)
                                \in S[<<i, c * FIFOSAM + (j + 1)>>]
    PROVE  LET then == process(memory, (k * NQuads) * FIFOSAM, (n * NQuads) * FIFOSAM,
                               dm, Unlimited, stash_es)
           IN  /\ then \in Models(R)
               /\ \A i \in 1 .. NQuads : then[scanlist[i]] \in S[<<i, n * FIFOSAM>>]
<1> DEFINE from == (k * NQuads) * FIFOSAM
           nrows == (n * NQuads) * FIFOSAM
           rows == [i \in 1 .. nrows |-> memory[from + i - 1]]
<1>1. NQuads \in Nat \ {0} /\ FIFOSAM \in Nat \ {0}
  BY Counts
<1>2. FIFOSAM < Unlimited /\ Unlimited \in Nat
  BY ScanAssumption DEF Unlimited
<1>3. k * FIFOSAM \in Nat /\ k * NQuads \in Nat /\ n * NQuads \in Nat
  BY <1>1
<1>4. from \in Nat /\ nrows \in Nat
  BY <1>1, <1>3
<1>5. CASE nrows < FIFOSAM * NQuads
  <2>1. n = 0
    <3> SUFFICES ASSUME n # 0 PROVE FALSE
      OBVIOUS
    <3>1. nrows = (FIFOSAM * NQuads) * n
      BY <1>1
    <3>2. FIFOSAM * NQuads \in Nat
      BY <1>1
    <3>3. (FIFOSAM * NQuads) * n = FIFOSAM * NQuads + (FIFOSAM * NQuads) * (n - 1)
      BY <3>2
    <3>4. (FIFOSAM * NQuads) * (n - 1) \in Nat
      BY <3>2
    <3> QED
      BY <1>5, <3>1, <3>2, <3>3, <3>4
  <2>2. process(memory, from, nrows, dm, Unlimited, stash_es) = dm
    BY <1>5, <2>1, Zenon DEF process
  <2>3. n * FIFOSAM = 0
    BY <1>1, <2>1
  <2> QED
    BY <2>2, <2>3, Zenon DEF Begins
<1>6. CASE ~ (nrows < FIFOSAM * NQuads)
  <2>1. process(memory, from, nrows, dm, Unlimited, stash_es)
            = processAll(rows, dm, Unlimited, stash_es)
    BY <1>6, Zenon DEF process
  <2>2. ASSUME NEW m \in 1 .. nrows PROVE from + m - 1 \in Nat
    BY <1>4
  <2> HIDE DEF from, nrows
  <2>3. rows \in [1 .. nrows -> R]
    BY <2>2
  <2>4. rows \in Seq(R)
    BY <1>4, <2>3, SeqDef
  <2>5. Len(rows) = nrows
    BY <1>4, <2>3, <2>4, LenProperties
  <2>6. \A m \in 1 .. nrows : rows[m] = memory[from + m - 1]
    OBVIOUS
  <2> HIDE DEF rows
  <2>7. ASSUME NEW c \in Nat, NEW i \in 1 .. NQuads, NEW j \in 0 .. FIFOSAM,
               j < FIFOSAM, At(c, i, j) < Len(rows), NEW dq \in DQuads(R),
               dq \in S[<<i, c * FIFOSAM + j>>]
        PROVE  Consume(dq, rows[At(c, i, j) + 1], stash_es) \in S[<<i, c * FIFOSAM + (j + 1)>>]
    <3>1. At(c, i, j) \in Nat
      BY AtTypes
    <3>2. At(c, i, j) + 1 \in 1 .. nrows /\ from + (At(c, i, j) + 1) - 1 = from + At(c, i, j)
      BY <1>4, <2>5, <2>7, <3>1
    <3>3. c * NQuads \in Nat /\ (k + c) * NQuads = k * NQuads + c * NQuads
      BY <1>1
    <3>4. from + At(c, i, j) = At(k + c, i, j)
      <4> DEFINE x == c * NQuads + i - 1
                 y == k * NQuads
      <4>1. (k + c) * NQuads + i - 1 = y + x /\ x \in Int /\ y \in Int
        BY <1>1, <1>3, <3>3
      <4>2. from + At(c, i, j) = y * FIFOSAM + (x * FIFOSAM + j)
        BY Zenon DEF from, At
      <4>3. At(k + c, i, j) = (y + x) * FIFOSAM + j
        BY <4>1, Zenon DEF At
      <4> HIDE DEF x, y
      <4>4. /\ (y + x) * FIFOSAM = y * FIFOSAM + x * FIFOSAM
            /\ y * FIFOSAM \in Int /\ x * FIFOSAM \in Int
        BY <1>1, <4>1
      <4> QED
        BY <4>2, <4>3, <4>4
    <3>5. c < n
      <4> SUFFICES ASSUME ~ (c < n) PROVE FALSE
        OBVIOUS
      <4> DEFINE d == c - n
                 y == n * NQuads
                 z == d * NQuads + i - 1
      <4>1. c * NQuads = y + d * NQuads /\ d \in Nat /\ d * NQuads \in Nat /\ y \in Nat
        BY <1>1
      <4> HIDE DEF d
      <4>2. z \in Nat /\ c * NQuads + i - 1 = y + z
        BY <1>1, <4>1
      <4> HIDE DEF y, z
      <4>3. (y + z) * FIFOSAM = y * FIFOSAM + z * FIFOSAM /\ z * FIFOSAM \in Nat
            /\ y * FIFOSAM \in Nat
        BY <1>1, <4>1, <4>2
      <4>4. At(c, i, j) = (y + z) * FIFOSAM + j
        BY <4>2, Zenon DEF At
      <4>5. Len(rows) = y * FIFOSAM
        BY <2>5, Zenon DEF nrows, y
      <4> QED
        BY <2>7, <4>3, <4>4, <4>5
    <3>6. rows[At(c, i, j) + 1] = memory[At(k + c, i, j)]
      BY <2>6, <3>2, <3>4, Zenon
    <3> QED
      BY <2>7, <3>5, <3>6, Zenon
  <2>8. Advances(S, R, rows, stash_es)
    BY <2>7, Zenon DEF Advances
  <2>9. Len(rows) = (n * NQuads) * FIFOSAM
    BY <2>5, Zenon DEF nrows
  <2>10. /\ processAll(rows, dm, Unlimited, stash_es) \in Models(R)
         /\ \A i \in 1 .. NQuads :
                processAll(rows, dm, Unlimited, stash_es)[scanlist[i]] \in S[<<i, n * FIFOSAM>>]
    BY <1>2, <2>4, <2>8, <2>9, ProcessAllSteps
  <2> QED
    BY <2>1, <2>10, Zenon DEF from, nrows
<1> QED
  BY <1>5, <1>6, Zenon

-----------------------------------------------------------------------------
\* The cursors of a quad: how many samples it has, and where its signatures
\* are among them.
Shape(dq) == [len |-> Len(dq.data), es |-> dq.es]
Shapes == [len : Nat, es : Seq(Nat)]

\* What a row makes of them.
Grown(s, is_es, stash_es) ==
    IF ~ is_es THEN [len |-> s.len + 1, es |-> s.es]
    ELSE IF stash_es /\ (s.es = <<>> \/ Last(s.es) # s.len)
    THEN [len |-> s.len, es |-> Append(s.es, s.len)]
    ELSE s

\* They stay cursors.
LEMMA GrownTypes ==
    ASSUME NEW s \in Shapes, NEW is_es \in BOOLEAN, NEW stash_es \in BOOLEAN
    PROVE  Grown(s, is_es, stash_es) \in Shapes
<1>1. s.len \in Nat /\ s.es \in Seq(Nat) /\ s.len + 1 \in Nat
  BY DEF Shapes
<1>2. Append(s.es, s.len) \in Seq(Nat)
  BY <1>1, AppendProperties
<1>3. /\ [len |-> s.len + 1, es |-> s.es] \in Shapes
      /\ [len |-> s.len, es |-> Append(s.es, s.len)] \in Shapes
  BY <1>1, <1>2 DEF Shapes
<1> QED
  BY <1>3, Zenon DEF Grown

\* That is what consume() and addES() do to them.
LEMMA ConsumeGrows ==
    ASSUME NEW R, NEW dq \in DQuads(R), NEW row \in R, row.es \in BOOLEAN, NEW stash_es \in BOOLEAN
    PROVE  Shape(Consume(dq, row, stash_es)) = Grown(Shape(dq), row.es, stash_es)
<1>1. dq.data \in Seq(R) /\ dq.es \in Seq(Nat) /\ dq.sig \in Seq(R)
  BY DEF DQuads
<1>2. Len(Append(dq.data, row)) = Len(dq.data) + 1
  BY <1>1, AppendProperties
<1>3. Shape(dq).len = Len(dq.data) /\ Shape(dq).es = dq.es
  BY DEF Shape
<1> DEFINE sample == [dq EXCEPT !.data = Append(@, row)]
           signature == [dq EXCEPT !.es = Append(@, Len(dq.data)), !.sig = Append(@, row)]
<1>4. sample.data = Append(dq.data, row) /\ sample.es = dq.es
  BY DEF DQuads
<1>5. signature.data = dq.data /\ signature.es = Append(dq.es, Len(dq.data))
  BY DEF DQuads
<1> HIDE DEF sample, signature
<1>6. CASE ~ row.es
  <2>1. Consume(dq, row, stash_es) = sample
    BY <1>6, Zenon DEF Consume, sample
  <2>2. Shape(sample) = [len |-> Len(dq.data) + 1, es |-> dq.es]
    BY <1>2, <1>4, Zenon DEF Shape
  <2> QED
    BY <2>1, <2>2, <1>3, <1>6, Zenon DEF Grown
<1>7. CASE row.es /\ stash_es /\ (dq.es = <<>> \/ Last(dq.es) # Len(dq.data))
  <2>1. Consume(dq, row, stash_es) = signature
    BY <1>7, Zenon DEF Consume, signature
  <2>2. Shape(signature) = [len |-> Len(dq.data), es |-> Append(dq.es, Len(dq.data))]
    BY <1>5, Zenon DEF Shape
  <2> QED
    BY <2>1, <2>2, <1>3, <1>7, Zenon DEF Grown
<1>8. CASE row.es /\ ~ (stash_es /\ (dq.es = <<>> \/ Last(dq.es) # Len(dq.data)))
  BY <1>3, <1>8, Zenon DEF Grown, Consume
<1> QED
  BY <1>6, <1>7, <1>8, Zenon

\* All quads have the same cursors.
Alike(dm) == \A p, q \in Quads : Shape(dm[p]) = Shape(dm[q])

\* The cursors after each row of a quad whose flags are e.
Grows(sh, s, e, L, stash_es) ==
    sh[0] = s /\ \A n \in 1 .. L : sh[n] = Grown(sh[n - 1], e[n - 1], stash_es)

\* There are such cursors for any flags.
LEMMA CursorsGrow ==
    ASSUME NEW s \in Shapes, NEW e \in [Nat -> BOOLEAN], NEW L \in Nat, NEW stash_es \in BOOLEAN
    PROVE  \E sh \in [0 .. L -> Shapes] : Grows(sh, s, e, L, stash_es)
<1> DEFINE g == [p \in Shapes \X (1 .. L) |-> Grown(p[1], e[p[2] - 1], stash_es)]
<1>1. ASSUME NEW t \in Shapes, NEW n \in 1 .. L PROVE Grown(t, e[n - 1], stash_es) \in Shapes
  <2>1. e[n - 1] \in BOOLEAN
    <3>1. n - 1 \in Nat
      OBVIOUS
    <3> QED
      BY <3>1, Zenon
  <2> QED
    BY <2>1, GrownTypes
<1>2. g \in [Shapes \X (1 .. L) -> Shapes]
  BY <1>1
<1>3. \A t \in Shapes, n \in 1 .. L : g[<<t, n>>] = Grown(t, e[n - 1], stash_es)
  OBVIOUS
<1> HIDE DEF g
<1>4. PICK sh \in [0 .. L -> Shapes] : Recurses(sh, s, g, L)
  BY <1>2, Recursion
<1>5. ASSUME NEW n \in 1 .. L PROVE sh[n] = Grown(sh[n - 1], e[n - 1], stash_es)
  <2>1. n - 1 \in 0 .. L
    OBVIOUS
  <2>2. sh[n - 1] \in Shapes
    BY <2>1
  <2>3. sh[n] = g[<<sh[n - 1], n>>]
    BY <1>4, Zenon DEF Recurses
  <2> QED
    BY <2>2, <2>3, <1>3, Zenon
<1>6. sh[0] = s
  BY <1>4, Zenon DEF Recurses
<1> QED
  BY <1>5, <1>6, Zenon DEF Grows

\* Whole scans whose rows have their signatures in the same places leave all
\* quads with the same cursors.
LEMMA ProcessAlike ==
    ASSUME NEW R, \A r \in R : r.es \in BOOLEAN,
           NEW memory, \A m \in Nat : memory[m] \in R, NEW dm \in Models(R), Alike(dm),
           NEW k \in Nat, NEW n \in Nat, NEW stash_es \in BOOLEAN, n = 0 => ~ stash_es,
           NEW e \in [Nat -> BOOLEAN],
           \A c \in Nat, i \in 1 .. NQuads, j \in 0 .. FIFOSAM :
                j < FIFOSAM => memory[At(c, i, j)].es = e[c * FIFOSAM + j]
    PROVE  LET then == process(memory, (k * NQuads) * FIFOSAM, (n * NQuads) * FIFOSAM,
                               dm, Unlimited, stash_es)
           IN  then \in Models(R) /\ Alike(then)
<1> DEFINE s == Shape(dm[scanlist[1]])
           L == n * FIFOSAM
           flags == [x \in Nat |-> e[k * FIFOSAM + x]]
<1>1. NQuads \in Nat \ {0} /\ FIFOSAM \in Nat \ {0} /\ 1 \in 1 .. NQuads /\ scanlist[1] \in Quads
  BY Counts
<1>2. L \in Nat /\ k * FIFOSAM \in Nat
  BY <1>1
<1>3. s \in Shapes
  <2>1. dm[scanlist[1]] \in DQuads(R)
    BY <1>1 DEF Models
  <2>2. dm[scanlist[1]].data \in Seq(R) /\ dm[scanlist[1]].es \in Seq(Nat)
    BY <2>1 DEF DQuads
  <2>3. Len(dm[scanlist[1]].data) \in Nat
    BY <2>2, LenProperties
  <2> QED
    BY <2>2, <2>3 DEF Shape, Shapes
<1>4. flags \in [Nat -> BOOLEAN]
  <2>1. ASSUME NEW x \in Nat PROVE e[k * FIFOSAM + x] \in BOOLEAN
    <3>1. k * FIFOSAM + x \in Nat
      BY <1>2
    <3> QED
      BY <3>1, Zenon
  <2> QED
    BY <2>1
<1>5. \A x \in Nat : flags[x] = e[k * FIFOSAM + x]
  OBVIOUS
<1> HIDE DEF flags, L
<1>6. PICK sh \in [0 .. L -> Shapes] : Grows(sh, s, flags, L, stash_es)
  <2> HIDE DEF s
  <2> QED
    BY <1>2, <1>3, <1>4, CursorsGrow
<1> DEFINE S == [p \in (1 .. NQuads) \X (0 .. L) |-> { dq \in DQuads(R) : Shape(dq) = sh[p[2]] }]
<1>7. \A i \in 1 .. NQuads, x \in 0 .. L, dq \in DQuads(R) :
            dq \in S[<<i, x>>] <=> Shape(dq) = sh[x]
  OBVIOUS
<1> HIDE DEF S
<1>8. ASSUME NEW i \in 1 .. NQuads PROVE dm[scanlist[i]] \in S[<<i, 0>>]
  <2>1. scanlist[i] \in Quads
    BY Counts
  <2>2. dm[scanlist[i]] \in DQuads(R)
    BY <2>1 DEF Models
  <2>3. Shape(dm[scanlist[i]]) = sh[0]
    BY <1>1, <1>6, <2>1, Zenon DEF Alike, Grows, s
  <2>4. 0 \in 0 .. L
    BY <1>2
  <2> QED
    BY <1>7, <2>2, <2>3, <2>4, Zenon
<1>8a. Begins(S, dm)
  BY <1>8, Zenon DEF Begins
<1> HIDE DEF s
<1>9. ASSUME NEW c \in Nat, NEW i \in 1 .. NQuads, NEW j \in 0 .. FIFOSAM, j < FIFOSAM, c < n,
             NEW dq \in DQuads(R), dq \in S[<<i, c * FIFOSAM + j>>]
      PROVE  Consume(dq, memory[At(k + c, i, j)], stash_es) \in S[<<i, c * FIFOSAM + (j + 1)>>]
  <2> DEFINE x == c * FIFOSAM + j
             row == memory[At(k + c, i, j)]
  <2>1. /\ x \in 0 .. L /\ x + 1 \in 1 .. L /\ x + 1 \in 0 .. L /\ (x + 1) - 1 = x
        /\ x + 1 = c * FIFOSAM + (j + 1) /\ x \in Nat
    BY <1>9, RowOfScan DEF L
  <2>2. k + c \in Nat /\ At(k + c, i, j) \in Nat
    <3>1. k + c \in Nat
      OBVIOUS
    <3>2. \A d \in Nat : At(d, i, j) \in Nat
      BY AtTypes
    <3> QED
      BY <3>1, <3>2, Zenon
  <2>3. row \in R /\ row.es \in BOOLEAN
    BY <2>2
  <2>4. row.es = flags[x]
    <3>1. row.es = e[(k + c) * FIFOSAM + j]
      BY <1>9, <2>2, Zenon
    <3>2. (k + c) * FIFOSAM + j = k * FIFOSAM + x
      <4>1. (k + c) * FIFOSAM = k * FIFOSAM + c * FIFOSAM /\ c * FIFOSAM \in Nat
        BY <1>1
      <4> QED
        BY <1>2, <4>1
    <3> QED
      BY <1>5, <2>1, <3>1, <3>2, Zenon
  <2>5. dq \in S[<<i, x>>]
    BY <1>9, Zenon
  <2> HIDE DEF x, row
  <2>6. Shape(dq) = sh[x]
    BY <1>7, <2>1, <2>5, Zenon
  <2>7. Shape(Consume(dq, row, stash_es)) = Grown(sh[x], flags[x], stash_es)
    BY <2>3, <2>4, <2>6, ConsumeGrows
  <2>8. sh[x + 1] = Grown(sh[x], flags[x], stash_es)
    <3>1. \A m \in 1 .. L : sh[m] = Grown(sh[m - 1], flags[m - 1], stash_es)
      BY <1>6, Zenon DEF Grows
    <3> QED
      BY <2>1, <3>1, Zenon
  <2>9. Consume(dq, row, stash_es) \in DQuads(R)
    BY <2>3, ConsumeTypes
  <2>10. Consume(dq, row, stash_es) \in S[<<i, x + 1>>]
    BY <1>7, <2>1, <2>7, <2>8, <2>9, Zenon
  <2> QED
    BY <2>1, <2>10, Zenon DEF row
<1> DEFINE then == process(memory, (k * NQuads) * FIFOSAM, (n * NQuads) * FIFOSAM,
                           dm, Unlimited, stash_es)
<1>10. /\ then \in Models(R)
       /\ \A i \in 1 .. NQuads : then[scanlist[i]] \in S[<<i, n * FIFOSAM>>]
  BY <1>8a, <1>9, ProcessScans
<1> HIDE DEF then
<1>11. ASSUME NEW q \in Quads PROVE Shape(then[q]) = sh[L]
  <2>1. PICK i \in 1 .. NQuads : q = scanlist[i]
    BY Counts
  <2>2. L \in 0 .. L
    BY <1>2
  <2>3. then[q] \in S[<<i, L>>] /\ then[q] \in DQuads(R)
    BY <1>10, <2>1, Zenon DEF L, Models
  <2> QED
    BY <1>7, <2>2, <2>3, Zenon
<1>12. Alike(then)
  BY <1>11, Zenon DEF Alike
<1> QED
  BY <1>10, <1>12, Zenon DEF then

=============================================================================
