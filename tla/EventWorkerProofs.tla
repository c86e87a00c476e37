------------------------- MODULE EventWorkerProofs -------------------------
(***************************************************************************)
(* For any number of quads, any blocks, options and lines, any kills and   *)
(* restarts: the types of EventWorker, that a directory is only published  *)
(* with the complete files of one event, that an announced event keeps its *)
(* complete files, that the events of a line are found with their samples  *)
(* around them, and that their times are true.                             *)
(***************************************************************************)
EXTENDS EventWorker, Acq132DataProofs, FiniteSetTheorems

\* A number of rows that is whole turns.
Turns(n) == \E k \in Nat : n = k * FIFOSAM
\* A number of slots that is whole units of rounding.
Units(n) == \E k \in Nat : n = k * ACQ132_BLOCKLEN

\* A unit is two turns.
LEMMA UnitLength ==
    /\ ACQ132_BLOCKLEN \in Nat \ {0} /\ ACQ132_BLOCKLEN = 2 * FIFOSAM
    /\ FIFOSAM \in Nat \ {0}
BY WorkerAssumption, ScanAssumption

\* Units add up, and what is left of them is units.
LEMMA UnitsSum ==
    ASSUME NEW m, NEW n, Units(m), Units(n)
    PROVE  /\ m \in Nat /\ n \in Nat
           /\ Units(m + n)
           /\ n <= m => Units(m - n)
<1>1. PICK j \in Nat : m = j * ACQ132_BLOCKLEN
  BY DEF Units
<1>2. PICK k \in Nat : n = k * ACQ132_BLOCKLEN
  BY DEF Units
<1>3. ACQ132_BLOCKLEN \in Nat \ {0}
  BY UnitLength
<1>4. m \in Nat /\ n \in Nat
  BY <1>1, <1>2, <1>3
<1>5. j + k \in Nat /\ m + n = (j + k) * ACQ132_BLOCKLEN
  BY <1>1, <1>2, <1>3
<1>6. ASSUME n <= m PROVE j - k \in Nat /\ m - n = (j - k) * ACQ132_BLOCKLEN
  <2>1. k <= j
    <3> SUFFICES ASSUME ~ (k <= j) PROVE FALSE
      OBVIOUS
    <3>1. n = m + (k - j) * ACQ132_BLOCKLEN /\ k - j >= 1
      BY <1>1, <1>2, <1>3
    <3>2. (k - j) * ACQ132_BLOCKLEN >= ACQ132_BLOCKLEN
      BY <1>3, <3>1
    <3> QED
      BY <1>3, <1>4, <1>6, <3>1, <3>2
  <2> QED
    BY <1>1, <1>2, <1>3, <2>1
<1> QED
  BY <1>4, <1>5, <1>6, Zenon DEF Units

\* Units are turns.
LEMMA UnitsTurns ==
    ASSUME NEW n, Units(n)
    PROVE  Turns(n)
<1>1. PICK k \in Nat : n = k * ACQ132_BLOCKLEN
  BY DEF Units
<1>2. 2 * k \in Nat /\ n = (2 * k) * FIFOSAM
  BY <1>1, UnitLength
<1> QED
  BY <1>2, Zenon DEF Turns

\* What round_down() and round_up() give.
LEMMA Rounded ==
    ASSUME NEW n \in Nat
    PROVE  /\ Units(round_down(n)) /\ round_down(n) <= n /\ n < round_down(n) + ACQ132_BLOCKLEN
           /\ Units(round_up(n)) /\ n <= round_up(n) /\ round_up(n) < n + ACQ132_BLOCKLEN
<1>1. ACQ132_BLOCKLEN \in Nat \ {0}
  BY UnitLength
<1>2. ASSUME NEW m \in Nat
      PROVE  /\ Units(round_down(m)) /\ round_down(m) <= m /\ round_down(m) \in Nat
             /\ m < round_down(m) + ACQ132_BLOCKLEN
  <2>1. m \div ACQ132_BLOCKLEN \in Nat /\ m % ACQ132_BLOCKLEN \in 0 .. ACQ132_BLOCKLEN - 1
    BY <1>1
  <2>2. m = (m \div ACQ132_BLOCKLEN) * ACQ132_BLOCKLEN + (m % ACQ132_BLOCKLEN)
    BY <1>1
  <2>3. round_down(m) = (m \div ACQ132_BLOCKLEN) * ACQ132_BLOCKLEN
    <3>1. (m \div ACQ132_BLOCKLEN) * ACQ132_BLOCKLEN \in Nat
      BY <1>1, <2>1
    <3> QED
      BY <2>1, <2>2, <3>1 DEF round_down
  <2>4. Units(round_down(m))
    BY <2>1, <2>3, Zenon DEF Units
  <2> QED
    BY <1>1, <2>1, <2>4 DEF round_down
<1>3. n + ACQ132_BLOCKLEN - 1 \in Nat
  BY <1>1
<1>4. /\ Units(round_up(n)) /\ round_up(n) <= n + ACQ132_BLOCKLEN - 1 /\ round_up(n) \in Nat
      /\ n + ACQ132_BLOCKLEN - 1 < round_up(n) + ACQ132_BLOCKLEN
  BY <1>2, <1>3, Zenon DEF round_up
<1> QED
  BY <1>1, <1>2, <1>4

\* A block is units.
LEMMA BlockIsUnits == Units(TBLOCK_LEN) /\ TBLOCK_LEN \in Nat
<1>1. ACQ132_BLOCKLEN \in Nat \ {0} /\ TBLOCK_LEN \in Nat /\ TBLOCK_LEN % ACQ132_BLOCKLEN = 0
  BY UnitLength, WorkerAssumption
<1>2. TBLOCK_LEN \div ACQ132_BLOCKLEN \in Nat
      /\ TBLOCK_LEN = (TBLOCK_LEN \div ACQ132_BLOCKLEN) * ACQ132_BLOCKLEN
                        + (TBLOCK_LEN % ACQ132_BLOCKLEN)
  BY <1>1
<1>3. (TBLOCK_LEN \div ACQ132_BLOCKLEN) * ACQ132_BLOCKLEN \in Nat
  BY <1>1, <1>2
<1>4. TBLOCK_LEN = (TBLOCK_LEN \div ACQ132_BLOCKLEN) * ACQ132_BLOCKLEN
  BY <1>1, <1>2, <1>3
<1> QED
  BY <1>1, <1>2, <1>4, Zenon DEF Units

\* Min is the least.
LEMMA LeastOf ==
    ASSUME NEW T, T \subseteq Nat, T # {}
    PROVE  Min(T) \in T /\ \A n \in T : Min(T) <= n
<1>1. PICK m \in T : \A n \in T : m <= n
  BY LeastNumber
<1> QED
  BY <1>1, Zenon DEF Min

\* Max is the greatest.
LEMMA GreatestOf ==
    ASSUME NEW T, NEW k \in Nat, T \subseteq 0 .. k, T # {}
    PROVE  Max(T) \in T /\ \A n \in T : n <= Max(T)
<1> DEFINE U == { n \in 0 .. k : k - n \in T }
<1>1. U \subseteq Nat /\ U # {}
  <2>1. PICK n \in T : TRUE
    OBVIOUS
  <2>2. n \in 0 .. k /\ k - n \in 0 .. k /\ k - (k - n) = n
    OBVIOUS
  <2>3. k - n \in U
    BY <2>2
  <2> QED
    BY <2>3
<1>2. PICK m \in U : \A n \in U : m <= n
  <2> HIDE DEF U
  <2> QED
    BY <1>1, LeastNumber
<1>3. k - m \in T /\ m \in 0 .. k
  OBVIOUS
<1>4. ASSUME NEW n \in T PROVE k - m >= n
  <2>1. n \in 0 .. k /\ k - n \in 0 .. k /\ k - (k - n) = n
    OBVIOUS
  <2>2. k - n \in U
    BY <2>1
  <2>3. m <= k - n
    BY <1>2, <2>2
  <2> QED
    BY <1>3, <2>1, <2>3
<1>5. \E x \in T : \A y \in T : x >= y
  BY <1>3, <1>4
<1>6. Max(T) \in T /\ \A y \in T : Max(T) >= y
  BY <1>5, Zenon DEF Max
<1> QED
  BY <1>6

\* What a line is.
LEMMA LineTypes ==
    ASSUME NEW l \in AnyLine
    PROVE  /\ \A b \in 0 .. 2 : l.es[b] \subseteq 0 .. TBLOCK_LEN - 1
           /\ l.given \subseteq 0 .. 2 /\ l.given # {} /\ l.timed \in BOOLEAN
           /\ esoff(l) \in 0 .. TBLOCK_LEN - 1 /\ esoff2(l) \in 0 .. TBLOCK_LEN - 1
           /\ esoff(l) <= esoff2(l)
<1>1. l \in [es : [0 .. 2 -> SUBSET (0 .. TBLOCK_LEN - 1)],
             given : SUBSET (0 .. 2), timed : BOOLEAN]
  BY WorkerAssumption
<1>2. l.es[1] # {} /\ l.given # {}
  BY WorkerAssumption
<1>3. \A b \in 0 .. 2 : l.es[b] \subseteq 0 .. TBLOCK_LEN - 1
  BY <1>1
<1>4. l.es[1] \subseteq 0 .. TBLOCK_LEN - 1
  BY <1>3
<1>5. TBLOCK_LEN - 1 \in Nat
  BY <1>2, <1>4, WorkerAssumption
<1>6. esoff(l) \in l.es[1] /\ \A n \in l.es[1] : esoff(l) <= n
  <2>1. l.es[1] \subseteq Nat
    BY <1>4
  <2> QED
    BY <1>2, <2>1, LeastOf, Zenon DEF esoff
<1>7. esoff2(l) \in l.es[1]
  BY <1>2, <1>4, <1>5, GreatestOf, Zenon DEF esoff2
<1> QED
  BY <1>1, <1>2, <1>3, <1>4, <1>6, <1>7

\* What the options are.
LEMMA SettingTypes ==
    ASSUME set \in Settings
    PROVE  /\ set.pre \in Nat /\ set.post \in Nat /\ set.pre <= TBLOCK_LEN
           /\ set.cleanup \in BOOLEAN /\ set.overwrite \in BOOLEAN /\ set.use_cooking \in BOOLEAN
BY WorkerAssumption

\* What is read of a block begins and ends with a turn of the first quad; it
\* is only nothing when signatures are not kept.
CutInTurns(cut) ==
    /\ Turns(cut.from) /\ Turns(cut.len)
    /\ cut.by \in Int /\ cut.adjusts \in BOOLEAN /\ cut.stash_es \in BOOLEAN
    /\ cut.len = 0 => ~ cut.stash_es

\* The end of the left block.
LEMMA CutLeft ==
    ASSUME set \in Settings
    PROVE  CutInTurns(LeftCut)
<1> DEFINE pre == round_up(set.pre)
<1>1. set.pre \in Nat /\ set.pre <= TBLOCK_LEN
  BY SettingTypes
<1>2. Units(pre) /\ pre < set.pre + ACQ132_BLOCKLEN
  BY <1>1, Rounded
<1>3. Units(TBLOCK_LEN) /\ TBLOCK_LEN \in Nat
  BY BlockIsUnits
<1> HIDE DEF pre
<1>4. pre \in Nat /\ (pre <= TBLOCK_LEN => Units(TBLOCK_LEN - pre))
  BY <1>2, <1>3, UnitsSum
<1>5. pre <= TBLOCK_LEN
  <2> SUFFICES ASSUME ~ (pre <= TBLOCK_LEN) PROVE FALSE
    OBVIOUS
  <2>1. PICK j \in Nat : TBLOCK_LEN = j * ACQ132_BLOCKLEN
    BY <1>3 DEF Units
  <2>2. PICK k \in Nat : pre = k * ACQ132_BLOCKLEN
    BY <1>2 DEF Units
  <2>3. k - j \in Int /\ pre = TBLOCK_LEN + (k - j) * ACQ132_BLOCKLEN
    BY <2>1, <2>2, UnitLength
  <2>4. k - j >= 1
    <3> SUFFICES ASSUME ~ (k - j >= 1) PROVE FALSE
      OBVIOUS
    <3>1. (k - j) * ACQ132_BLOCKLEN <= 0
      BY <2>3, UnitLength
    <3> QED
      BY <1>3, <1>4, <2>3, <3>1, UnitLength
  <2>5. (k - j) * ACQ132_BLOCKLEN >= ACQ132_BLOCKLEN
    BY <2>3, <2>4, UnitLength
  <2> QED
    BY <1>1, <1>2, <1>3, <1>4, <2>3, <2>5, UnitLength
<1>6. Turns(TBLOCK_LEN - pre) /\ Turns(pre)
  BY <1>2, <1>4, <1>5, UnitsTurns
<1>7. LeftCut = Cut(TBLOCK_LEN - pre, pre, TRUE, -pre, FALSE)
  BY Zenon DEF LeftCut, pre
<1>8. -pre \in Int
  BY <1>4
<1> QED
  BY <1>6, <1>7, <1>8 DEF CutInTurns, Cut

\* The beginning of the right block.
LEMMA CutRight ==
    ASSUME set \in Settings
    PROVE  CutInTurns(RightCut)
<1> DEFINE post == round_up(set.post)
<1>1. set.post \in Nat
  BY SettingTypes
<1>2. Units(post)
  BY <1>1, Rounded
<1>3. 0 \in Nat /\ 0 = 0 * ACQ132_BLOCKLEN /\ 0 \in Int
  BY UnitLength
<1>4. Units(0)
  BY <1>3, Zenon DEF Units
<1>5. Turns(post) /\ Turns(0)
  BY <1>2, <1>4, UnitsTurns
<1>6. RightCut = Cut(0, post, FALSE, 0, FALSE)
  BY Zenon DEF RightCut
<1> HIDE DEF post
<1> QED
  BY <1>3, <1>5, <1>6 DEF CutInTurns, Cut

\* The middle block, trimmed around its events, is never read to nothing.
LEMMA CutMiddle ==
    ASSUME set \in Settings, NEW l \in AnyLine
    PROVE  CutInTurns(MiddleCut(l))
<1> DEFINE low == round_up(set.pre) + ACQ132_BLOCKLEN
           slack == round_up(set.post) + ACQ132_BLOCKLEN
           high == TBLOCK_LEN - slack
           first == round_down(esoff(l))
           last == round_up(esoff2(l))
           late == first > low
           from == IF late THEN first - low ELSE 0
           cut == IF high < 0 \/ last < high THEN high - last ELSE 0
<1>1. Units(TBLOCK_LEN) /\ TBLOCK_LEN \in Nat
  BY BlockIsUnits
<1>2. MiddleCut(l) = Cut(from, TBLOCK_LEN - from - cut, late, from, TRUE)
  BY Zenon DEF MiddleCut
<1>3. esoff(l) \in 0 .. TBLOCK_LEN - 1 /\ esoff2(l) \in 0 .. TBLOCK_LEN - 1 /\ esoff(l) <= esoff2(l)
  BY LineTypes
<1>4. Units(first) /\ Units(last) /\ first \in Nat /\ last \in Nat
      /\ first <= last /\ first < TBLOCK_LEN
  <2>1. Units(first) /\ first <= esoff(l)
    BY <1>3, Rounded
  <2>2. Units(last) /\ esoff2(l) <= last
    BY <1>3, Rounded
  <2>3. first \in Nat /\ last \in Nat
    BY <2>1, <2>2, UnitsSum
  <2> QED
    BY <1>1, <1>3, <2>1, <2>2, <2>3
<1>5. Units(ACQ132_BLOCKLEN) /\ ACQ132_BLOCKLEN \in Nat \ {0}
  <2>1. 1 \in Nat /\ ACQ132_BLOCKLEN = 1 * ACQ132_BLOCKLEN
    BY UnitLength
  <2> QED
    BY <2>1, UnitLength, Zenon DEF Units
<1>6. Units(low) /\ Units(slack) /\ low \in Nat /\ slack \in Nat \ {0}
  <2>1. Units(round_up(set.pre)) /\ Units(round_up(set.post))
    BY SettingTypes, Rounded
  <2>2. Units(low) /\ Units(slack)
    BY <1>5, <2>1, UnitsSum
  <2>3. round_up(set.post) \in Nat /\ round_up(set.pre) \in Nat
    BY <2>1, UnitsSum
  <2> QED
    BY <1>5, <2>2, <2>3
<1> HIDE DEF low, slack, first, last
<1>7. Units(0)
  <2>1. 0 \in Nat /\ 0 = 0 * ACQ132_BLOCKLEN
    BY UnitLength
  <2> QED
    BY <2>1, Zenon DEF Units
<1>8. Units(from) /\ from \in Nat /\ from <= first
  <2>1. CASE late
    <3>1. low <= first
      BY <1>4, <1>6, <2>1
    <3>2. Units(first - low)
      BY <1>4, <1>6, <3>1, UnitsSum
    <3> QED
      BY <1>4, <1>6, <2>1, <3>2
  <2>2. CASE ~ late
    BY <1>4, <1>7, <2>2
  <2> QED
    BY <2>1, <2>2
<1>9. Units(TBLOCK_LEN - from - cut) /\ TBLOCK_LEN - from - cut # 0
  <2>1. CASE high < 0 \/ last < high
    <3>1. TBLOCK_LEN - from - cut = (slack + last) - from
      BY <1>1, <1>4, <1>6, <1>8, <2>1
    <3>2. Units(slack + last)
      BY <1>4, <1>6, UnitsSum
    <3> HIDE DEF from, cut
    <3>3. from <= slack + last
      BY <1>4, <1>6, <1>8
    <3>4. Units((slack + last) - from)
      BY <1>8, <3>2, <3>3, UnitsSum
    <3> QED
      BY <1>4, <1>6, <1>8, <3>1, <3>4
  <2>2. CASE ~ (high < 0 \/ last < high)
    <3>1. cut = 0
      BY <2>2, Zenon
    <3>2. TBLOCK_LEN - from - cut = TBLOCK_LEN - from
      BY <1>1, <1>8, <3>1
    <3> HIDE DEF from, cut
    <3>3. from <= TBLOCK_LEN
      BY <1>1, <1>4, <1>8
    <3>4. Units(TBLOCK_LEN - from)
      BY <1>1, <1>8, <3>3, UnitsSum
    <3> QED
      BY <1>1, <1>4, <1>8, <3>2, <3>4
  <2> QED
    BY <2>1, <2>2
<1> HIDE DEF from, cut
<1>10. Turns(from) /\ Turns(TBLOCK_LEN - from - cut)
  BY <1>8, <1>9, UnitsTurns
<1>11. from \in Int /\ late \in BOOLEAN
  BY <1>8
<1> HIDE DEF late
<1> QED
  BY <1>2, <1>9, <1>10, <1>11 DEF CutInTurns, Cut

\* Any block of a line.
LEMMA BlockCutInTurns ==
    ASSUME set \in Settings, NEW l \in AnyLine, NEW b \in 0 .. 2
    PROVE  CutInTurns(BlockCut(l, b))
<1>1. b = 0 \/ b = 1 \/ b = 2
  OBVIOUS
<1>2. CASE b = 0
  <2>1. BlockCut(l, b) = LeftCut
    BY <1>2 DEF BlockCut
  <2> QED
    BY <2>1, CutLeft, Zenon
<1>3. CASE b = 1
  <2>1. BlockCut(l, b) = MiddleCut(l)
    BY <1>3 DEF BlockCut
  <2> QED
    BY <2>1, CutMiddle, Zenon
<1>4. CASE b = 2
  <2>1. BlockCut(l, b) = RightCut
    BY <1>4 DEF BlockCut
  <2> QED
    BY <2>1, CutRight, Zenon
<1> QED
  BY <1>1, <1>2, <1>3, <1>4

-----------------------------------------------------------------------------
\* Division undoes multiplication.
LEMMA Quotient ==
    ASSUME NEW x \in Nat, NEW d \in Nat \ {0}, NEW r \in 0 .. d, r < d
    PROVE  /\ (x * d + r) \div d = x /\ (x * d + r) % d = r
           /\ x * d + r \in Nat
<1> DEFINE m == x * d + r
           y == m \div d
           t == m % d
<1>1. x * d \in Nat /\ m \in Nat
  OBVIOUS
<1> HIDE DEF m
<1>2. y \in Nat /\ t \in 0 .. d - 1 /\ m = y * d + t
  BY <1>1
<1> HIDE DEF y, t
<1>3. m = x * d + r
  BY DEF m
<1>4. y = x
  <2>1. ASSUME y < x PROVE FALSE
    <3>1. x * d = y * d + (x - y) * d
      BY <1>2
    <3>2. (x - y) * d >= d /\ y * d \in Nat
      BY <1>2, <2>1
    <3>3. (x - y) * d \in Int
      BY <1>2
    <3> QED
      BY <1>1, <1>2, <1>3, <3>1, <3>2, <3>3
  <2>2. ASSUME x < y PROVE FALSE
    <3>1. y * d = x * d + (y - x) * d
      BY <1>2
    <3>2. (y - x) * d >= d /\ y * d \in Nat
      BY <1>2, <2>2
    <3>3. (y - x) * d \in Int
      BY <1>2
    <3> QED
      BY <1>1, <1>2, <1>3, <3>1, <3>2, <3>3
  <2> QED
    BY <1>2, <2>1, <2>2
<1>5. t = r
  BY <1>1, <1>2, <1>3, <1>4
<1> QED
  BY <1>1, <1>4, <1>5 DEF m, y, t

\* A slot's number is not negative.
LEMMA NumberTypes ==
    ASSUME NEW l \in AnyLine, NEW slot \in Nat
    PROVE  Number(l, slot) \in Nat /\ SignatureSlots(l) \subseteq Nat
<1> DEFINE E == { e \in SignatureSlots(l) : e < slot }
<1>1. TBLOCK_LEN \in Nat
  BY WorkerAssumption
<1>2. ASSUME NEW b \in 0 .. 2, NEW o \in l.es[b] PROVE b * TBLOCK_LEN + o \in Nat
  <2>1. l.es[b] \subseteq 0 .. TBLOCK_LEN - 1
    BY LineTypes
  <2>2. o \in Nat /\ b * TBLOCK_LEN \in Nat
    BY <1>1, <2>1
  <2> QED
    BY <2>2
<1>3. SignatureSlots(l) \subseteq Nat
  BY <1>2 DEF SignatureSlots
<1>4. E \in SUBSET (0 .. slot - 1)
  <2> HIDE DEF E
  <2> SUFFICES ASSUME NEW e \in E PROVE e \in 0 .. slot - 1
    OBVIOUS
  <2>1. e \in Nat /\ e < slot
    BY <1>3 DEF E
  <2> QED
    BY <2>1
<1>5. IsFiniteSet(0 .. slot - 1) /\ Cardinality(0 .. slot - 1) = slot
  <2>1. 0 \in Int /\ slot - 1 \in Int
    OBVIOUS
  <2>2. /\ IsFiniteSet(0 .. slot - 1)
        /\ Cardinality(0 .. slot - 1) = IF 0 > slot - 1 THEN 0 ELSE slot - 1 - 0 + 1
    BY <2>1, FS_Interval
  <2> QED
    BY <2>2
<1> HIDE DEF E
<1>6. IsFiniteSet(E) /\ Cardinality(E) <= slot
  BY <1>4, <1>5, FS_Subset
<1>7. Cardinality(E) \in Nat
  BY <1>6, FS_CardinalityType
<1>8. slot - Cardinality(E) \in Nat
  BY <1>6, <1>7
<1> QED
  BY <1>3, <1>8 DEF Number, E

\* The slot of a block that row j of the turn of a quad in scan c is of.
LEMMA TurnSlot ==
    ASSUME NEW c \in Nat, NEW i \in 1 .. NQuads, NEW j \in 0 .. FIFOSAM, j < FIFOSAM
    PROVE  LET m == At(c, i, j)
           IN  /\ m \in Nat
               /\ (m \div (FIFOSAM * NQuads)) * FIFOSAM + (m % FIFOSAM) = c * FIFOSAM + j
               /\ m \in 0 .. TBLOCK_LEN * NQuads - 1 <=> c * FIFOSAM + j < TBLOCK_LEN
<1> DEFINE m == At(c, i, j)
<1>1. NQuads \in Nat \ {0} /\ FIFOSAM \in Nat \ {0}
  BY Counts
<1>2. c * NQuads \in Nat /\ c * NQuads + i - 1 \in Nat /\ (i - 1) \in Nat /\ i - 1 <= NQuads - 1
  BY <1>1
<1>3. m % FIFOSAM = j /\ m \in Nat
  BY <1>1, <1>2, Quotient DEF At
<1>4. m = c * (FIFOSAM * NQuads) + ((i - 1) * FIFOSAM + j)
  <2>1. (c * NQuads + i - 1) * FIFOSAM = (c * NQuads) * FIFOSAM + (i - 1) * FIFOSAM
    BY <1>1, <1>2
  <2>2. (c * NQuads) * FIFOSAM = c * (FIFOSAM * NQuads)
    BY <1>1
  <2>3. c * (FIFOSAM * NQuads) \in Nat /\ (i - 1) * FIFOSAM \in Nat
    BY <1>1, <1>2
  <2> QED
    BY <2>1, <2>2, <2>3 DEF At
<1>5. FIFOSAM * NQuads \in Nat \ {0} /\ (i - 1) * FIFOSAM + j \in Nat
      /\ (i - 1) * FIFOSAM + j < FIFOSAM * NQuads
  <2>1. FIFOSAM * NQuads = (i - 1) * FIFOSAM + FIFOSAM * (NQuads - i) + FIFOSAM
    BY <1>1, <1>2
  <2>2. FIFOSAM * (NQuads - i) \in Nat /\ (i - 1) * FIFOSAM \in Nat
    BY <1>1, <1>2
  <2> QED
    BY <1>1, <2>1, <2>2
<1>6. m \div (FIFOSAM * NQuads) = c
  <2> DEFINE d == FIFOSAM * NQuads
             r == (i - 1) * FIFOSAM + j
  <2>1. d \in Nat \ {0} /\ r \in 0 .. d /\ r < d
    BY <1>5
  <2> HIDE DEF d, r
  <2>2. (c * d + r) \div d = c
    BY <2>1, Quotient
  <2>3. m = c * d + r
    BY <1>4 DEF d, r
  <2> QED
    BY <2>2, <2>3, Zenon DEF d
<1>7. PICK t \in Nat : TBLOCK_LEN = t * FIFOSAM
  BY BlockIsUnits, UnitsTurns DEF Turns
<1>8. TBLOCK_LEN * NQuads = t * (FIFOSAM * NQuads) /\ TBLOCK_LEN * NQuads \in Nat
  BY <1>1, <1>7
<1> HIDE DEF m
<1>9. CASE c < t
  <2>1. t * FIFOSAM = c * FIFOSAM + (t - c) * FIFOSAM /\ (t - c) * FIFOSAM >= FIFOSAM
    BY <1>1, <1>9
  <2>2. c * FIFOSAM \in Nat /\ (t - c) * FIFOSAM \in Nat
    BY <1>1, <1>9
  <2>3. c * FIFOSAM + j < TBLOCK_LEN
    BY <1>1, <1>7, <2>1, <2>2
  <2> DEFINE d == FIFOSAM * NQuads
             r == (i - 1) * FIFOSAM + j
  <2>4. d \in Nat \ {0} /\ r \in Nat /\ r < d /\ m = c * d + r /\ TBLOCK_LEN * NQuads = t * d
    BY <1>4, <1>5, <1>8
  <2> HIDE DEF d, r
  <2>5. t * d = c * d + (t - c) * d /\ (t - c) * d >= d /\ c * d \in Nat
    BY <1>9, <2>4
  <2>6. m < TBLOCK_LEN * NQuads
    BY <2>4, <2>5
  <2> QED
    BY <1>3, <1>6, <1>8, <2>3, <2>6 DEF m
<1>10. CASE ~ (c < t)
  <2>1. c * FIFOSAM = t * FIFOSAM + (c - t) * FIFOSAM /\ (c - t) * FIFOSAM \in Nat
    BY <1>1, <1>10
  <2>2. ~ (c * FIFOSAM + j < TBLOCK_LEN)
    BY <1>1, <1>7, <2>1
  <2> DEFINE d == FIFOSAM * NQuads
             r == (i - 1) * FIFOSAM + j
  <2>3. d \in Nat \ {0} /\ r \in Nat /\ m = c * d + r /\ TBLOCK_LEN * NQuads = t * d
    BY <1>4, <1>5, <1>8
  <2> HIDE DEF d, r
  <2>4. c * d = t * d + (c - t) * d /\ (c - t) * d \in Nat
    BY <1>10, <2>3
  <2>5. ~ (m < TBLOCK_LEN * NQuads)
    BY <1>8, <2>3, <2>4
  <2> QED
    BY <1>3, <1>6, <1>8, <2>2, <2>5 DEF m
<1> QED
  BY <1>9, <1>10

\* Memory holds rows.
LEMMA RowTypes ==
    ASSUME NEW l \in AnyLine, NEW b \in 0 .. 2, NEW m \in Nat
    PROVE  BlockRow(l, b, m) \in Rows
<1> DEFINE q == scanlist[((m \div FIFOSAM) % NQuads) + 1]
           slot == b * TBLOCK_LEN + (m \div (FIFOSAM * NQuads)) * FIFOSAM + (m % FIFOSAM)
<1>1. NQuads \in Nat \ {0} /\ FIFOSAM \in Nat \ {0} /\ FIFOSAM * NQuads \in Nat \ {0}
  BY Counts
<1>2. q \in Quads
  <2>1. m \div FIFOSAM \in Nat
    BY <1>1
  <2>2. ((m \div FIFOSAM) % NQuads) + 1 \in 1 .. NQuads
    BY <1>1, <2>1
  <2> QED
    BY <2>2, Counts
<1>3. slot \in Nat
  <2>1. m \div (FIFOSAM * NQuads) \in Nat /\ m % FIFOSAM \in Nat
    BY <1>1
  <2>2. b * TBLOCK_LEN \in Nat
    BY WorkerAssumption
  <2>3. (m \div (FIFOSAM * NQuads)) * FIFOSAM \in Nat
    BY <1>1, <2>1
  <2> QED
    BY <2>1, <2>2, <2>3
<1>4. BlockRow(l, b, m) = IF m \notin 0 .. TBLOCK_LEN * NQuads - 1 THEN Stray
                          ELSE IF slot \in SignatureSlots(l) THEN Signature(q, Number(l, slot))
                          ELSE Sample(q, Number(l, slot))
  BY Zenon DEF BlockRow
<1> HIDE DEF q, slot
<1>5. Number(l, slot) \in Nat
  BY <1>3, NumberTypes
<1>6. /\ Stray \in Rows
      /\ Signature(q, Number(l, slot)) \in Rows
      /\ Sample(q, Number(l, slot)) \in Rows
  BY <1>2, <1>5 DEF Stray, Signature, Sample, Rows
<1> QED
  BY <1>4, <1>6, Zenon

\* Row x of a quad in block b is a signature.
Flagged(l, b, x) == x < TBLOCK_LEN /\ b * TBLOCK_LEN + x \in SignatureSlots(l)

\* Whether a row is a signature depends on its slot, not on its quad.
LEMMA RowFlag ==
    ASSUME NEW l \in AnyLine, NEW b \in 0 .. 2,
           NEW c \in Nat, NEW i \in 1 .. NQuads, NEW j \in 0 .. FIFOSAM, j < FIFOSAM
    PROVE  BlockRow(l, b, At(c, i, j)).es = Flagged(l, b, c * FIFOSAM + j)
<1> DEFINE m == At(c, i, j)
           x == c * FIFOSAM + j
           y == (m \div (FIFOSAM * NQuads)) * FIFOSAM
           z == m % FIFOSAM
           q == scanlist[((m \div FIFOSAM) % NQuads) + 1]
           slot == b * TBLOCK_LEN + y + z
<1>1. m \in Nat /\ y + z = x /\ (m \in 0 .. TBLOCK_LEN * NQuads - 1 <=> x < TBLOCK_LEN)
  BY TurnSlot
<1>2. slot = b * TBLOCK_LEN + x
  <2>1. NQuads \in Nat \ {0} /\ FIFOSAM \in Nat \ {0} /\ FIFOSAM * NQuads \in Nat \ {0}
    BY Counts
  <2>2. m \div (FIFOSAM * NQuads) \in Nat /\ z \in Nat
    BY <1>1, <2>1
  <2>3. y \in Nat
    BY <2>1, <2>2
  <2>4. b * TBLOCK_LEN \in Nat
    BY WorkerAssumption
  <2> HIDE DEF m, x, y, z
  <2> QED
    BY <1>1, <2>2, <2>3, <2>4
<1>3. BlockRow(l, b, m) = IF m \notin 0 .. TBLOCK_LEN * NQuads - 1 THEN Stray
                          ELSE IF slot \in SignatureSlots(l) THEN Signature(q, Number(l, slot))
                          ELSE Sample(q, Number(l, slot))
  BY Zenon DEF BlockRow
<1> HIDE DEF q, slot, m, x
<1>4. /\ Stray.es = FALSE /\ Signature(q, Number(l, slot)).es = TRUE
      /\ Sample(q, Number(l, slot)).es = FALSE
  BY DEF Stray, Signature, Sample
<1>5. BlockRow(l, b, m).es = Flagged(l, b, x)
  BY <1>1, <1>2, <1>3, <1>4, Zenon DEF Flagged
<1> QED
  BY <1>5, Zenon DEF m, x

\* What a block of a line makes of the data model.
LEMMA BlockProcessed ==
    ASSUME set \in Settings, NEW l \in AnyLine, NEW b \in 0 .. 2,
           NEW d \in Models(Rows), Alike(d)
    PROVE  LET cut == BlockCut(l, b)
               memory == [m \in Nat |-> BlockRow(l, b, m)]
               then == process(memory, cut.from * NQuads, cut.len * NQuads,
                               d, Unlimited, cut.stash_es)
           IN  then \in Models(Rows) /\ Alike(then)
<1> DEFINE from == BlockCut(l, b).from
           len == BlockCut(l, b).len
           stash_es == BlockCut(l, b).stash_es
           rows == [m \in Nat |-> BlockRow(l, b, m)]
           e == [x \in Nat |-> Flagged(l, b, x)]
<1>1. CutInTurns(BlockCut(l, b))
  BY BlockCutInTurns
<1>2. PICK k \in Nat : from = k * FIFOSAM
  BY <1>1 DEF CutInTurns, Turns
<1>3. PICK n \in Nat : len = n * FIFOSAM
  BY <1>1 DEF CutInTurns, Turns
<1>4. stash_es \in BOOLEAN /\ (len = 0 => ~ stash_es)
  BY <1>1, Zenon DEF CutInTurns
<1> HIDE DEF from, len, stash_es
<1>5. NQuads \in Nat \ {0} /\ FIFOSAM \in Nat \ {0}
  BY Counts
<1>6. from * NQuads = (k * NQuads) * FIFOSAM /\ len * NQuads = (n * NQuads) * FIFOSAM
  BY <1>2, <1>3, <1>5
<1>7. n = 0 => ~ stash_es
  <2>1. n = 0 => len = 0
    BY <1>3, <1>5
  <2> QED
    BY <1>4, <2>1
<1>8. \A m \in Nat : rows[m] \in Rows
  BY RowTypes
<1>9. \A r \in Rows : r.es \in BOOLEAN
  BY DEF Rows
<1>10. e \in [Nat -> BOOLEAN]
  <2>1. \A x \in Nat : Flagged(l, b, x) \in BOOLEAN
    BY Zenon DEF Flagged
  <2> QED
    BY <2>1
<1>11. ASSUME NEW c \in Nat, NEW i \in 1 .. NQuads, NEW j \in 0 .. FIFOSAM, j < FIFOSAM
       PROVE  rows[At(c, i, j)].es = e[c * FIFOSAM + j]
  <2>1. At(c, i, j) \in Nat /\ c * FIFOSAM + j \in Nat
    BY AtTypes
  <2>2. /\ rows[At(c, i, j)] = BlockRow(l, b, At(c, i, j))
        /\ e[c * FIFOSAM + j] = Flagged(l, b, c * FIFOSAM + j)
    BY <2>1, Zenon
  <2>3. BlockRow(l, b, At(c, i, j)).es = Flagged(l, b, c * FIFOSAM + j)
    BY <1>11, RowFlag
  <2> HIDE DEF rows, e
  <2> QED
    BY <2>2, <2>3, Zenon
<1> HIDE DEF rows, e
<1> DEFINE then == process(rows, (k * NQuads) * FIFOSAM, (n * NQuads) * FIFOSAM,
                           d, Unlimited, stash_es)
<1>12. then \in Models(Rows) /\ Alike(then)
  BY <1>4, <1>7, <1>8, <1>9, <1>10, <1>11, ProcessAlike
<1> QED
  BY <1>6, <1>12, Zenon DEF from, len, stash_es, rows

-----------------------------------------------------------------------------
\* The data model of a new worker has no samples and no events.
LEMMA ClearedTypes == Cleared \in Models(Rows) /\ Alike(Cleared)
<1>1. <<>> \in Seq(Rows) /\ <<>> \in Seq(Nat)
  BY EmptySeq
<1>2. [data |-> <<>>, es |-> <<>>, sig |-> <<>>] \in DQuads(Rows)
  BY <1>1 DEF DQuads
<1>3. Cleared \in Models(Rows)
  BY <1>2 DEF Cleared, Models
<1>4. ASSUME NEW p \in Quads PROVE Cleared[p] = [data |-> <<>>, es |-> <<>>, sig |-> <<>>]
  BY Zenon DEF Cleared
<1> QED
  BY <1>3, <1>4, Zenon DEF Alike

\* The events of a data model are cursors, and every quad has them.
LEMMA EventTypes ==
    ASSUME NEW d \in Models(Rows)
    PROVE  /\ getEvents(d) \in Seq(Nat) /\ Len(getEvents(d)) \in Nat
           /\ \A k \in 1 .. Len(getEvents(d)) : getEvents(d)[k] \in Nat
           /\ \A q \in Quads : d[q] \in DQuads(Rows)
           /\ Alike(d) => \A k \in 1 .. Len(getEvents(d)), q \in Quads : Has(d[q], getEvents(d)[k])
<1>1. scanlist[1] \in Quads
  BY Counts
<1>2. \A q \in Quads : d[q] \in DQuads(Rows)
  BY DEF Models
<1>3. getEvents(d) = d[scanlist[1]].es
  BY Zenon DEF getEvents
<1>4. getEvents(d) \in Seq(Nat)
  <2>1. d[scanlist[1]] \in DQuads(Rows)
    BY <1>1, <1>2
  <2> QED
    BY <1>3, <2>1 DEF DQuads
<1>5. Len(getEvents(d)) \in Nat /\ \A k \in 1 .. Len(getEvents(d)) : getEvents(d)[k] \in Nat
  BY <1>4, LenProperties, ElementOfSeq
<1>6. ASSUME Alike(d), NEW k \in 1 .. Len(getEvents(d)), NEW q \in Quads
      PROVE  Has(d[q], getEvents(d)[k])
  <2>1. Shape(d[q]) = Shape(d[scanlist[1]])
    BY <1>1, <1>6, Zenon DEF Alike
  <2>2. d[q].es = d[scanlist[1]].es
    BY <2>1 DEF Shape
  <2>3. d[q].es = getEvents(d)
    BY <1>3, <2>2, Zenon
  <2> QED
    BY <2>3, Zenon DEF Has, Contains
<1> QED
  BY <1>2, <1>4, <1>5, <1>6, Zenon

\* A window is rows, and not longer than pre and post allow.
LEMMA WindowTypes ==
    ASSUME NEW dq \in DQuads(Rows), NEW sc \in Nat, NEW pre \in Nat, NEW post \in Nat
    PROVE  /\ First(sc, pre) \in Nat /\ First(sc, pre) <= sc
           /\ Window(dq, sc, pre, post) \in Seq(Rows)
           /\ Len(Window(dq, sc, pre, post)) \in Nat
           /\ Len(Window(dq, sc, pre, post)) <= sc + post - First(sc, pre)
<1> DEFINE s == dq.data
           m == First(sc, pre) + 1
           n == IF sc + post <= Len(s) THEN sc + post ELSE Len(s)
<1>1. First(sc, pre) \in Nat /\ First(sc, pre) <= sc
  BY DEF First
<1>2. s \in Seq(Rows)
  BY DEF DQuads
<1> HIDE DEF s
<1>3. Len(s) \in Nat /\ \A i \in 1 .. Len(s) : s[i] \in Rows
  BY <1>2, LenProperties, ElementOfSeq
<1>4. m \in Int /\ n \in Int /\ n <= sc + post /\ \A i \in m .. n : s[i] \in Rows
  BY <1>1, <1>3
<1>5. Window(dq, sc, pre, post) = SubSeq(s, m, n)
  BY Zenon DEF Window, s
<1> HIDE DEF m, n
<1>6. SubSeq(s, m, n) \in Seq(Rows) /\ Len(SubSeq(s, m, n)) = IF m <= n THEN n - m + 1 ELSE 0
  BY <1>4, SubSeqProperties
<1>7. m = First(sc, pre) + 1
  BY DEF m
<1>8. Len(SubSeq(s, m, n)) \in Nat /\ Len(SubSeq(s, m, n)) <= sc + post - First(sc, pre)
  BY <1>1, <1>4, <1>6, <1>7
<1> QED
  BY <1>1, <1>5, <1>6, <1>8, Zenon

-----------------------------------------------------------------------------
InDir == pc \in {"dump", "format", "announce", "remove", "rename"}

\* The line and what was made of it.
WorkInv ==
    /\ Alike(dm)
    /\ pc # "idle" => line \in AnyLine
    /\ pc \in {"idle", "load"} => cur = 0
    /\ pc = "load" => todo # {}
    /\ InDir => cur # 0
    /\ pc # "dump" => quad = 1
    /\ pc = "dump" => (dump_timebase <=> quad = 1)
    /\ pc \in {"remove", "rename"} => set.use_cooking

\* The directory of the event that is being stored.
DirInv == InDir => WorkDir \in DOMAIN disk /\ disk[WorkDir].goal = Goal

\* The first quads are in the directory, and the timebase; the others not.
Filled(d) ==
    /\ \A i \in 1 .. quad - 1 : d.ch[scanlist[i]] = d.goal[scanlist[i]]
    /\ set.cleanup => \A i \in quad .. NQuads : d.ch[scanlist[i]] = <<>>
    /\ set.cleanup /\ quad = 1 => d.tb = <<>>
    /\ quad # 1 => Len(d.tb) >= Len(d.goal[scanlist[1]])

Complete(d) == d.ch = d.goal /\ Len(d.tb) >= Len(d.goal[scanlist[1]])

StoredInv ==
    CleanDirs =>
        /\ pc = "dump" => Filled(disk[WorkDir])
        /\ pc = "format" => Complete(disk[WorkDir])
        /\ pc \in {"announce", "remove", "rename"} => Whole(disk[WorkDir])

\* An announced event is in the directory with its final name, or in the
\* one that is about to get it.
KeptInv ==
    CleanDirs =>
        /\ \A d \in DOMAIN disk : d[2] = "COOKED" => Whole(disk[d])
        /\ \A n \in announced :
            Cooked(n) \in DOMAIN disk \/ (pc \in {"remove", "rename"} /\ n = this)

IInv == TypeInv /\ WorkInv /\ DirInv /\ StoredInv /\ KeptInv

-----------------------------------------------------------------------------
Names == Nat \X {"COOKING", "COOKED"}

\* The names of the directories differ.
LEMMA NameTypes ==
    ASSUME NEW n \in Nat
    PROVE  /\ Cooking(n) \in Names /\ Cooked(n) \in Names
           /\ Cooking(n)[2] = "COOKING" /\ Cooked(n)[2] = "COOKED"
           /\ \A m \in Nat : Cooking(n) # Cooked(m)
           /\ \A m \in Nat : Cooked(n) = Cooked(m) => n = m
BY DEF Cooking, Cooked, Names

\* The directory at work is not yet published, in a run with clean directories.
LEMMA WorkDirName ==
    ASSUME TypeInv
    PROVE  /\ this \in Nat /\ WorkDir \in Names
           /\ CleanDirs => set.use_cooking /\ WorkDir = Cooking(this) /\ WorkDir[2] = "COOKING"
           /\ set.use_cooking => WorkDir = Cooking(this)
<1>1. this \in Nat
  <2>1. Len(getEvents(dm)) \in Nat
    <3>1. dm \in Models(Rows)
      BY DEF TypeInv, Models, DQuads
    <3> QED
      BY <3>1, EventTypes
  <2>2. cur \in 0 .. Len(getEvents(dm)) /\ evnum \in Nat
    BY DEF TypeInv
  <2> QED
    BY <2>1, <2>2 DEF this
<1>2. Cooking(this) \in Names /\ Cooked(this) \in Names /\ Cooking(this)[2] = "COOKING"
  BY <1>1, NameTypes
<1> QED
  BY <1>1, <1>2, Zenon DEF WorkDir, CleanDirs

\* A step that goes on with the event goes on with its directory and goal.
LEMMA SameEvent ==
    ASSUME set' = set, dm' = dm, cur' = cur, evnum' = evnum
    PROVE  /\ this' = this /\ WorkDir' = WorkDir /\ Goal' = Goal
           /\ CleanDirs' = CleanDirs
<1>1. this' = this
  BY DEF this
<1>2. WorkDir' = WorkDir
  BY <1>1, Zenon DEF WorkDir, Cooking, Cooked
<1>3. Goal' = Goal
  BY Zenon DEF Goal, event_offset
<1> QED
  BY <1>1, <1>2, <1>3, Zenon DEF CleanDirs

\* The disk with a directory more or written anew, and with one less.
LEMMA WithTypes ==
    ASSUME DOMAIN disk \subseteq Names, disk \in [DOMAIN disk -> Files],
           NEW name \in Names, NEW dir \in Files
    PROVE  /\ DOMAIN With(name, dir) = DOMAIN disk \cup {name}
           /\ DOMAIN With(name, dir) \subseteq Names
           /\ With(name, dir) \in [DOMAIN With(name, dir) -> Files]
           /\ With(name, dir)[name] = dir
           /\ \A d \in DOMAIN disk \ {name} : With(name, dir)[d] = disk[d]
<1>1. ASSUME NEW d \in DOMAIN disk PROVE disk[d] \in Files
  OBVIOUS
<1>2. DOMAIN With(name, dir) = DOMAIN disk \cup {name}
  BY DEF With
<1>3. With(name, dir) \in [DOMAIN disk \cup {name} -> Files]
  BY <1>1 DEF With
<1>4. With(name, dir)[name] = dir
  BY Zenon DEF With
<1>5. \A d \in DOMAIN disk \ {name} : With(name, dir)[d] = disk[d]
  BY Zenon DEF With
<1> QED
  BY <1>2, <1>3, <1>4, <1>5

\* A disk with a directory less.
LEMMA WithoutTypes ==
    ASSUME DOMAIN disk \subseteq Names, disk \in [DOMAIN disk -> Files], NEW name
    PROVE  /\ DOMAIN Without(name) = DOMAIN disk \ {name}
           /\ DOMAIN Without(name) \subseteq Names
           /\ Without(name) \in [DOMAIN Without(name) -> Files]
           /\ \A d \in DOMAIN disk \ {name} : Without(name)[d] = disk[d]
<1>1. ASSUME NEW d \in DOMAIN disk PROVE disk[d] \in Files
  OBVIOUS
<1>2. DOMAIN Without(name) = DOMAIN disk \ {name}
  BY DEF Without
<1>3. Without(name) \in [DOMAIN disk \ {name} -> Files]
  BY <1>1 DEF Without
<1>4. \A d \in DOMAIN disk \ {name} : Without(name)[d] = disk[d]
  BY Zenon DEF Without
<1> QED
  BY <1>2, <1>3, <1>4

\* IInv holds at first.
LEMMA InitIInv ==
    ASSUME Init
    PROVE  IInv
<1>1. dm \in Models(Rows) /\ Alike(dm)
  BY ClearedTypes, Zenon DEF Init
<1>2. 0 \in 0 .. Len(getEvents(dm)) /\ NQuads \in Nat \ {0}
  BY <1>1, EventTypes, Counts
<1>3. DOMAIN disk = {} /\ disk \in [DOMAIN disk -> Files]
  BY DEF Init
<1>4. Len(FeedLines) \in Nat /\ MaxKills \in Nat /\ MaxRestarts \in Nat
  BY WorkerAssumption, LenProperties
<1>5. dm \in [Quads -> [data : Seq(Rows), es : Seq(Nat), sig : Seq(Rows)]]
  BY <1>1, Zenon DEF Models, DQuads
<1>6. TypeInv
  <2>1. /\ 0 \in Int /\ 0 \in Nat /\ {} \subseteq 0 .. 2 /\ 1 \in 1 .. NQuads /\ {} \subseteq Nat
        /\ 0 \in 0 .. Len(FeedLines) /\ 0 \in 0 .. MaxKills /\ 0 \in 0 .. MaxRestarts
        /\ DOMAIN disk \subseteq Nat \X {"COOKING", "COOKED"}
    BY <1>2, <1>3, <1>4
  <2> QED
    BY <1>2, <1>3, <1>5, <2>1, Zenon DEF Init, TypeInv
<1>7. WorkInv
  BY <1>1 DEF Init, WorkInv, InDir
<1>8. DirInv /\ StoredInv
  BY DEF Init, DirInv, InDir, StoredInv
<1>9. KeptInv
  BY <1>3 DEF Init, KeptInv
<1> QED
  BY <1>6, <1>7, <1>8, <1>9 DEF IInv

\* When the worker ends, what it has announced is in its place.
LEMMA ExitKeeps ==
    ASSUME IInv, NEW n \in Nat, Exit(n), set' = set, disk' = disk, lines' = lines,
           restarts' = restarts, kills' \in 0 .. MaxKills, announced' \subseteq announced,
           CleanDirs => \A k \in announced' : Cooked(k) \in DOMAIN disk
    PROVE  IInv'
<1>1. dm' \in Models(Rows) /\ Alike(dm')
  BY ClearedTypes, Zenon DEF Exit
<1>2. 0 \in 0 .. Len(getEvents(dm')) /\ NQuads \in Nat \ {0}
  BY <1>1, EventTypes, Counts
<1>3. dm' \in [Quads -> [data : Seq(Rows), es : Seq(Nat), sig : Seq(Rows)]]
  BY <1>1, Zenon DEF Models, DQuads
<1>4. /\ pc' = "idle" /\ evnum' = evnum + n /\ line' = NoLine /\ pss' = 0 /\ msecs_start' = 0
      /\ adjusted' = FALSE /\ todo' = {}
      /\ cur' = 0 /\ quad' = 1 /\ first_s1' = 0 /\ dump_timebase' = TRUE
  BY Zenon DEF Exit
<1>5. TypeInv'
  <2>1. TypeInv
    BY Zenon DEF IInv
  <2>2. /\ set' \in Settings
        /\ pc' \in {"idle", "load", "next", "dump", "format", "announce", "remove", "rename"}
        /\ line' \in AnyLine \cup {NoLine}
    BY <1>4, <2>1, Zenon DEF TypeInv
  <2>3. /\ pss' \in Int /\ adjusted' \in BOOLEAN /\ todo' \subseteq 0 .. 2
        /\ msecs_start' \in Nat
        /\ cur' \in 0 .. Len(getEvents(dm')) /\ quad' \in 1 .. NQuads
        /\ first_s1' \in Nat /\ dump_timebase' \in BOOLEAN /\ evnum' \in Nat
    <3>1. evnum \in Nat
      BY <2>1, Zenon DEF TypeInv
    <3>2. evnum + n \in Nat /\ 0 \in Int /\ 0 \in Nat /\ {} \subseteq 0 .. 2 /\ 1 \in 1 .. NQuads
      BY <1>2, <3>1
    <3> QED
      BY <1>2, <1>4, <3>2, Zenon
  <2>4. /\ DOMAIN disk' \subseteq Names
        /\ disk' \in [DOMAIN disk' -> Files]
        /\ announced' \subseteq Nat
    BY <2>1 DEF TypeInv, Names
  <2>5. lines' \in 0 .. Len(FeedLines) /\ kills' \in 0 .. MaxKills /\ restarts' \in 0 .. MaxRestarts
    BY <2>1, Zenon DEF TypeInv
  <2>6. (getEvents(dm))' = getEvents(dm')
    BY Zenon DEF getEvents
  <2> QED
    BY <1>3, <2>2, <2>3, <2>4, <2>5, <2>6, Zenon DEF TypeInv, Names
<1>6. WorkInv'
  BY <1>1, <1>4 DEF WorkInv, InDir
<1>7. DirInv' /\ StoredInv'
  BY <1>4 DEF DirInv, InDir, StoredInv
<1>8. KeptInv'
  <2>1. CleanDirs' = CleanDirs
    BY Zenon DEF CleanDirs
  <2>2. \A d \in DOMAIN disk' : (Whole(disk[d]))' = Whole(disk[d])
    BY Zenon DEF Whole
  <2>3. KeptInv
    BY Zenon DEF IInv
  <2> QED
    BY <2>1, <2>2, <2>3, Zenon DEF KeptInv, Cooked, Whole
<1> QED
  BY <1>5, <1>6, <1>7, <1>8, Zenon DEF IInv

-----------------------------------------------------------------------------
\* A new worker begins with an empty data model.
LEMMA ForkKeeps ==
    ASSUME IInv, NEW l \in AnyLine, Fork(l)
    PROVE  IInv'
<1>1. TypeInv /\ WorkInv /\ KeptInv
  BY Zenon DEF IInv
<1>2. /\ pc = "idle" /\ pc' = "load" /\ lines' = lines + 1 /\ lines < Len(FeedLines)
      /\ line' = l /\ todo' = l.given /\ pss' = Number(l, TBLOCK_LEN) /\ msecs_start' \in HeapValues
      /\ set' = set /\ dm' = dm /\ adjusted' = adjusted /\ disk' = disk /\ announced' = announced
      /\ cur' = cur /\ quad' = quad /\ first_s1' = first_s1 /\ dump_timebase' = dump_timebase
      /\ evnum' = evnum /\ kills' = kills /\ restarts' = restarts
  BY DEF Fork, options, files, dumping
<1>3. l.given \subseteq 0 .. 2 /\ l.given # {}
  BY LineTypes
<1>4. pss' \in Int /\ msecs_start' \in Nat
  <2>1. TBLOCK_LEN \in Nat /\ HeapValues \subseteq Nat
    BY WorkerAssumption
  <2>2. Number(l, TBLOCK_LEN) \in Nat
    BY <2>1, NumberTypes
  <2> QED
    BY <1>2, <2>1, <2>2
<1>5. lines' \in 0 .. Len(FeedLines)
  <2>1. lines \in 0 .. Len(FeedLines)
    BY <1>1, Zenon DEF TypeInv
  <2>2. Len(FeedLines) \in Nat
    BY WorkerAssumption, LenProperties
  <2> QED
    BY <1>2, <2>1, <2>2
<1>6. (getEvents(dm))' = getEvents(dm)
  BY <1>2, Zenon DEF getEvents
<1>7. TypeInv'
  <2>1. pc' \in {"idle", "load", "next", "dump", "format", "announce", "remove", "rename"}
    BY <1>2
  <2>2. line' \in AnyLine \cup {NoLine} /\ todo' \subseteq 0 .. 2
    BY <1>2, <1>3
  <2> QED
    BY <1>1, <1>2, <1>4, <1>5, <1>6, <2>1, <2>2, Zenon DEF TypeInv
<1>8. WorkInv'
  BY <1>1, <1>2, <1>3 DEF WorkInv, InDir
<1>9. DirInv' /\ StoredInv'
  BY <1>2 DEF DirInv, InDir, StoredInv
<1>10. KeptInv'
  <2>1. CleanDirs' = CleanDirs
    BY <1>2, Zenon DEF CleanDirs
  <2>2. pc \notin {"remove", "rename"}
    BY <1>2
  <2> QED
    BY <1>1, <1>2, <2>1, <2>2, Zenon DEF KeptInv, Cooked, Whole
<1> QED
  BY <1>7, <1>8, <1>9, <1>10, Zenon DEF IInv

\* A block leaves the quads alike.
LEMMA LoadKeeps ==
    ASSUME IInv, Load
    PROVE  IInv'
<1>1. TypeInv /\ WorkInv /\ KeptInv
  BY Zenon DEF IInv
<1>2. /\ pc = "load" /\ pc' \in {"next", "load"}
      /\ processAction(Min(todo)) /\ todo' = todo \ {Min(todo)}
      /\ pc' = (IF todo' = {} THEN "next" ELSE "load")
      /\ line' = line /\ msecs_start' = msecs_start
      /\ set' = set /\ disk' = disk /\ announced' = announced
      /\ cur' = cur /\ quad' = quad /\ first_s1' = first_s1 /\ dump_timebase' = dump_timebase
      /\ evnum' = evnum /\ lines' = lines /\ kills' = kills /\ restarts' = restarts
  BY DEF Load, options, files, dumping, counts
<1>3. line \in AnyLine /\ todo # {} /\ todo \subseteq 0 .. 2 /\ set \in Settings /\ cur = 0
  BY <1>1, <1>2, Zenon DEF WorkInv, TypeInv
<1>4. Min(todo) \in 0 .. 2
  <2>1. todo \subseteq Nat
    BY <1>3
  <2>2. Min(todo) \in todo
    BY <1>3, <2>1, LeastOf
  <2> QED
    BY <1>3, <2>2
<1>5. dm \in Models(Rows) /\ Alike(dm)
  BY <1>1, Zenon DEF TypeInv, WorkInv, Models, DQuads
<1> DEFINE cut == BlockCut(line, Min(todo))
           memory == [m \in Nat |-> BlockRow(line, Min(todo), m)]
           then == process(memory, cut.from * NQuads, cut.len * NQuads, dm, Unlimited, cut.stash_es)
<1>6. dm' = then /\ (IF cut.adjusts THEN adjust(cut.by) ELSE UNCHANGED <<pss, adjusted>>)
  BY <1>2, Zenon DEF processAction
<1>7. then \in Models(Rows) /\ Alike(then)
  BY <1>3, <1>4, <1>5, BlockProcessed
<1>8. pss' \in Int /\ adjusted' \in BOOLEAN
  <2>1. cut.by \in Int
    BY <1>3, <1>4, BlockCutInTurns, Zenon DEF CutInTurns
  <2>2. pss \in Int /\ adjusted \in BOOLEAN
    BY <1>1, Zenon DEF TypeInv
  <2> HIDE DEF cut, then
  <2>3. pss + cut.by \in Int
    BY <2>1, <2>2
  <2> QED
    BY <1>6, <2>2, <2>3, Zenon DEF adjust
<1> HIDE DEF then
<1>9. dm' \in Models(Rows) /\ Alike(dm') /\ (getEvents(dm))' = getEvents(dm')
  BY <1>6, <1>7, Zenon DEF getEvents
<1>10. TypeInv'
  <2>1. 0 \in 0 .. Len(getEvents(dm'))
    BY <1>9, EventTypes
  <2>2. pc' \in {"idle", "load", "next", "dump", "format", "announce", "remove", "rename"}
    BY <1>2
  <2>3. todo' \subseteq 0 .. 2
    BY <1>2, <1>3
  <2>4. dm' \in [Quads -> [data : Seq(Rows), es : Seq(Nat), sig : Seq(Rows)]]
    BY <1>9, Zenon DEF Models, DQuads
  <2>5. cur' = 0
    BY <1>2, <1>3
  <2> QED
    BY <1>1, <1>2, <1>8, <1>9, <2>1, <2>2, <2>3, <2>4, <2>5, Zenon DEF TypeInv
<1>11. WorkInv'
  BY <1>1, <1>2, <1>3, <1>9 DEF WorkInv, InDir
<1>12. DirInv' /\ StoredInv'
  BY <1>2 DEF DirInv, InDir, StoredInv
<1>13. KeptInv'
  <2>1. CleanDirs' = CleanDirs
    BY <1>2, Zenon DEF CleanDirs
  <2>2. pc \notin {"remove", "rename"}
    BY <1>2
  <2> QED
    BY <1>1, <1>2, <2>1, <2>2, Zenon DEF KeptInv, Cooked, Whole
<1> QED
  BY <1>10, <1>11, <1>12, <1>13, Zenon DEF IInv

\* A worker that cannot load ends between events.
LEMMA LoadFailsKeeps ==
    ASSUME IInv, LoadFails
    PROVE  IInv'
<1>1. TypeInv /\ KeptInv
  BY Zenon DEF IInv
<1>2. /\ pc = "load" /\ Exit(255) /\ set' = set /\ disk' = disk /\ announced' = announced
      /\ lines' = lines /\ kills' = kills /\ restarts' = restarts
  BY DEF LoadFails, options, files, counts
<1>3. pc \notin {"remove", "rename"} /\ 255 \in Nat
  BY <1>2
<1>4. kills' \in 0 .. MaxKills
  BY <1>1, <1>2, Zenon DEF TypeInv
<1>5. CleanDirs => \A k \in announced' : Cooked(k) \in DOMAIN disk
  BY <1>1, <1>2, <1>3, Zenon DEF KeptInv
<1>6. announced' \subseteq announced
  BY <1>2
<1> QED
  BY <1>2, <1>3, <1>4, <1>5, <1>6, ExitKeeps

\* So does one that has stored all.
LEMMA FinishKeeps ==
    ASSUME IInv, Finish
    PROVE  IInv'
<1>1. TypeInv /\ KeptInv
  BY Zenon DEF IInv
<1>2. /\ pc = "next" /\ Exit(cur) /\ set' = set /\ disk' = disk /\ announced' = announced
      /\ lines' = lines /\ kills' = kills /\ restarts' = restarts
  BY DEF Finish, options, files, counts
<1>3. pc \notin {"remove", "rename"}
  BY <1>2
<1>4. kills' \in 0 .. MaxKills /\ cur \in 0 .. Len(getEvents(dm))
  BY <1>1, <1>2, Zenon DEF TypeInv
<1>5. CleanDirs => \A k \in announced' : Cooked(k) \in DOMAIN disk
  BY <1>1, <1>2, <1>3, Zenon DEF KeptInv
<1>6. announced' \subseteq announced /\ cur \in Nat
  BY <1>2, <1>4
<1> QED
  BY <1>2, <1>4, <1>5, <1>6, ExitKeeps

\* One that is killed leaves the directory that it was filling under its working name.
LEMMA KilledKeeps ==
    ASSUME IInv, Killed
    PROVE  IInv'
<1>1. TypeInv /\ KeptInv
  BY Zenon DEF IInv
<1>2. /\ kills < MaxKills /\ kills' = kills + 1 /\ Exit(0) /\ set' = set /\ disk' = disk
      /\ announced' = (IF pc \in {"remove", "rename"} THEN announced \ {this} ELSE announced)
      /\ lines' = lines /\ restarts' = restarts
  BY DEF Killed, options
<1>3. kills' \in 0 .. MaxKills
  <2>1. kills \in 0 .. MaxKills
    BY <1>1, Zenon DEF TypeInv
  <2>2. MaxKills \in Nat
    BY WorkerAssumption
  <2> QED
    BY <1>2, <2>1, <2>2
<1>4. announced' \subseteq announced /\ 0 \in Nat
  BY <1>2
<1>5. CleanDirs => \A k \in announced' : Cooked(k) \in DOMAIN disk
  <2>1. CASE pc \in {"remove", "rename"}
    <3>1. announced' = announced \ {this}
      BY <1>2, <2>1
    <3>2. \A k \in announced' : k \in announced /\ k # this
      BY <3>1
    <3> QED
      BY <1>1, <3>2, Zenon DEF KeptInv
  <2>2. CASE pc \notin {"remove", "rename"}
    <3>1. announced' = announced
      BY <1>2, <2>2
    <3> QED
      BY <1>1, <2>2, <3>1, Zenon DEF KeptInv
  <2> QED
    BY <2>1, <2>2
<1> QED
  BY <1>2, <1>3, <1>4, <1>5, ExitKeeps

\* The next run finds the directories as they are.
LEMMA RestartKeeps ==
    ASSUME IInv, Restart
    PROVE  IInv'
<1>1. TypeInv /\ WorkInv /\ KeptInv
  BY Zenon DEF IInv
<1>2. /\ pc = "idle" /\ pc' = pc /\ restarts < MaxRestarts /\ restarts' = restarts + 1 /\ evnum' = 0
      /\ set' = set /\ line' = line /\ dm' = dm /\ pss' = pss
      /\ adjusted' = adjusted /\ todo' = todo
      /\ msecs_start' = msecs_start /\ disk' = disk /\ announced' = announced
      /\ cur' = cur /\ quad' = quad /\ first_s1' = first_s1 /\ dump_timebase' = dump_timebase
      /\ lines' = lines /\ kills' = kills
  BY DEF Restart, options, loaded, files, dumping
<1>3. restarts' \in 0 .. MaxRestarts /\ evnum' \in Nat
  <2>1. restarts \in 0 .. MaxRestarts
    BY <1>1, Zenon DEF TypeInv
  <2>2. MaxRestarts \in Nat
    BY WorkerAssumption
  <2> QED
    BY <1>2, <2>1, <2>2
<1>4. (getEvents(dm))' = getEvents(dm)
  BY <1>2, Zenon DEF getEvents
<1>5. TypeInv'
  BY <1>1, <1>2, <1>3, <1>4, Zenon DEF TypeInv
<1>6. WorkInv'
  BY <1>1, <1>2 DEF WorkInv, InDir
<1>7. DirInv' /\ StoredInv'
  BY <1>2 DEF DirInv, InDir, StoredInv
<1>8. KeptInv'
  <2>1. CleanDirs' = CleanDirs
    BY <1>2, Zenon DEF CleanDirs
  <2>2. pc \notin {"remove", "rename"}
    BY <1>2
  <2> QED
    BY <1>1, <1>2, <2>1, <2>2, Zenon DEF KeptInv, Cooked, Whole
<1> QED
  BY <1>5, <1>6, <1>7, <1>8, Zenon DEF IInv

\* Another content of the directory that is being filled.
LEMMA DirChanged ==
    ASSUME TypeInv, WorkDir \in DOMAIN disk, NEW new \in Files,
           disk' = [disk EXCEPT ![WorkDir] = new]
    PROVE  /\ DOMAIN disk' = DOMAIN disk /\ DOMAIN disk' \subseteq Names
           /\ disk' \in [DOMAIN disk' -> Files]
           /\ disk'[WorkDir] = new
           /\ \A d \in DOMAIN disk : d # WorkDir => disk'[d] = disk[d]
<1>1. DOMAIN disk \subseteq Names /\ disk \in [DOMAIN disk -> Files]
  BY Zenon DEF TypeInv, Names
<1>2. DOMAIN disk' = DOMAIN disk
  BY <1>1, Zenon
<1>3. disk'[WorkDir] = new
  BY <1>1, Zenon
<1>4. \A d \in DOMAIN disk : d # WorkDir => disk'[d] = disk[d]
  BY <1>1, Zenon
<1>5. disk' \in [DOMAIN disk -> Files]
  <2> DEFINE D == DOMAIN disk
             W == WorkDir
  <2>1. disk \in [D -> Files] /\ W \in D /\ disk' = [disk EXCEPT ![W] = new]
    BY <1>1
  <2> HIDE DEF D, W
  <2>2. disk' \in [D -> Files]
    BY <2>1
  <2> QED
    BY <2>2, Zenon DEF D
<1> QED
  BY <1>1, <1>2, <1>3, <1>4, <1>5, Zenon

\* The directories with their final names are not changed by it.
LEMMA OthersKept ==
    ASSUME TypeInv, KeptInv, CleanDirs' = CleanDirs, DOMAIN disk' = DOMAIN disk,
           \A d \in DOMAIN disk : d # WorkDir => disk'[d] = disk[d]
    PROVE  CleanDirs' => \A d \in DOMAIN disk' : d[2] = "COOKED" => Whole(disk'[d])
<1> SUFFICES ASSUME CleanDirs, NEW d \in DOMAIN disk, d[2] = "COOKED" PROVE Whole(disk'[d])
  BY Zenon
<1>1. WorkDir[2] = "COOKING"
  BY WorkDirName, Zenon
<1>2. d # WorkDir
  BY <1>1
<1>3. disk'[d] = disk[d]
  BY <1>2, Zenon
<1> QED
  BY <1>3, Zenon DEF KeptInv

\* The format file completes the directory.
LEMMA DumpFormatKeeps ==
    ASSUME IInv, DumpFormat
    PROVE  IInv'
<1>1. TypeInv /\ WorkInv /\ DirInv /\ StoredInv /\ KeptInv
  BY Zenon DEF IInv
<1>2. /\ pc = "format" /\ pc' = "announce"
      /\ disk' = [disk EXCEPT ![WorkDir].format = TRUE]
      /\ set' = set /\ line' = line /\ dm' = dm /\ pss' = pss
      /\ adjusted' = adjusted /\ todo' = todo
      /\ msecs_start' = msecs_start /\ announced' = announced
      /\ cur' = cur /\ quad' = quad /\ first_s1' = first_s1 /\ dump_timebase' = dump_timebase
      /\ evnum' = evnum /\ lines' = lines /\ kills' = kills /\ restarts' = restarts
  BY DEF DumpFormat, options, loaded, dumping, counts
<1> DEFINE new == [disk[WorkDir] EXCEPT !.format = TRUE]
<1>3. WorkDir \in DOMAIN disk /\ disk[WorkDir].goal = Goal
  BY <1>1, <1>2 DEF DirInv, InDir
<1>4. disk[WorkDir] \in Files
  BY <1>1, <1>3, Zenon DEF TypeInv
<1>5. disk' = [disk EXCEPT ![WorkDir] = new]
  BY <1>2, Zenon
<1>6. new \in Files /\ new.ch = disk[WorkDir].ch /\ new.tb = disk[WorkDir].tb
      /\ new.goal = disk[WorkDir].goal /\ new.format = TRUE
  BY <1>4 DEF Files
<1> HIDE DEF new
<1>7. /\ DOMAIN disk' = DOMAIN disk /\ DOMAIN disk' \subseteq Names
      /\ disk' \in [DOMAIN disk' -> Files]
      /\ disk'[WorkDir] = new
      /\ \A d \in DOMAIN disk : d # WorkDir => disk'[d] = disk[d]
  BY <1>1, <1>3, <1>5, <1>6, DirChanged
<1>8. this' = this /\ WorkDir' = WorkDir /\ Goal' = Goal /\ CleanDirs' = CleanDirs
  BY <1>2, SameEvent
<1>9. TypeInv'
  <2>1. pc' \in {"idle", "load", "next", "dump", "format", "announce", "remove", "rename"}
    BY <1>2
  <2>2. (getEvents(dm))' = getEvents(dm)
    BY <1>2, Zenon DEF getEvents
  <2> QED
    BY <1>1, <1>2, <1>7, <2>1, <2>2, Zenon DEF TypeInv, Names
<1>10. WorkInv'
  BY <1>1, <1>2 DEF WorkInv, InDir
<1>11. DirInv'
  BY <1>3, <1>6, <1>7, <1>8, Zenon DEF DirInv
<1>12. StoredInv'
  <2>1. CleanDirs => Complete(disk[WorkDir])
    BY <1>1, <1>2 DEF StoredInv
  <2>2. CleanDirs => Whole(new)
    BY <1>6, <2>1, Zenon DEF Complete, Whole
  <2>3. pc' # "dump" /\ pc' # "format"
    BY <1>2
  <2> QED
    BY <1>7, <1>8, <2>2, <2>3, Zenon DEF StoredInv
<1>13. KeptInv'
  <2>1. CleanDirs' => \A d \in DOMAIN disk' : d[2] = "COOKED" => Whole(disk'[d])
    BY <1>1, <1>7, <1>8, OthersKept
  <2>2. pc \notin {"remove", "rename"}
    BY <1>2
  <2>3. CleanDirs => \A n \in announced : Cooked(n) \in DOMAIN disk
    BY <1>1, <2>2, Zenon DEF KeptInv
  <2> QED
    BY <1>2, <1>7, <1>8, <2>1, <2>3, Zenon DEF KeptInv, Cooked
<1> QED
  BY <1>9, <1>10, <1>11, <1>12, <1>13, Zenon DEF IInv

\* What is announced is complete under its working name.
LEMMA AnnounceKeeps ==
    ASSUME IInv, Announce
    PROVE  IInv'
<1>1. TypeInv /\ WorkInv /\ DirInv /\ StoredInv /\ KeptInv
  BY Zenon DEF IInv
<1>2. /\ pc = "announce" /\ pc' = (IF set.use_cooking THEN "remove" ELSE "next")
      /\ announced' = announced \cup {this}
      /\ set' = set /\ line' = line /\ dm' = dm /\ pss' = pss
      /\ adjusted' = adjusted /\ todo' = todo
      /\ msecs_start' = msecs_start /\ disk' = disk
      /\ cur' = cur /\ quad' = quad /\ first_s1' = first_s1 /\ dump_timebase' = dump_timebase
      /\ evnum' = evnum /\ lines' = lines /\ kills' = kills /\ restarts' = restarts
  BY DEF Announce, options, loaded, dumping, counts
<1>3. WorkDir \in DOMAIN disk /\ disk[WorkDir].goal = Goal
  BY <1>1, <1>2 DEF DirInv, InDir
<1>4. this' = this /\ WorkDir' = WorkDir /\ Goal' = Goal /\ CleanDirs' = CleanDirs
  BY <1>2, SameEvent
<1>5. this \in Nat /\ (CleanDirs => set.use_cooking)
  BY <1>1, WorkDirName
<1>6. TypeInv'
  <2>1. pc' \in {"idle", "load", "next", "dump", "format", "announce", "remove", "rename"}
    BY <1>2
  <2>2. (getEvents(dm))' = getEvents(dm)
    BY <1>2, Zenon DEF getEvents
  <2>3. announced' \subseteq Nat
    <3>1. announced \subseteq Nat
      BY <1>1, Zenon DEF TypeInv
    <3> QED
      BY <1>2, <1>5, <3>1
  <2> QED
    BY <1>1, <1>2, <2>1, <2>2, <2>3, Zenon DEF TypeInv
<1>7. WorkInv'
  BY <1>1, <1>2 DEF WorkInv, InDir
<1>8. DirInv'
  BY <1>2, <1>3, <1>4, Zenon DEF DirInv
<1>9. StoredInv'
  <2>1. CleanDirs => Whole(disk[WorkDir])
    BY <1>1, <1>2 DEF StoredInv
  <2>2. pc' # "dump" /\ pc' # "format"
    BY <1>2
  <2> QED
    BY <1>2, <1>4, <2>1, <2>2, Zenon DEF StoredInv
<1>10. KeptInv'
  <2>1. pc \notin {"remove", "rename"}
    BY <1>2
  <2>2. CleanDirs => pc' \in {"remove", "rename"}
    BY <1>2, <1>5
  <2>3. \A n \in announced' : n \in announced \/ n = this
    BY <1>2
  <2>4. CleanDirs => \A n \in announced : Cooked(n) \in DOMAIN disk
    BY <1>1, <2>1, Zenon DEF KeptInv
  <2>5. CleanDirs => \A d \in DOMAIN disk : d[2] = "COOKED" => Whole(disk[d])
    BY <1>1, Zenon DEF KeptInv
  <2> QED
    BY <1>2, <1>4, <2>2, <2>3, <2>4, <2>5, Zenon DEF KeptInv, Cooked, Whole
<1> QED
  BY <1>6, <1>7, <1>8, <1>9, <1>10, Zenon DEF IInv

\* The old directory goes while the new one is complete.
LEMMA RemoveOldKeeps ==
    ASSUME IInv, RemoveOld
    PROVE  IInv'
<1>1. TypeInv /\ WorkInv /\ DirInv /\ StoredInv /\ KeptInv
  BY Zenon DEF IInv
<1>2. /\ pc = "remove" /\ pc' = "rename" /\ disk' = Without(Cooked(this))
      /\ set' = set /\ line' = line /\ dm' = dm /\ pss' = pss
      /\ adjusted' = adjusted /\ todo' = todo
      /\ msecs_start' = msecs_start /\ announced' = announced
      /\ cur' = cur /\ quad' = quad /\ first_s1' = first_s1 /\ dump_timebase' = dump_timebase
      /\ evnum' = evnum /\ lines' = lines /\ kills' = kills /\ restarts' = restarts
  BY DEF RemoveOld, options, loaded, dumping, counts
<1>3. WorkDir \in DOMAIN disk /\ disk[WorkDir].goal = Goal /\ set.use_cooking
  BY <1>1, <1>2 DEF DirInv, InDir, WorkInv
<1>4. this' = this /\ WorkDir' = WorkDir /\ Goal' = Goal /\ CleanDirs' = CleanDirs
  BY <1>2, SameEvent
<1>5. this \in Nat /\ WorkDir = Cooking(this)
  BY <1>1, <1>3, WorkDirName, Zenon
<1>6. /\ DOMAIN disk' = DOMAIN disk \ {Cooked(this)} /\ DOMAIN disk' \subseteq Names
      /\ disk' \in [DOMAIN disk' -> Files]
      /\ \A d \in DOMAIN disk' : disk'[d] = disk[d]
  <2>1. DOMAIN disk \subseteq Names /\ disk \in [DOMAIN disk -> Files]
    BY <1>1, Zenon DEF TypeInv, Names
  <2> QED
    BY <1>2, <2>1, WithoutTypes
<1>7. WorkDir \in DOMAIN disk' /\ disk'[WorkDir] = disk[WorkDir]
  <2>1. WorkDir # Cooked(this)
    BY <1>5, NameTypes
  <2>2. WorkDir \in DOMAIN disk'
    BY <1>3, <1>6, <2>1
  <2> QED
    BY <1>6, <2>2, Zenon
<1>8. TypeInv'
  <2>1. pc' \in {"idle", "load", "next", "dump", "format", "announce", "remove", "rename"}
    BY <1>2
  <2>2. (getEvents(dm))' = getEvents(dm)
    BY <1>2, Zenon DEF getEvents
  <2> QED
    BY <1>1, <1>2, <1>6, <2>1, <2>2, Zenon DEF TypeInv, Names
<1>9. WorkInv'
  BY <1>1, <1>2 DEF WorkInv, InDir
<1>10. DirInv'
  BY <1>3, <1>4, <1>7, Zenon DEF DirInv
<1>11. StoredInv'
  <2>1. CleanDirs => Whole(disk[WorkDir])
    BY <1>1, <1>2 DEF StoredInv
  <2>2. pc' # "dump" /\ pc' # "format"
    BY <1>2
  <2> QED
    BY <1>4, <1>7, <2>1, <2>2, Zenon DEF StoredInv
<1>12. KeptInv'
  <2>1. CleanDirs => \A d \in DOMAIN disk' : d[2] = "COOKED" => Whole(disk'[d])
    <3>1. \A d \in DOMAIN disk' : d \in DOMAIN disk
      BY <1>6
    <3> QED
      BY <1>1, <1>6, <3>1, Zenon DEF KeptInv
  <2>2. ASSUME CleanDirs, NEW n \in announced, n # this PROVE Cooked(n) \in DOMAIN disk'
    <3>1. Cooked(n) \in DOMAIN disk
      BY <1>1, <2>2, Zenon DEF KeptInv
    <3>2. n \in Nat
      BY <1>1, <2>2 DEF TypeInv
    <3>3. Cooked(n) # Cooked(this)
      BY <1>5, <2>2, <3>2, NameTypes
    <3> QED
      BY <1>6, <3>1, <3>3
  <2>3. pc' \in {"remove", "rename"}
    BY <1>2
  <2> QED
    BY <1>2, <1>4, <2>1, <2>2, <2>3, Zenon DEF KeptInv, Cooked
<1> QED
  BY <1>8, <1>9, <1>10, <1>11, <1>12, Zenon DEF IInv

\* The complete directory gets its final name.
LEMMA RenameDirKeeps ==
    ASSUME IInv, RenameDir
    PROVE  IInv'
<1>1. TypeInv /\ WorkInv /\ DirInv /\ StoredInv /\ KeptInv
  BY Zenon DEF IInv
<1>2. /\ pc = "rename" /\ pc' = "next"
      /\ disk' = [d \in DOMAIN Without(Cooking(this)) \cup {Cooked(this)} |->
                        IF d = Cooked(this) THEN disk[Cooking(this)] ELSE disk[d]]
      /\ set' = set /\ line' = line /\ dm' = dm /\ pss' = pss
      /\ adjusted' = adjusted /\ todo' = todo
      /\ msecs_start' = msecs_start /\ announced' = announced
      /\ cur' = cur /\ quad' = quad /\ first_s1' = first_s1 /\ dump_timebase' = dump_timebase
      /\ evnum' = evnum /\ lines' = lines /\ kills' = kills /\ restarts' = restarts
  BY DEF RenameDir, options, loaded, dumping, counts
<1>3. WorkDir \in DOMAIN disk /\ set.use_cooking
  BY <1>1, <1>2 DEF DirInv, InDir, WorkInv
<1>4. this' = this /\ CleanDirs' = CleanDirs
  BY <1>2, SameEvent
<1>5. this \in Nat /\ WorkDir = Cooking(this)
  BY <1>1, <1>3, WorkDirName, Zenon
<1>6. DOMAIN disk \subseteq Names /\ disk \in [DOMAIN disk -> Files]
  BY <1>1, Zenon DEF TypeInv, Names
<1>7. disk[WorkDir] \in Files /\ Cooked(this) \in Names /\ Cooked(this)[2] = "COOKED"
  BY <1>3, <1>5, <1>6, NameTypes
<1>8. DOMAIN disk' = (DOMAIN disk \ {Cooking(this)}) \cup {Cooked(this)}
  <2>1. DOMAIN disk' = DOMAIN Without(Cooking(this)) \cup {Cooked(this)}
    BY <1>2, Zenon
  <2> QED
    BY <1>6, <2>1, WithoutTypes
<1>9. /\ disk'[Cooked(this)] = disk[WorkDir]
      /\ \A d \in DOMAIN disk' : d # Cooked(this) => disk'[d] = disk[d] /\ d \in DOMAIN disk
  <2>1. disk'[Cooked(this)] = disk[WorkDir]
    BY <1>2, <1>5, Zenon
  <2>2. \A d \in DOMAIN disk' : d # Cooked(this) => disk'[d] = disk[d]
    BY <1>2, Zenon
  <2>3. \A d \in DOMAIN disk' : d # Cooked(this) => d \in DOMAIN disk
    BY <1>8
  <2> QED
    BY <2>1, <2>2, <2>3, Zenon
<1>10. DOMAIN disk' \subseteq Names /\ disk' \in [DOMAIN disk' -> Files]
  <2>1. DOMAIN disk' \subseteq Names
    BY <1>6, <1>7, <1>8
  <2>2. \A d \in DOMAIN disk : disk[d] \in Files
    BY <1>6, Zenon
  <2>3. ASSUME NEW d \in DOMAIN disk' PROVE disk'[d] \in Files
    BY <1>7, <1>9, <2>2, Zenon
  <2>4. disk' = [d \in DOMAIN disk' |-> disk'[d]]
    BY <1>2, Zenon
  <2> DEFINE D == DOMAIN disk'
  <2> HIDE DEF D
  <2>5. disk' = [d \in D |-> disk'[d]] /\ \A d \in D : disk'[d] \in Files
    BY <2>3, <2>4, Zenon DEF D
  <2>6. disk' \in [D -> Files]
    BY <2>5, Zenon
  <2> QED
    BY <2>1, <2>6, Zenon DEF D
<1>11. TypeInv'
  <2>1. pc' \in {"idle", "load", "next", "dump", "format", "announce", "remove", "rename"}
    BY <1>2
  <2>2. (getEvents(dm))' = getEvents(dm)
    BY <1>2, Zenon DEF getEvents
  <2> QED
    BY <1>1, <1>2, <1>10, <2>1, <2>2, Zenon DEF TypeInv, Names
<1>12. WorkInv'
  BY <1>1, <1>2 DEF WorkInv, InDir
<1>13. DirInv' /\ StoredInv'
  BY <1>2 DEF DirInv, InDir, StoredInv
<1>14. KeptInv'
  <2>1. CleanDirs => Whole(disk[WorkDir])
    BY <1>1, <1>2 DEF StoredInv
  <2>2. CleanDirs => \A d \in DOMAIN disk' : d[2] = "COOKED" => Whole(disk'[d])
    <3> SUFFICES ASSUME CleanDirs, NEW d \in DOMAIN disk', d[2] = "COOKED" PROVE Whole(disk'[d])
      BY Zenon
    <3>1. CASE d = Cooked(this)
      BY <1>9, <2>1, <3>1, Zenon
    <3>2. CASE d # Cooked(this)
      BY <1>1, <1>9, <3>2, Zenon DEF KeptInv
    <3> QED
      BY <3>1, <3>2, Zenon
  <2>3. ASSUME CleanDirs, NEW n \in announced PROVE Cooked(n) \in DOMAIN disk'
    <3>1. CASE n = this
      BY <1>8, <3>1
    <3>2. CASE n # this
      <4>1. Cooked(n) \in DOMAIN disk
        BY <1>1, <2>3, <3>2, Zenon DEF KeptInv
      <4>2. n \in Nat
        BY <1>1, <2>3 DEF TypeInv
      <4>3. Cooked(n) # Cooking(this)
        BY <1>5, <4>2, NameTypes
      <4> QED
        BY <1>8, <4>1, <4>3
    <3> QED
      BY <3>1, <3>2
  <2> QED
    BY <1>2, <1>4, <2>2, <2>3, Zenon DEF KeptInv, Cooked
<1> QED
  BY <1>11, <1>12, <1>13, <1>14, Zenon DEF IInv

\* The goal for an event at a cursor.
GoalAt(d, sc, pre, post) ==
    [q \in Quads |-> IF Has(d[q], sc) THEN Window(d[q], sc, pre, post) ELSE <<>>]

\* A goal is rows for each quad.
LEMMA GoalTypes ==
    ASSUME NEW d \in Models(Rows), NEW sc \in Nat, NEW pre \in Nat, NEW post \in Nat
    PROVE  GoalAt(d, sc, pre, post) \in [Quads -> Seq(Rows)]
<1>1. <<>> \in Seq(Rows)
  BY EmptySeq
<1>2. ASSUME NEW q \in Quads PROVE Window(d[q], sc, pre, post) \in Seq(Rows)
  <2>1. d[q] \in DQuads(Rows)
    BY EventTypes
  <2> QED
    BY <2>1, WindowTypes
<1> QED
  BY <1>1, <1>2 DEF GoalAt

\* A new directory has empty files.
LEMMA NewDirTypes ==
    /\ NewDir \in Files /\ NewDir.tb = <<>>
    /\ \A q \in Quads : NewDir.ch[q] = <<>>
<1>1. <<>> \in Seq(Rows) /\ <<>> \in Seq(Int)
  BY EmptySeq
<1> QED
  BY <1>1 DEF NewDir, Files

\* The next event begins with an empty directory, or one whose files will be overwritten.
LEMMA MakeDirKeeps ==
    ASSUME IInv, MakeDir
    PROVE  IInv'
<1>1. TypeInv /\ WorkInv /\ KeptInv
  BY Zenon DEF IInv
<1>2. /\ pc = "next" /\ pc' = "dump" /\ cur < Len(getEvents(dm)) /\ setWallClockPolicy
      /\ cur' = cur + 1 /\ quad' = 1 /\ dump_timebase' = TRUE
      /\ set' = set /\ line' = line /\ dm' = dm /\ pss' = pss
      /\ adjusted' = adjusted /\ todo' = todo
      /\ first_s1' = first_s1 /\ announced' = announced
      /\ evnum' = evnum /\ lines' = lines /\ kills' = kills /\ restarts' = restarts
  BY DEF MakeDir, options, counts
<1> DEFINE old == IF WorkDir' \in DOMAIN disk /\ ~ set.cleanup THEN disk[WorkDir'] ELSE NewDir
           new == [old EXCEPT !.goal = Goal']
<1>3. disk' = With(WorkDir', new)
  BY Zenon DEF MakeDir
<1>4. /\ dm \in Models(Rows) /\ Alike(dm) /\ line \in AnyLine /\ set \in Settings
      /\ cur \in 0 .. Len(getEvents(dm)) /\ evnum \in Nat /\ msecs_start \in Nat
      /\ DOMAIN disk \subseteq Names /\ disk \in [DOMAIN disk -> Files]
  <2>1. pc # "idle"
    BY <1>2
  <2> QED
    BY <1>1, <2>1, Zenon DEF TypeInv, WorkInv, Models, DQuads, Names
<1>5. Len(getEvents(dm)) \in Nat /\ cur + 1 \in 1 .. Len(getEvents(dm)) /\ cur \in Nat
  <2>1. Len(getEvents(dm)) \in Nat
    BY <1>4, EventTypes
  <2> QED
    BY <1>2, <1>4, <2>1
<1> DEFINE sc == getEvents(dm)[cur + 1]
<1>6. sc \in Nat
  BY <1>4, <1>5, EventTypes
<1>7. Goal' \in [Quads -> Seq(Rows)]
  <2>1. Goal' = GoalAt(dm, sc, set.pre, set.post)
    BY <1>2, Zenon DEF Goal, event_offset, getEvents, GoalAt
  <2>2. set.pre \in Nat /\ set.post \in Nat
    BY <1>4, SettingTypes
  <2> HIDE DEF sc
  <2>3. GoalAt(dm, sc, set.pre, set.post) \in [Quads -> Seq(Rows)]
    BY <1>4, <1>6, <2>2, GoalTypes
  <2> QED
    BY <2>1, <2>3, Zenon
<1>8. this' = evnum + (cur + 1) /\ this' \in Nat
  <2>1. evnum + (cur + 1) \in Nat
    BY <1>4, <1>5
  <2> QED
    BY <1>2, <2>1, Zenon DEF this
<1>9. WorkDir' = IF set.use_cooking THEN Cooking(this') ELSE Cooked(this')
  BY <1>2, Zenon DEF WorkDir, Cooking, Cooked
<1>10. WorkDir' \in Names /\ (CleanDirs => WorkDir'[2] = "COOKING")
  <2>1. Cooking(this') \in Names /\ Cooked(this') \in Names /\ Cooking(this')[2] = "COOKING"
    BY <1>8, NameTypes
  <2> QED
    BY <1>9, <2>1, Zenon DEF CleanDirs
<1>11. old \in Files
  BY <1>4, NewDirTypes, Zenon
<1>12. set.cleanup => old = NewDir
  BY Zenon
<1> DEFINE goal == Goal'
<1> HIDE DEF old, goal
<1>13. new \in Files /\ new.goal = Goal' /\ new.ch = old.ch /\ new.tb = old.tb
  <2>1. goal \in [Quads -> Seq(Rows)]
    BY <1>7, Zenon DEF goal
  <2>2. [old EXCEPT !.goal = goal] \in Files /\ [old EXCEPT !.goal = goal].goal = goal
        /\ [old EXCEPT !.goal = goal].ch = old.ch /\ [old EXCEPT !.goal = goal].tb = old.tb
    BY <1>11, <2>1 DEF Files
  <2> QED
    BY <2>2, Zenon DEF goal
<1> HIDE DEF new
<1>14. /\ DOMAIN disk' = DOMAIN disk \cup {WorkDir'} /\ DOMAIN disk' \subseteq Names
       /\ disk' \in [DOMAIN disk' -> Files]
       /\ disk'[WorkDir'] = new
       /\ \A d \in DOMAIN disk \ {WorkDir'} : disk'[d] = disk[d]
  <2> DEFINE W == WorkDir'
  <2> HIDE DEF W
  <2>1. W \in Names /\ disk' = With(W, new)
    BY <1>3, <1>10, Zenon DEF W
  <2>2. /\ DOMAIN disk' = DOMAIN disk \cup {W} /\ DOMAIN disk' \subseteq Names
        /\ disk' \in [DOMAIN disk' -> Files]
        /\ disk'[W] = new
        /\ \A d \in DOMAIN disk \ {W} : disk'[d] = disk[d]
    BY <1>4, <1>13, <2>1, WithTypes
  <2> QED
    BY <2>2, Zenon DEF W
<1>15. CleanDirs' = CleanDirs
  BY <1>2, Zenon DEF CleanDirs
<1>16. TypeInv'
  <2>1. pc' \in {"idle", "load", "next", "dump", "format", "announce", "remove", "rename"}
    BY <1>2
  <2>2. (getEvents(dm))' = getEvents(dm)
    BY <1>2, Zenon DEF getEvents
  <2>3. msecs_start' \in Nat
    <3>1. esoff(line) \in Nat /\ TBLOCK_LEN \in Nat
      BY <1>4, LineTypes, WorkerAssumption
    <3>2. TBLOCK_LEN + esoff(line) \in Nat
      BY <3>1
    <3>3. msecs_at_esoff \in Nat
      BY <1>4, <3>2, NumberTypes DEF msecs_at_esoff
    <3> QED
      BY <1>2, <1>4, <3>3, Zenon DEF setWallClockPolicy
  <2>4. cur' \in 0 .. Len(getEvents(dm)) /\ quad' \in 1 .. NQuads
    BY <1>2, <1>5, Counts
  <2> QED
    BY <1>1, <1>2, <1>14, <2>1, <2>2, <2>3, <2>4, Zenon DEF TypeInv, Names
<1>17. WorkInv'
  <2>1. cur' # 0
    BY <1>2, <1>5
  <2> QED
    BY <1>1, <1>2, <1>4, <2>1 DEF WorkInv, InDir, Alike
<1>18. DirInv'
  <2>1. WorkDir' \in DOMAIN disk'
    BY <1>14
  <2> QED
    BY <1>13, <1>14, <2>1, Zenon DEF DirInv
<1>19. StoredInv'
  <2>1. ASSUME set.cleanup, NEW i \in 1 .. NQuads PROVE new.ch[scanlist[i]] = <<>>
    <3>1. scanlist[i] \in Quads
      BY Counts
    <3> QED
      BY <1>12, <1>13, <2>1, <3>1, NewDirTypes, Zenon
  <2>2. set.cleanup => new.tb = <<>>
    BY <1>12, <1>13, NewDirTypes, Zenon
  <2>3. \A i \in 1 .. quad' - 1 : FALSE
    BY <1>2
  <2>4. quad' = 1
    BY <1>2
  <2>5. (Filled(disk[WorkDir]))'
    BY <1>2, <1>14, <2>1, <2>2, <2>3, <2>4, Zenon DEF Filled
  <2>6. pc' # "format" /\ pc' \notin {"announce", "remove", "rename"}
    BY <1>2
  <2> QED
    BY <2>5, <2>6, Zenon DEF StoredInv
<1>20. KeptInv'
  <2>1. CleanDirs => \A d \in DOMAIN disk' : d[2] = "COOKED" => Whole(disk'[d])
    <3> SUFFICES ASSUME CleanDirs, NEW d \in DOMAIN disk', d[2] = "COOKED" PROVE Whole(disk'[d])
      BY Zenon
    <3>1. d # WorkDir'
      BY <1>10
    <3>2. d \in DOMAIN disk \ {WorkDir'}
      BY <1>14, <3>1
    <3>3. disk'[d] = disk[d] /\ d \in DOMAIN disk
      BY <1>14, <3>2, Zenon
    <3> QED
      BY <1>1, <3>3, Zenon DEF KeptInv
  <2>2. pc \notin {"remove", "rename"}
    BY <1>2
  <2>3. CleanDirs => \A n \in announced : Cooked(n) \in DOMAIN disk
    BY <1>1, <2>2, Zenon DEF KeptInv
  <2>4. \A d \in DOMAIN disk : d \in DOMAIN disk'
    BY <1>14
  <2> QED
    BY <1>2, <1>15, <2>1, <2>3, <2>4, Zenon DEF KeptInv, Cooked
<1> QED
  BY <1>16, <1>17, <1>18, <1>19, <1>20, Zenon DEF IInv

\* A file that is overwritten, or that was empty, has what was written.
LEMMA WrittenTypes ==
    ASSUME NEW R, NEW old \in Seq(R), NEW new \in Seq(R)
    PROVE  /\ Written(old, new) \in Seq(R)
           /\ set.overwrite \/ old = <<>> => Written(old, new) = new
<1>1. old \o new \in Seq(R)
  BY ConcatProperties
<1>2. <<>> \o new = new
  BY ConcatEmptySeq
<1> QED
  BY <1>1, <1>2, Zenon DEF Written

\* The timebase of a window has the length of the whole window.
LEMMA TimebaseTypes ==
    ASSUME TypeInv, NEW dq, event_offset \in Nat
    PROVE  /\ Timebase(dq) \in Seq(Int)
           /\ Len(Timebase(dq)) = event_offset + set.post - First(event_offset, set.pre)
<1> DEFINE first == First(event_offset, set.pre)
           n == event_offset + set.post - first
<1>1. /\ set.pre \in Nat /\ set.post \in Nat
  BY SettingTypes DEF TypeInv
<1>2. first \in Nat /\ n \in Nat
  BY <1>1 DEF First
<1>3. StartTime(dq) \in Int
  <2>1. msecs_start \in Nat /\ first_s1 \in Nat /\ pss \in Int /\ WORD \in Nat \ {0}
    BY WorkerAssumption, Zenon DEF TypeInv
  <2>2. getSampleOffset \in Int
    <3>1. pss + event_offset \in Int /\ event_offset \in Int
      BY <2>1
    <3> QED
      BY <3>1, Zenon DEF getSampleOffset
  <2>3. getSampleOffset - event_offset + first \in Int /\ first - first_s1 - set.pre \in Int
    BY <1>1, <1>2, <2>1, <2>2
  <2> DEFINE x == getSampleOffset - event_offset + first
             y == first - first_s1 - set.pre
  <2>4. x \in Int /\ y \in Int
    BY <2>3
  <2>5. StartTime(dq) = IF ~ line.timed THEN msecs_start + (x % WORD)
                        ELSE IF event_offset = dq.es[1] THEN msecs_start - set.pre
                        ELSE msecs_start + (y % WORD)
    BY Zenon DEF StartTime
  <2> HIDE DEF x, y
  <2>6. /\ msecs_start + (x % WORD) \in Int /\ msecs_start - set.pre \in Int
        /\ msecs_start + (y % WORD) \in Int
    BY <1>1, <2>1, <2>4
  <2> QED
    BY <2>5, <2>6, Zenon
<1>4. Timebase(dq) = [i \in 1 .. n |-> StartTime(dq) + i - 1]
  BY Zenon DEF Timebase
<1> HIDE DEF n, first
<1>5. Timebase(dq) \in [1 .. n -> Int]
  BY <1>3, <1>4
<1>6. Timebase(dq) \in Seq(Int)
  BY <1>2, <1>5, SeqDef
<1>7. Len(Timebase(dq)) = n
  BY <1>2, <1>5, <1>6, LenProperties
<1> QED
  BY <1>6, <1>7 DEF n, first

\* Every quad has the event and adds its window, the first also the timebase.
LEMMA DumpQuadKeeps ==
    ASSUME IInv, DumpQuad
    PROVE  IInv'
<1>1. TypeInv /\ WorkInv /\ DirInv /\ StoredInv /\ KeptInv
  BY Zenon DEF IInv
<1> DEFINE q == scanlist[quad]
           dq == dm[q]
           old == disk[WorkDir]
           stored == Window(dq, event_offset, set.pre, set.post)
           new == [ch |-> [old.ch EXCEPT ![q] = Written(old.ch[q], stored)],
                   tb |-> IF dump_timebase THEN Written(old.tb, Timebase(dq)) ELSE old.tb,
                   format |-> old.format, goal |-> old.goal]
<1>2. /\ pc = "dump"
      /\ set' = set /\ line' = line /\ dm' = dm /\ pss' = pss
      /\ adjusted' = adjusted /\ todo' = todo
      /\ msecs_start' = msecs_start /\ announced' = announced /\ cur' = cur
      /\ evnum' = evnum /\ lines' = lines /\ kills' = kills /\ restarts' = restarts
      /\ IF quad = NQuads THEN pc' = "format" /\ quad' = 1 ELSE pc' = "dump" /\ quad' = quad + 1
  BY DEF DumpQuad, options, loaded, counts
<1>3. /\ dm \in Models(Rows) /\ Alike(dm) /\ set \in Settings /\ quad \in 1 .. NQuads
      /\ cur \in 0 .. Len(getEvents(dm)) /\ dump_timebase \in BOOLEAN /\ first_s1 \in Nat
      /\ cur # 0 /\ (dump_timebase <=> quad = 1)
  <2>1. /\ dm \in Models(Rows) /\ Alike(dm) /\ set \in Settings /\ quad \in 1 .. NQuads
        /\ cur \in 0 .. Len(getEvents(dm)) /\ dump_timebase \in BOOLEAN /\ first_s1 \in Nat
    BY <1>1, Zenon DEF TypeInv, WorkInv, Models, DQuads
  <2>2. cur # 0 /\ (dump_timebase <=> quad = 1)
    BY <1>1, <1>2 DEF WorkInv, InDir
  <2> QED
    BY <2>1, <2>2
<1>4. WorkDir \in DOMAIN disk /\ old.goal = Goal /\ old \in Files
  <2>1. WorkDir \in DOMAIN disk /\ old.goal = Goal
    BY <1>1, <1>2 DEF DirInv, InDir
  <2> QED
    BY <1>1, <2>1, Zenon DEF TypeInv
<1>5. set.pre \in Nat /\ set.post \in Nat /\ set.overwrite \in BOOLEAN /\ set.cleanup \in BOOLEAN
  BY <1>3, SettingTypes
<1>6. q \in Quads /\ dq \in DQuads(Rows) /\ event_offset \in Nat /\ Has(dq, event_offset)
  <2>1. q \in Quads
    BY <1>3, Counts
  <2>2. Len(getEvents(dm)) \in Nat
    BY <1>3, EventTypes
  <2>3. cur \in 1 .. Len(getEvents(dm))
    BY <1>3, <2>2
  <2> HIDE DEF q
  <2>4. getEvents(dm)[cur] \in Nat /\ dm[q] \in DQuads(Rows)
    BY <1>3, <2>1, <2>3, EventTypes
  <2>5. Has(dm[q], getEvents(dm)[cur])
    BY <1>3, <2>1, <2>3, EventTypes
  <2> QED
    BY <2>1, <2>4, <2>5, Zenon DEF event_offset
<1>7. /\ First(event_offset, set.pre) \in Nat /\ stored \in Seq(Rows) /\ Len(stored) \in Nat
      /\ Len(stored) <= event_offset + set.post - First(event_offset, set.pre)
  BY <1>5, <1>6, WindowTypes
<1>8. Timebase(dq) \in Seq(Int) /\ Len(Timebase(dq)) >= Len(stored)
  <2>1. /\ Timebase(dq) \in Seq(Int)
        /\ Len(Timebase(dq)) = event_offset + set.post - First(event_offset, set.pre)
    BY <1>1, <1>6, TimebaseTypes
  <2> HIDE DEF stored, dq
  <2> QED
    BY <1>5, <1>6, <1>7, <2>1
<1>9. stored = Goal[q]
  BY <1>6, Zenon DEF Goal
<1>10. /\ disk' = [disk EXCEPT ![WorkDir] = new]
       /\ dump_timebase' = FALSE
       /\ first_s1' = IF dump_timebase /\ line.timed /\ event_offset = dq.es[1]
                      THEN First(event_offset, set.pre) ELSE first_s1
  <2>1. IF Has(dq, event_offset)
        THEN /\ disk' = [disk EXCEPT ![WorkDir] = new]
             /\ dump_timebase' = FALSE
             /\ first_s1' = IF dump_timebase /\ line.timed /\ event_offset = dq.es[1]
                            THEN First(event_offset, set.pre) ELSE first_s1
        ELSE UNCHANGED <<disk, dump_timebase, first_s1>>
    BY DEF DumpQuad
  <2> HIDE DEF new, old, stored, dq, q
  <2> QED
    BY <1>6, <2>1
<1>11. old.ch \in [Quads -> Seq(Rows)] /\ old.tb \in Seq(Int) /\ old.format \in BOOLEAN
       /\ old.goal \in [Quads -> Seq(Rows)] /\ old.ch[q] \in Seq(Rows)
  <2> HIDE DEF old, q
  <2> QED
    BY <1>4, <1>6 DEF Files
<1> DEFINE col == Written(old.ch[q], stored)
           times == Written(old.tb, Timebase(dq))
<1>12. /\ col \in Seq(Rows) /\ times \in Seq(Int)
       /\ set.overwrite \/ old.ch[q] = <<>> => col = stored
       /\ set.overwrite \/ old.tb = <<>> => times = Timebase(dq)
  <2> HIDE DEF stored, old, dq, q
  <2>1. col \in Seq(Rows) /\ (set.overwrite \/ old.ch[q] = <<>> => col = stored)
    BY <1>7, <1>11, WrittenTypes
  <2>2. times \in Seq(Int) /\ (set.overwrite \/ old.tb = <<>> => times = Timebase(dq))
    BY <1>8, <1>11, WrittenTypes
  <2> QED
    BY <2>1, <2>2
<1>13. /\ new.ch = [old.ch EXCEPT ![q] = col]
       /\ new.tb = IF dump_timebase THEN times ELSE old.tb
       /\ new.format = old.format /\ new.goal = old.goal
  OBVIOUS
<1>14. new \in Files
  <2> HIDE DEF old, q, col, times
  <2>1. [old.ch EXCEPT ![q] = col] \in [Quads -> Seq(Rows)]
    BY <1>11, <1>12
  <2>2. (IF dump_timebase THEN times ELSE old.tb) \in Seq(Int)
    BY <1>11, <1>12, Zenon
  <2>3. new = [ch |-> [old.ch EXCEPT ![q] = col],
               tb |-> IF dump_timebase THEN times ELSE old.tb,
               format |-> old.format, goal |-> old.goal]
    BY Zenon DEF col, times
  <2> HIDE DEF new
  <2> QED
    BY <1>11, <2>1, <2>2, <2>3 DEF Files
<1>15. new.ch[q] = col /\ \A p \in Quads \ {q} : new.ch[p] = old.ch[p]
  <2> HIDE DEF new, old, q, col
  <2> QED
    BY <1>6, <1>11, <1>13
<1> HIDE DEF new, col, times
<1>16. /\ DOMAIN disk' = DOMAIN disk /\ DOMAIN disk' \subseteq Names
       /\ disk' \in [DOMAIN disk' -> Files]
       /\ disk'[WorkDir] = new
       /\ \A d \in DOMAIN disk : d # WorkDir => disk'[d] = disk[d]
  BY <1>1, <1>4, <1>10, <1>14, DirChanged
<1>17. this' = this /\ WorkDir' = WorkDir /\ Goal' = Goal /\ CleanDirs' = CleanDirs
  BY <1>2, SameEvent
<1>18. NQuads \in Nat \ {0} /\ quad' \in 1 .. NQuads /\ pc' \in {"dump", "format"}
  <2>1. NQuads \in Nat \ {0}
    BY Counts
  <2> QED
    BY <1>2, <1>3, <2>1
<1>19. TypeInv'
  <2>1. pc' \in {"idle", "load", "next", "dump", "format", "announce", "remove", "rename"}
    BY <1>18
  <2>2. (getEvents(dm))' = getEvents(dm)
    BY <1>2, Zenon DEF getEvents
  <2>3. first_s1' \in Nat /\ dump_timebase' \in BOOLEAN
    BY <1>3, <1>7, <1>10, Zenon
  <2> QED
    BY <1>1, <1>2, <1>16, <1>18, <2>1, <2>2, <2>3, Zenon DEF TypeInv, Names
<1>20. WorkInv'
  <2>1. (Alike(dm))'
    BY <1>2, <1>3, Zenon DEF Alike
  <2>2. (pc' = "format" /\ quad' = 1) \/ (pc' = "dump" /\ quad' # 1)
    BY <1>2, <1>3, <1>18
  <2> QED
    BY <1>1, <1>2, <1>3, <1>10, <1>18, <2>1, <2>2 DEF WorkInv, InDir
<1>21. DirInv'
  BY <1>4, <1>13, <1>16, <1>17, Zenon DEF DirInv
<1>22. ASSUME CleanDirs
       PROVE  /\ \A i \in 1 .. quad : new.ch[scanlist[i]] = new.goal[scanlist[i]]
              /\ set.cleanup => \A i \in quad + 1 .. NQuads : new.ch[scanlist[i]] = <<>>
              /\ Len(new.tb) >= Len(new.goal[scanlist[1]])
  <2>1. Filled(old) /\ (set.overwrite \/ set.cleanup)
    BY <1>1, <1>2, <1>22 DEF StoredInv, CleanDirs
  <2>2. set.cleanup => old.ch[q] = <<>>
    <3>1. quad \in quad .. NQuads
      BY <1>3, <1>18
    <3> QED
      BY <2>1, <3>1, Zenon DEF Filled
  <2>3. new.ch[q] = new.goal[q]
    BY <1>4, <1>9, <1>12, <1>13, <1>15, <2>1, <2>2, Zenon
  <2>4. ASSUME NEW i \in 1 .. NQuads, i # quad PROVE new.ch[scanlist[i]] = old.ch[scanlist[i]]
    <3>1. scanlist[i] \in Quads \ {q}
      BY <1>3, <2>4, Counts
    <3> QED
      BY <1>15, <3>1, Zenon
  <2>5. \A i \in 1 .. quad : new.ch[scanlist[i]] = new.goal[scanlist[i]]
    <3> SUFFICES ASSUME NEW i \in 1 .. quad PROVE new.ch[scanlist[i]] = new.goal[scanlist[i]]
      OBVIOUS
    <3>1. CASE i = quad
      BY <2>3, <3>1, Zenon
    <3>2. CASE i # quad
      <4>1. i \in 1 .. quad - 1 /\ i \in 1 .. NQuads
        BY <1>3, <1>18, <3>2
      <4>2. old.ch[scanlist[i]] = old.goal[scanlist[i]]
        BY <2>1, <4>1, Zenon DEF Filled
      <4> QED
        BY <1>13, <2>4, <3>2, <4>1, <4>2, Zenon
    <3> QED
      BY <3>1, <3>2
  <2>6. ASSUME set.cleanup, NEW i \in quad + 1 .. NQuads PROVE new.ch[scanlist[i]] = <<>>
    <3>1. i \in quad .. NQuads /\ i \in 1 .. NQuads /\ i # quad
      BY <1>3
    <3>2. old.ch[scanlist[i]] = <<>>
      BY <2>1, <2>6, <3>1, Zenon DEF Filled
    <3> QED
      BY <2>4, <3>1, <3>2, Zenon
  <2>7. Len(new.tb) >= Len(new.goal[scanlist[1]])
    <3>1. CASE quad = 1
      <4>1. new.tb = times
        BY <1>3, <1>13, <3>1, Zenon
      <4>2. set.cleanup => old.tb = <<>>
        BY <2>1, <3>1, Zenon DEF Filled
      <4>3. times = Timebase(dq)
        BY <1>12, <2>1, <4>2, Zenon
      <4>4. new.goal[scanlist[1]] = stored
        BY <1>4, <1>9, <1>13, <3>1, Zenon
      <4> HIDE DEF stored, dq
      <4> QED
        BY <1>8, <4>1, <4>3, <4>4
    <3>2. CASE quad # 1
      <4>1. new.tb = old.tb
        BY <1>3, <1>13, <3>2, Zenon
      <4> QED
        BY <1>13, <2>1, <3>2, <4>1, Zenon DEF Filled
    <3> QED
      BY <3>1, <3>2
  <2> QED
    BY <2>5, <2>6, <2>7
<1>23. StoredInv'
  <2>1. CASE quad = NQuads
    <3>1. pc' = "format"
      BY <1>2, <2>1
    <3>2. ASSUME CleanDirs PROVE Complete(new)
      <4>1. \A i \in 1 .. NQuads : new.ch[scanlist[i]] = new.goal[scanlist[i]]
        BY <1>22, <2>1, <3>2
      <4>2. \A p \in Quads : new.ch[p] = new.goal[p]
        BY <4>1, Zenon DEF Quads
      <4>3. new.ch \in [Quads -> Seq(Rows)] /\ new.goal \in [Quads -> Seq(Rows)]
        BY <1>14 DEF Files
      <4>4. new.ch = new.goal
        BY <4>2, <4>3
      <4> QED
        BY <1>22, <3>2, <4>4, Zenon DEF Complete
    <3> QED
      BY <1>16, <1>17, <3>1, <3>2 DEF StoredInv, Complete
  <2>2. CASE quad # NQuads
    <3>1. pc' = "dump" /\ quad' = quad + 1
      BY <1>2, <2>2
    <3>2. quad + 1 - 1 = quad /\ quad + 1 # 1
      BY <1>3
    <3>3. ASSUME CleanDirs PROVE (Filled(disk[WorkDir]))'
      <4>1. \A i \in 1 .. quad' - 1 : new.ch[scanlist[i]] = new.goal[scanlist[i]]
        <5>1. quad' - 1 = quad
          BY <1>3, <3>1
        <5> QED
          BY <1>22, <3>3, <5>1, Zenon
      <4>2. set'.cleanup => \A i \in quad' .. NQuads : new.ch[scanlist[i]] = <<>>
        BY <1>2, <1>22, <3>1, <3>3, Zenon
      <4>3. quad' # 1
        BY <3>1, <3>2, Zenon
      <4> QED
        BY <1>16, <1>17, <1>22, <3>3, <4>1, <4>2, <4>3, Zenon DEF Filled
    <3> QED
      BY <1>17, <3>1, <3>3 DEF StoredInv
  <2> QED
    BY <2>1, <2>2
<1>24. KeptInv'
  <2>1. CleanDirs' => \A d \in DOMAIN disk' : d[2] = "COOKED" => Whole(disk'[d])
    BY <1>1, <1>16, <1>17, OthersKept
  <2>2. pc \notin {"remove", "rename"}
    BY <1>2
  <2>3. CleanDirs => \A n \in announced : Cooked(n) \in DOMAIN disk
    BY <1>1, <2>2, Zenon DEF KeptInv
  <2> QED
    BY <1>2, <1>16, <1>17, <2>1, <2>3, Zenon DEF KeptInv, Cooked
<1> QED
  BY <1>19, <1>20, <1>21, <1>23, <1>24, Zenon DEF IInv

\* Nothing changes.
LEMMA StutterKeeps ==
    ASSUME IInv, UNCHANGED vars
    PROVE  IInv'
<1>1. TypeInv /\ WorkInv /\ DirInv /\ StoredInv /\ KeptInv
  BY Zenon DEF IInv
<1>2. /\ pc' = pc /\ set' = set /\ line' = line /\ dm' = dm /\ pss' = pss /\ adjusted' = adjusted
      /\ todo' = todo /\ msecs_start' = msecs_start /\ disk' = disk /\ announced' = announced
      /\ cur' = cur /\ quad' = quad /\ first_s1' = first_s1 /\ dump_timebase' = dump_timebase
      /\ evnum' = evnum /\ lines' = lines /\ kills' = kills /\ restarts' = restarts
  BY DEF vars, options, loaded, files, dumping, counts
<1>3. this' = this /\ WorkDir' = WorkDir /\ Goal' = Goal /\ CleanDirs' = CleanDirs
  BY <1>2, SameEvent
<1>4. TypeInv'
  BY <1>1, <1>2, Zenon DEF TypeInv, getEvents
<1>5. WorkInv'
  BY <1>1, <1>2, Zenon DEF WorkInv, InDir, Alike
<1>6. DirInv'
  BY <1>1, <1>2, <1>3, Zenon DEF DirInv, InDir
<1>7. StoredInv'
  BY <1>1, <1>2, <1>3, Zenon DEF StoredInv, Filled, Complete, Whole
<1>8. KeptInv'
  BY <1>1, <1>2, <1>3, Zenon DEF KeptInv, Cooked, Whole
<1> QED
  BY <1>4, <1>5, <1>6, <1>7, <1>8, Zenon DEF IInv

\* The invariant holds in every state of the worker and of those after it.
THEOREM Invariance == Spec => []IInv
<1>1. Init => IInv
  BY InitIInv
<1>2. IInv /\ [Next]_vars => IInv'
  <2> SUFFICES ASSUME IInv, [Next]_vars PROVE IInv'
    OBVIOUS
  <2>1. ASSUME NEW l \in AnyLine, Fork(l) PROVE IInv'
    BY <2>1, ForkKeeps
  <2>2. CASE LoadFails
    BY <2>2, LoadFailsKeeps
  <2>3. CASE Load
    BY <2>3, LoadKeeps
  <2>4. CASE MakeDir
    BY <2>4, MakeDirKeeps
  <2>5. CASE DumpQuad
    BY <2>5, DumpQuadKeeps
  <2>6. CASE DumpFormat
    BY <2>6, DumpFormatKeeps
  <2>7. CASE Announce
    BY <2>7, AnnounceKeeps
  <2>8. CASE RemoveOld
    BY <2>8, RemoveOldKeeps
  <2>9. CASE RenameDir
    BY <2>9, RenameDirKeeps
  <2>10. CASE Finish
    BY <2>10, FinishKeeps
  <2>11. CASE Killed
    BY <2>11, KilledKeeps
  <2>12. CASE Restart
    BY <2>12, RestartKeeps
  <2>13. CASE UNCHANGED vars
    BY <2>13, StutterKeeps
  <2> QED
    BY <2>1, <2>2, <2>3, <2>4, <2>5, <2>6, <2>7, <2>8, <2>9, <2>10, <2>11, <2>12, <2>13,
       Zenon DEF Next
<1> QED
  BY <1>1, <1>2, PTL DEF Spec

\* The options, the line, the data model that processRawFiles() fills, the
\* counters and every directory have their types.
THEOREM TypeCorrect == Spec => []TypeInv
<1>1. IInv => TypeInv
  BY Zenon DEF IInv
<1> QED
  BY <1>1, Invariance, PTL

\* rename() in ~WorkingDir() only gives a directory its final name when all
\* the files of its event are in it, after any kills and restarts.
THEOREM PublishedComplete == Spec => []PublishedWhole
<1>1. IInv => PublishedWhole
  <2> SUFFICES ASSUME IInv, CleanDirs, NEW n \in { d[1] : d \in DOMAIN disk },
                      Cooked(n) \in DOMAIN disk
               PROVE  Whole(disk[Cooked(n)])
    BY DEF PublishedWhole
  <2>1. Cooked(n)[2] = "COOKED"
    BY DEF Cooked
  <2> QED
    BY <2>1, Zenon DEF IInv, KeptInv
<1> QED
  BY <1>1, Invariance, PTL

\* updateEvnIndicator() only names an event whose files are complete, and
\* they stay so while rmrf() and rename() give them their final name.
THEOREM AnnouncedStays == Spec => []AnnouncedKept
<1>1. IInv => AnnouncedKept
  <2> SUFFICES ASSUME IInv, CleanDirs, NEW n \in announced
               PROVE  \E d \in {Cooking(n), Cooked(n)} \cap DOMAIN disk : Whole(disk[d])
    BY DEF AnnouncedKept
  <2>1. TypeInv /\ DirInv /\ StoredInv /\ KeptInv
    BY Zenon DEF IInv
  <2>2. CASE Cooked(n) \in DOMAIN disk
    <3>1. Cooked(n)[2] = "COOKED"
      BY DEF Cooked
    <3>2. Whole(disk[Cooked(n)])
      BY <2>1, <2>2, <3>1, Zenon DEF KeptInv
    <3>3. Cooked(n) \in {Cooking(n), Cooked(n)} \cap DOMAIN disk
      BY <2>2
    <3> QED
      BY <3>2, <3>3, Zenon
  <2>3. CASE pc \in {"remove", "rename"} /\ n = this
    <3>1. WorkDir \in DOMAIN disk
      BY <2>1, <2>3 DEF DirInv, InDir
    <3>2. WorkDir = Cooking(n)
      BY <2>1, <2>3, WorkDirName, Zenon
    <3>3. Whole(disk[WorkDir])
      BY <2>1, <2>3 DEF StoredInv
    <3>4. Cooking(n) \in {Cooking(n), Cooked(n)} \cap DOMAIN disk
      BY <3>1, <3>2
    <3> QED
      BY <3>2, <3>3, <3>4, Zenon
  <2> QED
    BY <2>1, <2>2, <2>3, Zenon DEF KeptInv
<1> QED
  BY <1>1, Invariance, PTL


-----------------------------------------------------------------------------
\* The slots of a line and the samples in them.

\* A slot with a sample has a number of its own, a signature takes none.
LEMMA NumberNext ==
    ASSUME NEW l \in AnyLine, NEW s \in Nat
    PROVE  Number(l, s + 1) = Number(l, s) + (IF s \in SignatureSlots(l) THEN 0 ELSE 1)
<1> DEFINE E == { e \in SignatureSlots(l) : e < s }
           F == { e \in SignatureSlots(l) : e < s + 1 }
<1>1. SignatureSlots(l) \subseteq Nat
  BY NumberTypes
<1>2. IsFiniteSet(E) /\ Cardinality(E) \in Nat
  <2>1. E \in SUBSET (0 .. s)
    <3> SUFFICES ASSUME NEW e \in E PROVE e \in 0 .. s
      OBVIOUS
    <3> QED
      BY <1>1
  <2> HIDE DEF E
  <2>2. IsFiniteSet(0 .. s)
    <3>1. 0 \in Int /\ s \in Int
      OBVIOUS
    <3> QED
      BY <3>1, FS_Interval
  <2>3. IsFiniteSet(E)
    BY <2>1, <2>2, FS_Subset
  <2> QED
    BY <2>3, FS_CardinalityType
<1>3. Number(l, s) = s - Cardinality(E) /\ Number(l, s + 1) = (s + 1) - Cardinality(F)
  BY Zenon DEF Number
<1>4. CASE s \in SignatureSlots(l)
  <2>1. F = E \cup {s}
    BY <1>1, <1>4
  <2>2. s \notin E
    OBVIOUS
  <2> HIDE DEF E, F
  <2>3. Cardinality(E \cup {s}) = Cardinality(E) + 1
    BY <1>2, <2>2, FS_AddElement
  <2> QED
    BY <1>2, <1>3, <1>4, <2>1, <2>3
<1>5. CASE s \notin SignatureSlots(l)
  <2>1. F = E
    <3>1. ASSUME NEW e \in SignatureSlots(l) PROVE e < s + 1 <=> e < s
      <4>1. e \in Nat /\ e # s
        BY <1>1, <1>5
      <4> QED
        BY <4>1
    <3> QED
      BY <3>1
  <2> HIDE DEF E, F
  <2> QED
    BY <1>2, <1>3, <1>5, <2>1
<1> QED
  BY <1>4, <1>5

\* Numbers grow with slots, by at most one for each, and by one for each that
\* is no signature.
LEMMA NumbersGrow ==
    ASSUME NEW l \in AnyLine, NEW a \in Nat, NEW b \in Nat, a <= b
    PROVE  /\ Number(l, a) \in Nat /\ Number(l, b) \in Nat
           /\ Number(l, a) <= Number(l, b) /\ Number(l, b) - Number(l, a) <= b - a
           /\ (\A s \in SignatureSlots(l) : ~ (a <= s /\ s < b)) =>
                    Number(l, b) - Number(l, a) = b - a
<1> DEFINE T == { n \in Nat :
                    /\ Number(l, a) <= Number(l, a + n)
                    /\ Number(l, a + n) - Number(l, a) <= n
                    /\ (\A s \in SignatureSlots(l) : ~ (a <= s /\ s < a + n)) =>
                            Number(l, a + n) - Number(l, a) = n }
<1>1. ASSUME NEW n \in Nat PROVE Number(l, a + n) \in Nat
  <2>1. a + n \in Nat
    OBVIOUS
  <2> QED
    BY <2>1, NumberTypes
<1>2. Number(l, a) \in Nat
  BY NumberTypes
<1>3. 0 \in T
  <2>1. a + 0 = a
    OBVIOUS
  <2> QED
    BY <1>2, <2>1
<1>4. ASSUME NEW n \in Nat, n \in T PROVE n + 1 \in T
  <2>1. Number(l, (a + n) + 1) = Number(l, a + n) + (IF a + n \in SignatureSlots(l) THEN 0 ELSE 1)
    <3>1. a + n \in Nat
      OBVIOUS
    <3> QED
      BY <3>1, NumberNext
  <2>2. (a + n) + 1 = a + (n + 1)
    OBVIOUS
  <2> DEFINE u == Number(l, a + n)
             v == Number(l, a + (n + 1))
             w == Number(l, a)
  <2>3. v = u + (IF a + n \in SignatureSlots(l) THEN 0 ELSE 1)
    BY <2>1, <2>2
  <2>4. u \in Nat /\ w \in Nat
    BY <1>1, <1>2
  <2>5. w <= u /\ u - w <= n
    BY <1>4
  <2>6. ASSUME \A s \in SignatureSlots(l) : ~ (a <= s /\ s < a + (n + 1))
        PROVE  u - w = n /\ a + n \notin SignatureSlots(l)
    <3>1. a <= a + n /\ a + n < a + (n + 1)
      OBVIOUS
    <3>2. a + n \notin SignatureSlots(l)
      BY <2>6, <3>1
    <3>3. \A s \in SignatureSlots(l) : ~ (a <= s /\ s < a + n)
      <4> SUFFICES ASSUME NEW s \in SignatureSlots(l), a <= s, s < a + n PROVE FALSE
        OBVIOUS
      <4>1. s \in Nat
        BY NumberTypes
      <4>2. s < a + (n + 1)
        BY <4>1
      <4> QED
        BY <2>6, <4>2
    <3> QED
      BY <1>4, <3>2, <3>3
  <2> HIDE DEF u, v, w
  <2>7. w <= v /\ v - w <= n + 1
    BY <2>3, <2>4, <2>5
  <2>8. (\A s \in SignatureSlots(l) : ~ (a <= s /\ s < a + (n + 1))) => v - w = n + 1
    BY <2>3, <2>4, <2>6
  <2> QED
    BY <2>7, <2>8 DEF u, v, w
<1>5. \A n \in Nat : n \in T
  <2> HIDE DEF T
  <2> QED
    BY <1>3, <1>4, NumbersFromZero, Zenon
<1>6. b - a \in Nat /\ a + (b - a) = b
  OBVIOUS
<1>7. b - a \in T
  BY <1>5, <1>6
<1> QED
  BY <1>1, <1>2, <1>6, <1>7

\* A signature counts as slots only: between a slot after it and itself there
\* is one sample less.
LEMMA SampleAfter ==
    ASSUME NEW l \in AnyLine, NEW s \in SignatureSlots(l), NEW b \in Nat, s < b,
           \A t \in SignatureSlots(l) : ~ (s < t /\ t < b)
    PROVE  Number(l, b) - Number(l, s) = b - s - 1
<1>1. s \in Nat
  BY NumberTypes
<1>2. Number(l, s + 1) = Number(l, s)
  <2>1. Number(l, s + 1) = Number(l, s) + 0 /\ Number(l, s) \in Nat
    BY <1>1, NumberNext, NumberTypes
  <2> QED
    BY <2>1
<1>3. s + 1 \in Nat /\ s + 1 <= b
  BY <1>1
<1>4. ASSUME NEW t \in SignatureSlots(l) PROVE ~ (s + 1 <= t /\ t < b)
  <2>1. t \in Nat
    BY NumberTypes
  <2> QED
    BY <1>1, <2>1
<1>5. Number(l, b) - Number(l, s + 1) = b - (s + 1)
  BY <1>3, <1>4, NumbersGrow
<1> QED
  BY <1>1, <1>2, <1>5

-----------------------------------------------------------------------------
\* The samples of a quad in the slots [from, to).
Piece(l, q, from, to) ==
    [i \in 1 .. Number(l, to) - Number(l, from) |-> Sample(q, Number(l, from) + i - 1)]

\* They are rows.
LEMMA PieceTypes ==
    ASSUME NEW l \in AnyLine, NEW q \in Quads, NEW from \in Nat, NEW to \in Nat, from <= to
    PROVE  /\ Piece(l, q, from, to) \in Seq(Rows)
           /\ Len(Piece(l, q, from, to)) = Number(l, to) - Number(l, from)
           /\ Len(Piece(l, q, from, to)) \in Nat
           /\ \A i \in 1 .. Number(l, to) - Number(l, from) :
                Piece(l, q, from, to)[i] = Sample(q, Number(l, from) + i - 1)
<1> DEFINE n == Number(l, to) - Number(l, from)
           p == Piece(l, q, from, to)
<1>1. Number(l, from) \in Nat /\ n \in Nat
  BY NumbersGrow
<1>2. \A i \in 1 .. n : p[i] = Sample(q, Number(l, from) + i - 1)
  BY DEF Piece
<1>3. ASSUME NEW i \in 1 .. n PROVE Sample(q, Number(l, from) + i - 1) \in Rows
  <2> HIDE DEF n
  <2>1. Number(l, from) + i - 1 \in Nat
    BY <1>1
  <2> HIDE DEF n, p
  <2> QED
    BY <2>1 DEF Sample, Rows
<1>4. p \in [1 .. n -> Rows]
  BY <1>3 DEF Piece
<1> HIDE DEF n, p
<1>5. p \in Seq(Rows)
  BY <1>1, <1>4, SeqDef
<1>6. Len(p) = n
  BY <1>1, <1>4, <1>5, LenProperties
<1> QED
  BY <1>1, <1>2, <1>5, <1>6 DEF n, p

\* A slot more is a sample more, unless it is a signature.
LEMMA PieceNext ==
    ASSUME NEW l \in AnyLine, NEW q \in Quads, NEW from \in Nat, NEW to \in Nat, from <= to
    PROVE  Piece(l, q, from, to + 1) =
                IF to \in SignatureSlots(l) THEN Piece(l, q, from, to)
                ELSE Append(Piece(l, q, from, to), Sample(q, Number(l, to)))
<1>1. CASE to \in SignatureSlots(l)
  <2>1. Number(l, to + 1) = Number(l, to) + 0 /\ Number(l, to) \in Nat
    BY <1>1, NumberNext, NumberTypes
  <2>2. Number(l, to + 1) = Number(l, to)
    BY <2>1
  <2> QED
    BY <1>1, <2>2, Zenon DEF Piece
<1>2. CASE to \notin SignatureSlots(l)
  <2> DEFINE p == Piece(l, q, from, to)
             r == Piece(l, q, from, to + 1)
             x == Sample(q, Number(l, to))
             n == Number(l, to) - Number(l, from)
  <2>1. Number(l, to + 1) = Number(l, to) + 1
    BY <1>2, NumberNext
  <2>2. Number(l, from) \in Nat /\ Number(l, to) \in Nat /\ n \in Nat
    BY NumbersGrow
  <2>3. Number(l, to + 1) - Number(l, from) = n + 1
    BY <2>1, <2>2
  <2>4. p \in Seq(Rows) /\ Len(p) = n /\ \A i \in 1 .. n : p[i] = Sample(q, Number(l, from) + i - 1)
    BY PieceTypes
  <2>5. /\ r \in Seq(Rows) /\ Len(r) = n + 1
        /\ \A i \in 1 .. n + 1 : r[i] = Sample(q, Number(l, from) + i - 1)
    <3>1. to + 1 \in Nat /\ from <= to + 1
      OBVIOUS
    <3> DEFINE k == Number(l, to + 1) - Number(l, from)
    <3>2. /\ r \in Seq(Rows) /\ Len(r) = k
          /\ \A i \in 1 .. k : r[i] = Sample(q, Number(l, from) + i - 1)
      BY <3>1, PieceTypes, Zenon
    <3>3. k = n + 1
      BY <2>3
    <3> HIDE DEF k, n, r
    <3> QED
      BY <3>2, <3>3, Zenon
  <2>6. x \in Rows
    BY <2>2 DEF Sample, Rows
  <2>7. Number(l, from) + (n + 1) - 1 = Number(l, to)
    BY <2>2
  <2> HIDE DEF p, r, x
  <2>8. /\ Append(p, x) \in Seq(Rows) /\ Len(Append(p, x)) = n + 1
        /\ \A i \in 1 .. n : Append(p, x)[i] = p[i]
        /\ Append(p, x)[n + 1] = x
    BY <2>4, <2>6, AppendProperties
  <2>9. ASSUME NEW i \in 1 .. n + 1 PROVE r[i] = Append(p, x)[i]
    <3>1. CASE i = n + 1
      <4>1. r[n + 1] = Sample(q, Number(l, from) + (n + 1) - 1)
        <5> HIDE DEF n
        <5>1. n + 1 \in 1 .. n + 1
          BY <2>2
        <5> QED
          BY <2>5, <5>1, Zenon
      <4>2. r[n + 1] = x
        BY <4>1, <2>7, Zenon DEF x
      <4> QED
        BY <2>8, <3>1, <4>2, Zenon
    <3>2. CASE i # n + 1
      <4> HIDE DEF n
      <4>1. i \in 1 .. n
        BY <2>2, <3>2
      <4> QED
        BY <2>4, <2>5, <2>8, <4>1, Zenon
    <3> QED
      BY <3>1, <3>2
  <2>10. r = Append(p, x)
    <3> HIDE DEF n
    <3> QED
      BY <2>5, <2>8, <2>9, SeqEqual
  <2> QED
    BY <1>2, <2>10, Zenon DEF p, r, x
<1> QED
  BY <1>1, <1>2

\* The cursors of the signatures in the slots [from, to), of which the first
\* has cursor base.
Between(l, from, to) == { s \in SignatureSlots(l) : from <= s /\ s < to }
CursorAt(l, base, from, s) == base + (Number(l, s) - Number(l, from))
CursorsOf(l, base, from, to) == { CursorAt(l, base, from, s) : s \in Between(l, from, to) }

Ascending(es) == \A j, k \in DOMAIN es : j < k => es[j] < es[k]
ElementsOf(es) == { es[k] : k \in DOMAIN es }

\* A signature more is a cursor, none is beyond it, and a sample is none.
LEMMA CursorsNext ==
    ASSUME NEW l \in AnyLine, NEW base \in Nat, NEW from \in Nat, NEW to \in Nat, from <= to
    PROVE  /\ \A v : v \in CursorsOf(l, base, from, to + 1) <=>
                        \/ v \in CursorsOf(l, base, from, to)
                        \/ to \in SignatureSlots(l) /\ v = CursorAt(l, base, from, to)
           /\ CursorAt(l, base, from, to) \in Nat
           /\ \A v \in CursorsOf(l, base, from, to) :
                    v \in Nat /\ v <= CursorAt(l, base, from, to)
<1> DEFINE Cursor(s) == CursorAt(l, base, from, s)
           u == Cursor(to)
           Among(s, end) == s \in SignatureSlots(l) /\ from <= s /\ s < end
<1>1. SignatureSlots(l) \subseteq Nat
  BY NumberTypes
<1>2. \A v, end : v \in CursorsOf(l, base, from, end) <=> \E s : Among(s, end) /\ v = Cursor(s)
  BY DEF CursorsOf, Between
<1>3. ASSUME NEW s PROVE Among(s, to + 1) <=> Among(s, to) \/ (to \in SignatureSlots(l) /\ s = to)
  <2>1. CASE s \in SignatureSlots(l)
    <3>1. s \in Nat
      BY <1>1, <2>1
    <3> QED
      BY <3>1
  <2>2. CASE s \notin SignatureSlots(l)
    BY <2>2
  <2> QED
    BY <2>1, <2>2
<1>4. u \in Nat /\ Number(l, from) \in Nat /\ Number(l, to) \in Nat
  <2>1. Number(l, from) \in Nat /\ Number(l, to) \in Nat /\ Number(l, from) <= Number(l, to)
    BY NumbersGrow
  <2> QED
    BY <2>1 DEF CursorAt
<1>5. ASSUME NEW v \in CursorsOf(l, base, from, to) PROVE v \in Nat /\ v <= u
  <2>1. PICK s : Among(s, to) /\ v = Cursor(s)
    BY <1>2, Zenon
  <2>2. s \in Nat /\ from <= s /\ s <= to
    BY <1>1, <2>1
  <2>3. /\ Number(l, s) \in Nat /\ Number(l, from) <= Number(l, s)
        /\ Number(l, s) <= Number(l, to)
    BY <2>2, NumbersGrow
  <2> QED
    BY <1>4, <2>1, <2>3 DEF CursorAt
<1> HIDE DEF Among
<1>6. ASSUME NEW v
      PROVE  v \in CursorsOf(l, base, from, to + 1) <=>
                v \in CursorsOf(l, base, from, to) \/ (to \in SignatureSlots(l) /\ v = u)
  <2>1. v \in CursorsOf(l, base, from, to + 1) <=> \E s : Among(s, to + 1) /\ v = Cursor(s)
    BY <1>2, Zenon
  <2>2. v \in CursorsOf(l, base, from, to) <=> \E s : Among(s, to) /\ v = Cursor(s)
    BY <1>2, Zenon
  <2> QED
    BY <1>3, <2>1, <2>2, Zenon
<1> QED
  BY <1>4, <1>5, <1>6, Zenon

-----------------------------------------------------------------------------
\* What consume() makes of a block.

\* Row x of a quad in a block is of slot x, and of that quad.
LEMMA RowContent ==
    ASSUME NEW l \in AnyLine, NEW b \in 0 .. 2,
           NEW c \in Nat, NEW i \in 1 .. NQuads, NEW j \in 0 .. FIFOSAM, j < FIFOSAM,
           c * FIFOSAM + j < TBLOCK_LEN
    PROVE  LET s == b * TBLOCK_LEN + (c * FIFOSAM + j)
           IN  BlockRow(l, b, At(c, i, j)) =
                IF s \in SignatureSlots(l) THEN Signature(scanlist[i], Number(l, s))
                ELSE Sample(scanlist[i], Number(l, s))
<1> DEFINE m == At(c, i, j)
           x == c * FIFOSAM + j
           s == b * TBLOCK_LEN + x
           y == (m \div (FIFOSAM * NQuads)) * FIFOSAM
           z == m % FIFOSAM
           q == scanlist[((m \div FIFOSAM) % NQuads) + 1]
           slot == b * TBLOCK_LEN + y + z
<1>1. NQuads \in Nat \ {0} /\ FIFOSAM \in Nat \ {0} /\ FIFOSAM * NQuads \in Nat \ {0}
  BY Counts
<1>2. m \in Nat /\ y + z = x /\ m \in 0 .. TBLOCK_LEN * NQuads - 1
  BY TurnSlot
<1>3. slot = s
  <2>1. m \div (FIFOSAM * NQuads) \in Nat /\ z \in Nat
    BY <1>1, <1>2
  <2>2. y \in Nat
    BY <1>1, <2>1
  <2>3. b * TBLOCK_LEN \in Nat
    BY WorkerAssumption
  <2> HIDE DEF m, x, y, z
  <2> QED
    BY <1>2, <2>1, <2>2, <2>3
<1>4. q = scanlist[i]
  <2> DEFINE u == c * NQuads + (i - 1)
  <2>1. i - 1 \in 0 .. NQuads /\ i - 1 < NQuads
    BY <1>1
  <2>2. u % NQuads = i - 1 /\ u \in Nat
    BY <1>1, <2>1, Quotient
  <2>3. c * NQuads \in Int
    BY <1>1
  <2>4. c * NQuads + i - 1 = u
    BY <2>1, <2>3
  <2>5. m = u * FIFOSAM + j
    BY <2>4, Zenon DEF At
  <2> HIDE DEF u, m
  <2>6. m \div FIFOSAM = u
    BY <1>1, <2>2, <2>5, Quotient
  <2>7. (i - 1) + 1 = i
    OBVIOUS
  <2> QED
    BY <2>2, <2>6, <2>7, Zenon
<1>5. BlockRow(l, b, m) = IF m \notin 0 .. TBLOCK_LEN * NQuads - 1 THEN Stray
                          ELSE IF slot \in SignatureSlots(l) THEN Signature(q, Number(l, slot))
                          ELSE Sample(q, Number(l, slot))
  BY Zenon DEF BlockRow
<1> HIDE DEF q, slot, m, x, s
<1>6. BlockRow(l, b, m) = IF s \in SignatureSlots(l) THEN Signature(scanlist[i], Number(l, s))
                          ELSE Sample(scanlist[i], Number(l, s))
  BY <1>2, <1>3, <1>4, <1>5, Zenon
<1> QED
  BY <1>6, Zenon DEF m, s, x

-----------------------------------------------------------------------------
\* What a quad holds after the slots [from, to) of a block have been added to
\* what it held before.
Made(l, q, dq0, from, to, stash_es) ==
    { dq \in DQuads(Rows) :
        /\ dq.data = dq0.data \o Piece(l, q, from, to)
        /\ IF stash_es
           THEN /\ Ascending(dq.es)
                /\ ElementsOf(dq.es) = CursorsOf(l, Len(dq0.data), from, to)
           ELSE dq.es = dq0.es }

\* A quad holds that.
LEMMA IsMade ==
    ASSUME NEW l, NEW q, NEW dq0, NEW from, NEW to, NEW stash_es \in BOOLEAN,
           NEW dq \in DQuads(Rows), dq.data = dq0.data \o Piece(l, q, from, to),
           stash_es => /\ Ascending(dq.es)
                       /\ ElementsOf(dq.es) = CursorsOf(l, Len(dq0.data), from, to),
           ~ stash_es => dq.es = dq0.es
    PROVE  dq \in Made(l, q, dq0, from, to, stash_es)
<1>1. CASE stash_es
  BY <1>1, Zenon DEF Made
<1>2. CASE ~ stash_es
  BY <1>2, Zenon DEF Made
<1> QED
  BY <1>1, <1>2

\* Nothing is added at first.
LEMMA MadeFirst ==
    ASSUME NEW l \in AnyLine, NEW q \in Quads, NEW dq0 \in DQuads(Rows), NEW from \in Nat,
           NEW stash_es \in BOOLEAN, stash_es => dq0.es = <<>>
    PROVE  dq0 \in Made(l, q, dq0, from, from, stash_es)
<1>1. dq0.data \in Seq(Rows)
  BY DEF DQuads
<1>2. Piece(l, q, from, from) = <<>>
  <2>1. from <= from
    OBVIOUS
  <2>2. Number(l, from) - Number(l, from) = 0
    BY NumberTypes
  <2>3. Piece(l, q, from, from) \in Seq(Rows) /\ Len(Piece(l, q, from, from)) = 0
    BY <2>1, <2>2, PieceTypes
  <2> QED
    BY <2>3, EmptySeq
<1>3. dq0.data = dq0.data \o Piece(l, q, from, from)
  BY <1>1, <1>2, ConcatEmptySeq
<1>4. CursorsOf(l, Len(dq0.data), from, from) = {}
  <2>1. \A s \in SignatureSlots(l) : ~ (from <= s /\ s < from)
    BY NumberTypes
  <2> QED
    BY <2>1 DEF CursorsOf, Between
<1>5. ASSUME stash_es PROVE Ascending(dq0.es) /\ ElementsOf(dq0.es) = {}
  BY <1>5 DEF Ascending, ElementsOf
<1> QED
  BY <1>3, <1>4, <1>5, Zenon DEF Made

\* Cursors of which the last is the greatest, and one more.
LEMMA AscendingNext ==
    ASSUME NEW es \in Seq(Nat), Ascending(es), NEW u \in Nat, \A v \in ElementsOf(es) : v <= u
    PROVE  /\ es # <<>> => Last(es) \in ElementsOf(es)
           /\ es = <<>> \/ Last(es) # u =>
                /\ Ascending(Append(es, u))
                /\ \A v : v \in ElementsOf(Append(es, u)) <=> v \in ElementsOf(es) \/ v = u
<1> DEFINE n == Len(es)
           then == Append(es, u)
<1>1. n \in Nat /\ DOMAIN es = 1 .. n /\ \A k \in 1 .. n : es[k] \in Nat
  BY LenProperties, ElementOfSeq
<1>2. /\ then \in Seq(Nat) /\ Len(then) = n + 1 /\ then[n + 1] = u
      /\ \A k \in 1 .. n : then[k] = es[k]
  BY AppendProperties
<1>3. DOMAIN then = 1 .. n + 1
  BY <1>2, LenProperties
<1>4. \A k \in 1 .. n : es[k] \in ElementsOf(es)
  BY <1>1 DEF ElementsOf
<1>5. ASSUME es # <<>> PROVE n \in 1 .. n /\ Last(es) = es[n]
  <2>1. n # 0
    BY <1>5, EmptySeq
  <2> QED
    BY <1>1, <2>1 DEF Last
<1>6. \A j, k \in 1 .. n : j < k => es[j] < es[k]
  BY <1>1 DEF Ascending
<1> HIDE DEF n, then
<1>7. ASSUME NEW v PROVE v \in ElementsOf(then) <=> v \in ElementsOf(es) \/ v = u
  <2>1. v \in ElementsOf(then) <=> \E k \in 1 .. n + 1 : v = then[k]
    BY <1>3 DEF ElementsOf
  <2>2. v \in ElementsOf(es) <=> \E k \in 1 .. n : v = es[k]
    BY <1>1 DEF ElementsOf
  <2>3. 1 .. n + 1 = (1 .. n) \cup {n + 1}
    BY <1>1
  <2>4. (\E k \in 1 .. n + 1 : v = then[k]) <=> (\E k \in 1 .. n : v = then[k]) \/ v = then[n + 1]
    BY <2>3
  <2> QED
    BY <1>2, <2>1, <2>2, <2>4, Zenon
<1>8. ASSUME es = <<>> \/ Last(es) # u PROVE Ascending(then)
  <2> SUFFICES ASSUME NEW j \in 1 .. n + 1, NEW k \in 1 .. n + 1, j < k PROVE then[j] < then[k]
    BY <1>3 DEF Ascending
  <2>1. j \in 1 .. n
    BY <1>1
  <2>2. CASE k = n + 1
    <3>1. es # <<>>
      <4> SUFFICES ASSUME es = <<>> PROVE FALSE
        OBVIOUS
      <4>1. n = 0
        BY EmptySeq DEF n
      <4> QED
        BY <2>1, <4>1
    <3>2. es[n] # u /\ n \in 1 .. n
      BY <1>5, <1>8, <3>1
    <3>3. es[n] <= u /\ es[n] \in Nat /\ es[j] \in Nat
      BY <1>1, <1>4, <2>1, <3>2
    <3>4. es[n] < u
      BY <3>2, <3>3
    <3>5. es[j] <= es[n]
      <4>1. CASE j = n
        BY <3>3, <4>1
      <4>2. CASE j # n
        <5>1. j < n
          BY <1>1, <2>1, <4>2
        <5> QED
          BY <1>6, <2>1, <3>2, <3>3, <5>1
      <4> QED
        BY <4>1, <4>2
    <3>6. es[j] < u
      BY <3>3, <3>4, <3>5
    <3> QED
      BY <1>2, <2>1, <2>2, <3>6
  <2>3. CASE k # n + 1
    <3>1. k \in 1 .. n
      BY <1>1, <2>3
    <3> QED
      BY <1>2, <1>6, <2>1, <3>1
  <2> QED
    BY <2>2, <2>3
<1> QED
  BY <1>4, <1>5, <1>7, <1>8, Zenon DEF then

\* To append to the second part is to append to the whole.
LEMMA ConcatAppend ==
    \A R : \A s, t \in Seq(R), r \in R : s \o Append(t, r) = Append(s \o t, r)
<1> SUFFICES ASSUME NEW R, NEW s \in Seq(R), NEW t \in Seq(R), NEW r \in R
             PROVE  s \o Append(t, r) = Append(s \o t, r)
  OBVIOUS
<1>1. s \o t \in Seq(R)
  BY ConcatProperties
<1>2. Append(s \o t, r) = (s \o t) \o <<r>> /\ Append(t, r) = t \o <<r>>
  BY <1>1, AppendIsConcat
<1>3. <<r>> \in Seq(R)
  OBVIOUS
<1>4. (s \o t) \o <<r>> = s \o (t \o <<r>>)
  BY <1>3, ConcatAssociative
<1> QED
  BY <1>2, <1>4, Zenon

\* consume() and addES() with the row of the next slot.
LEMMA ConsumeMakes ==
    ASSUME NEW l \in AnyLine, NEW q \in Quads, NEW dq0 \in DQuads(Rows),
           NEW from \in Nat, NEW to \in Nat, from <= to, NEW stash_es \in BOOLEAN,
           NEW dq \in Made(l, q, dq0, from, to, stash_es)
    PROVE  Consume(dq, IF to \in SignatureSlots(l) THEN Signature(q, Number(l, to))
                       ELSE Sample(q, Number(l, to)), stash_es)
                \in Made(l, q, dq0, from, to + 1, stash_es)
<1> DEFINE flag == to \in SignatureSlots(l)
           row == IF flag THEN Signature(q, Number(l, to)) ELSE Sample(q, Number(l, to))
           p == Piece(l, q, from, to)
           then == Consume(dq, row, stash_es)
           base == Len(dq0.data)
           u == CursorAt(l, base, from, to)
           C == CursorsOf(l, base, from, to)
<1>1. /\ dq \in DQuads(Rows) /\ dq.data = dq0.data \o p
      /\ stash_es => Ascending(dq.es) /\ ElementsOf(dq.es) = C
      /\ ~ stash_es => dq.es = dq0.es
  BY Zenon DEF Made
<1>2. Number(l, to) \in Nat
  BY NumberTypes
<1>3. row \in Rows /\ (flag => row.es) /\ (~ flag => ~ row.es)
  <2>1. /\ Signature(q, Number(l, to)) \in Rows /\ Sample(q, Number(l, to)) \in Rows
        /\ Signature(q, Number(l, to)).es /\ ~ Sample(q, Number(l, to)).es
    BY <1>2 DEF Signature, Sample, Rows
  <2>2. CASE flag
    BY <2>1, <2>2, Zenon
  <2>3. CASE ~ flag
    BY <2>1, <2>3, Zenon
  <2> QED
    BY <2>2, <2>3
<1> SUFFICES then \in Made(l, q, dq0, from, to + 1, stash_es)
  OBVIOUS
<1>4. then \in DQuads(Rows)
  <2> HIDE DEF row
  <2> QED
    BY <1>1, <1>3, ConsumeTypes
<1>5. dq0.data \in Seq(Rows) /\ dq.data \in Seq(Rows) /\ dq.es \in Seq(Nat) /\ base \in Nat
  <2>1. dq0.data \in Seq(Rows) /\ dq.data \in Seq(Rows) /\ dq.es \in Seq(Nat)
    BY <1>1 DEF DQuads
  <2> QED
    BY <2>1, LenProperties
<1>6. p \in Seq(Rows) /\ Len(p) = Number(l, to) - Number(l, from) /\ Len(p) \in Nat
  BY PieceTypes
<1> HIDE DEF base
<1>7. Len(dq.data) = u
  <2>1. Len(dq.data) = Len(dq0.data) + Len(p)
    BY <1>1, <1>5, <1>6, ConcatProperties
  <2> QED
    BY <1>6, <2>1, Zenon DEF base, CursorAt
<1> DEFINE C1 == CursorsOf(l, base, from, to + 1)
<1>8. /\ \A v : v \in C1 <=> v \in C \/ (flag /\ v = u)
      /\ u \in Nat /\ \A v \in C : v <= u
  <2>1. base \in Nat
    BY <1>5, Zenon
  <2> QED
    BY <2>1, CursorsNext, Zenon
<1>9. Piece(l, q, from, to + 1) = IF flag THEN p ELSE Append(p, Sample(q, Number(l, to)))
  BY PieceNext
<1> DEFINE sample == [dq EXCEPT !.data = Append(@, row)]
           signature == [dq EXCEPT !.es = Append(@, Len(dq.data)), !.sig = Append(@, row)]
<1>10. sample.data = Append(dq.data, row) /\ sample.es = dq.es
  BY <1>1 DEF DQuads
<1>11. signature.data = dq.data /\ signature.es = Append(dq.es, Len(dq.data))
  BY <1>1 DEF DQuads
<1> HIDE DEF p, u, C, C1, sample, signature
<1>12. CASE ~ flag
  <2>1. then = sample
    BY <1>3, <1>12, Zenon DEF Consume, sample
  <2>2. row = Sample(q, Number(l, to))
    BY <1>12, Zenon
  <2> HIDE DEF row, then
  <2> DEFINE a == dq0.data
  <2>3. a \o Append(p, row) = Append(a \o p, row)
    <3>1. a \in Seq(Rows) /\ p \in Seq(Rows) /\ row \in Rows
      BY <1>3, <1>5, <1>6, Zenon
    <3> HIDE DEF a
    <3> QED
      BY <3>1, ConcatAppend
  <2>4. then.data = dq0.data \o Piece(l, q, from, to + 1)
    BY <1>1, <1>9, <1>10, <1>12, <2>1, <2>2, <2>3, Zenon
  <2>5. then.es = dq.es
    BY <1>10, <2>1, Zenon
  <2>6. stash_es => Ascending(then.es) /\ ElementsOf(then.es) = C1
    <3>1. C1 = C
      BY <1>8, <1>12
    <3> QED
      BY <1>1, <2>5, <3>1, Zenon
  <2> QED
    BY <1>1, <1>4, <2>4, <2>5, <2>6, IsMade, Zenon DEF base, C1
<1>13. CASE flag /\ stash_es /\ (dq.es = <<>> \/ Last(dq.es) # Len(dq.data))
  <2>1. then = signature
    BY <1>3, <1>13, Zenon DEF Consume, signature
  <2> HIDE DEF row, then
  <2>2. then.data = dq0.data \o Piece(l, q, from, to + 1)
    BY <1>1, <1>9, <1>11, <1>13, <2>1, Zenon
  <2>3. then.es = Append(dq.es, u)
    BY <1>7, <1>11, <2>1, Zenon
  <2>4. dq.es = <<>> \/ Last(dq.es) # u
    BY <1>7, <1>13, Zenon
  <2>5. /\ Ascending(Append(dq.es, u))
        /\ \A v : v \in ElementsOf(Append(dq.es, u)) <=> v \in ElementsOf(dq.es) \/ v = u
    BY <1>1, <1>5, <1>8, <1>13, <2>4, AscendingNext, Zenon
  <2>6. ElementsOf(then.es) = C1
    <3>1. \A v : v \in ElementsOf(then.es) <=> v \in C1
      BY <1>1, <1>8, <1>13, <2>3, <2>5, Zenon
    <3> QED
      BY <3>1
  <2> QED
    BY <1>4, <1>13, <2>2, <2>3, <2>5, <2>6, IsMade, Zenon DEF base, C1
<1>14. CASE flag /\ ~ (stash_es /\ (dq.es = <<>> \/ Last(dq.es) # Len(dq.data)))
  <2>1. then = dq
    BY <1>3, <1>14, Zenon DEF Consume
  <2> HIDE DEF row, then
  <2>2. then.data = dq0.data \o Piece(l, q, from, to + 1)
    BY <1>1, <1>9, <1>14, <2>1, Zenon
  <2>3. ASSUME stash_es PROVE C1 = C
    <3>1. dq.es # <<>> /\ Last(dq.es) = u
      BY <1>7, <1>14, <2>3, Zenon
    <3>2. Last(dq.es) \in ElementsOf(dq.es)
      BY <1>1, <1>5, <1>8, <2>3, <3>1, AscendingNext, Zenon
    <3>3. u \in C
      BY <1>1, <2>3, <3>1, <3>2, Zenon
    <3>4. \A v : v \in C1 <=> v \in C
      BY <1>8, <3>3, Zenon
    <3> QED
      BY <3>4
  <2>4. stash_es => Ascending(then.es) /\ ElementsOf(then.es) = C1
    BY <1>1, <2>1, <2>3, Zenon
  <2>5. ~ stash_es => then.es = dq0.es
    BY <1>1, <2>1, Zenon
  <2> QED
    BY <1>4, <2>2, <2>4, <2>5, IsMade, Zenon DEF base, C1
<1> QED
  BY <1>12, <1>13, <1>14, Zenon

\* With room for post in a block, what is read of a block is inside it.
LEMMA CutInside ==
    ASSUME set \in Settings, PostFits, NEW l \in AnyLine, NEW b \in 0 .. 2
    PROVE  /\ BlockCut(l, b).from \in Nat /\ BlockCut(l, b).len \in Nat
           /\ BlockCut(l, b).from + BlockCut(l, b).len <= TBLOCK_LEN
<1>1. CutInTurns(BlockCut(l, b))
  BY BlockCutInTurns
<1>2. BlockCut(l, b).from \in Nat /\ BlockCut(l, b).len \in Nat
  <2>1. ASSUME NEW n, Turns(n) PROVE n \in Nat
    BY <2>1, Counts DEF Turns
  <2> QED
    BY <1>1, <2>1, Zenon DEF CutInTurns
<1>3. TBLOCK_LEN \in Nat /\ ACQ132_BLOCKLEN \in Nat
  BY UnitLength, WorkerAssumption
<1>4. round_up(set.pre) \in Nat /\ round_up(set.post) \in Nat
  <2>1. Units(round_up(set.pre)) /\ Units(round_up(set.post))
    BY SettingTypes, Rounded
  <2> QED
    BY <2>1, UnitsSum
<1>5. CASE b = 0
  <2>1. BlockCut(l, b).from = TBLOCK_LEN - round_up(set.pre) /\ BlockCut(l, b).len = round_up(set.pre)
    BY <1>5 DEF BlockCut, LeftCut, Cut
  <2> QED
    BY <1>2, <1>3, <1>4, <2>1
<1>6. CASE b = 2
  <2>1. BlockCut(l, b).from = 0 /\ BlockCut(l, b).len = round_up(set.post)
    BY <1>6 DEF BlockCut, RightCut, Cut
  <2> QED
    BY <1>2, <1>3, <1>4, <2>1 DEF PostFits
<1>7. CASE b = 1
  <2> DEFINE high == TBLOCK_LEN - (round_up(set.post) + ACQ132_BLOCKLEN)
             last == round_up(esoff2(l))
             cut == IF high < 0 \/ last < high THEN high - last ELSE 0
  <2>1. BlockCut(l, b) = MiddleCut(l)
    BY <1>7 DEF BlockCut
  <2>2. MiddleCut(l).len = TBLOCK_LEN - MiddleCut(l).from - cut
    BY DEF MiddleCut, Cut
  <2>3. ~ (high < 0)
    BY <1>3, <1>4 DEF PostFits
  <2>4. last \in Nat
    <3>1. esoff2(l) \in Nat
      BY LineTypes
    <3> QED
      BY <3>1, Rounded, UnitsSum
  <2>5. high \in Int
    BY <1>3, <1>4
  <2> HIDE DEF high, last
  <2>6. cut \in Nat
    BY <2>3, <2>4, <2>5
  <2> HIDE DEF cut
  <2> QED
    BY <1>2, <1>3, <2>1, <2>2, <2>6
<1>8. b = 0 \/ b = 1 \/ b = 2
  OBVIOUS
<1> QED
  BY <1>2, <1>5, <1>6, <1>7, <1>8

\* The slots that are read of a block.
CutStart(l, b) == b * TBLOCK_LEN + BlockCut(l, b).from
CutStop(l, b) == CutStart(l, b) + BlockCut(l, b).len

\* processAction() adds the slots that it reads of a block to each quad.
LEMMA BlockMade ==
    ASSUME set \in Settings, PostFits, NEW l \in AnyLine, NEW b \in 0 .. 2,
           NEW d \in Models(Rows),
           BlockCut(l, b).stash_es => \A q \in Quads : d[q].es = <<>>
    PROVE  LET cut == BlockCut(l, b)
               memory == [m \in Nat |-> BlockRow(l, b, m)]
               then == process(memory, cut.from * NQuads, cut.len * NQuads,
                               d, Unlimited, cut.stash_es)
           IN  \A q \in Quads :
                    then[q] \in Made(l, q, d[q], CutStart(l, b), CutStop(l, b), cut.stash_es)
<1> DEFINE from == BlockCut(l, b).from
           len == BlockCut(l, b).len
           stash_es == BlockCut(l, b).stash_es
           start == CutStart(l, b)
           rows == [m \in Nat |-> BlockRow(l, b, m)]
           S == [p \in (1 .. NQuads) \X Nat |->
                    Made(l, scanlist[p[1]], d[scanlist[p[1]]], start, start + p[2], stash_es)]
<1>1. CutInTurns(BlockCut(l, b))
  BY BlockCutInTurns
<1>2. PICK k \in Nat : from = k * FIFOSAM
  BY <1>1 DEF CutInTurns, Turns
<1>3. PICK n \in Nat : len = n * FIFOSAM
  BY <1>1 DEF CutInTurns, Turns
<1>4. stash_es \in BOOLEAN /\ (len = 0 => ~ stash_es)
  BY <1>1, Zenon DEF CutInTurns
<1>5. from \in Nat /\ len \in Nat /\ from + len <= TBLOCK_LEN
  BY CutInside, Zenon
<1>6. start = b * TBLOCK_LEN + from /\ CutStop(l, b) = start + len
  BY Zenon DEF CutStart, CutStop
<1>7. stash_es => \A q \in Quads : d[q].es = <<>>
  BY Zenon
<1> HIDE DEF from, len, stash_es, start
<1>8. NQuads \in Nat \ {0} /\ FIFOSAM \in Nat \ {0} /\ TBLOCK_LEN \in Nat /\ b * TBLOCK_LEN \in Nat
  BY Counts, WorkerAssumption
<1>9. start \in Nat
  BY <1>5, <1>6, <1>8
<1>10. from * NQuads = (k * NQuads) * FIFOSAM /\ len * NQuads = (n * NQuads) * FIFOSAM
  BY <1>2, <1>3, <1>8
<1>11. n = 0 => ~ stash_es
  <2>1. n = 0 => len = 0
    BY <1>3, <1>8
  <2> QED
    BY <1>4, <2>1
<1>12. \A m \in Nat : rows[m] \in Rows
  BY RowTypes
<1>13. \A r \in Rows : r.es \in BOOLEAN
  BY DEF Rows
<1>14. \A i \in 1 .. NQuads : scanlist[i] \in Quads
  BY Counts
<1>15. \A q \in Quads : d[q] \in DQuads(Rows)
  BY DEF Models
<1>16. ASSUME NEW i \in 1 .. NQuads, NEW x \in Nat
       PROVE  S[<<i, x>>] = Made(l, scanlist[i], d[scanlist[i]], start, start + x, stash_es)
  BY <1>16
<1> HIDE DEF S, rows
<1>17. Begins(S, d)
  <2> SUFFICES ASSUME NEW i \in 1 .. NQuads PROVE d[scanlist[i]] \in S[<<i, 0>>]
    BY Zenon DEF Begins
  <2>1. S[<<i, 0>>] = Made(l, scanlist[i], d[scanlist[i]], start, start + 0, stash_es)
    BY <1>16
  <2>2. start + 0 = start
    BY <1>9
  <2> DEFINE q == scanlist[i]
  <2>3. q \in Quads /\ d[q] \in DQuads(Rows) /\ (stash_es => d[q].es = <<>>)
    BY <1>7, <1>14, <1>15, Zenon
  <2> HIDE DEF q
  <2>4. d[q] \in Made(l, q, d[q], start, start, stash_es)
    BY <1>4, <1>9, <2>3, MadeFirst, Zenon
  <2> QED
    BY <2>1, <2>2, <2>4, Zenon DEF q
<1>18. ASSUME NEW c \in Nat, NEW i \in 1 .. NQuads, NEW j \in 0 .. FIFOSAM, j < FIFOSAM, c < n,
              NEW dq \in DQuads(Rows), dq \in S[<<i, c * FIFOSAM + j>>]
       PROVE  Consume(dq, rows[At(k + c, i, j)], stash_es) \in S[<<i, c * FIFOSAM + (j + 1)>>]
  <2> DEFINE q == scanlist[i]
             x == c * FIFOSAM + j
             to == start + x
  <2>1. x \in 0 .. n * FIFOSAM /\ x + 1 \in 1 .. n * FIFOSAM /\ x + 1 = c * FIFOSAM + (j + 1)
    BY <1>18, RowOfScan
  <2>2. /\ S[<<i, x>>] = Made(l, q, d[q], start, to, stash_es)
        /\ S[<<i, x + 1>>] = Made(l, q, d[q], start, start + (x + 1), stash_es)
    <3>1. x \in Nat /\ x + 1 \in Nat
      <4> HIDE DEF x
      <4> QED
        BY <2>1
    <3> HIDE DEF x
    <3> QED
      BY <1>16, <3>1, Zenon
  <2>3. (k + c) * FIFOSAM + j = from + x /\ k + c \in Nat
    <3>1. (k + c) * FIFOSAM = k * FIFOSAM + c * FIFOSAM /\ k * FIFOSAM \in Int /\ c * FIFOSAM \in Int
      BY <1>8
    <3> QED
      BY <1>2, <3>1
  <2>4. from + x < TBLOCK_LEN /\ x \in Nat
    <3> HIDE DEF x
    <3>1. x < len /\ x \in Nat
      BY <1>3, <1>5, <2>1
    <3> QED
      BY <1>5, <1>8, <3>1
  <2>5. dq \in Made(l, q, d[q], start, to, stash_es)
    BY <1>18, <2>2, Zenon
  <2> HIDE DEF x
  <2>6. to \in Nat /\ start <= to /\ to + 1 = start + (x + 1) /\ to = b * TBLOCK_LEN + (from + x)
    BY <1>5, <1>6, <1>8, <1>9, <2>4
  <2> HIDE DEF to
  <2>7. rows[At(k + c, i, j)] = BlockRow(l, b, At(k + c, i, j))
    <3>1. At(k + c, i, j) \in Nat
      BY <2>3, AtTypes
    <3> QED
      BY <3>1 DEF rows
  <2>8. BlockRow(l, b, At(k + c, i, j)) =
            IF to \in SignatureSlots(l) THEN Signature(q, Number(l, to)) ELSE Sample(q, Number(l, to))
    <3>1. /\ to = b * TBLOCK_LEN + ((k + c) * FIFOSAM + j)
          /\ (k + c) * FIFOSAM + j < TBLOCK_LEN
      BY <2>3, <2>4, <2>6, Zenon
    <3> DEFINE e == k + c
    <3>2. e \in Nat /\ j < FIFOSAM /\ e * FIFOSAM + j < TBLOCK_LEN
      BY <1>18, <2>3, <3>1, Zenon
    <3> DEFINE slot == b * TBLOCK_LEN + (e * FIFOSAM + j)
    <3>3. to = slot
      BY <3>1, Zenon
    <3> HIDE DEF e
    <3>4. BlockRow(l, b, At(e, i, j)) =
              IF slot \in SignatureSlots(l) THEN Signature(scanlist[i], Number(l, slot))
              ELSE Sample(scanlist[i], Number(l, slot))
      BY <3>2, RowContent
    <3> QED
      BY <3>3, <3>4, Zenon DEF e
  <2>9. q \in Quads /\ d[q] \in DQuads(Rows)
    BY <1>14, <1>15, Zenon
  <2>10. Consume(dq, rows[At(k + c, i, j)], stash_es) \in Made(l, q, d[q], start, to + 1, stash_es)
    BY <1>4, <1>9, <2>5, <2>6, <2>7, <2>8, <2>9, ConsumeMakes, Zenon
  <2> QED
    BY <2>1, <2>2, <2>6, <2>10, Zenon
<1> DEFINE then == process(rows, (k * NQuads) * FIFOSAM, (n * NQuads) * FIFOSAM,
                           d, Unlimited, stash_es)
<1>19. \A i \in 1 .. NQuads : then[scanlist[i]] \in S[<<i, n * FIFOSAM>>]
  BY <1>4, <1>11, <1>12, <1>13, <1>17, <1>18, ProcessScans
<1> HIDE DEF then
<1>20. ASSUME NEW q \in Quads
       PROVE  then[q] \in Made(l, q, d[q], start, CutStop(l, b), stash_es)
  <2>1. PICK i \in 1 .. NQuads : q = scanlist[i]
    BY Counts
  <2>2. S[<<i, n * FIFOSAM>>] = Made(l, q, d[q], start, start + n * FIFOSAM, stash_es)
    <3>1. n * FIFOSAM \in Nat
      BY <1>8
    <3> QED
      BY <1>16, <2>1, <3>1, Zenon
  <2> QED
    BY <1>3, <1>6, <1>19, <2>1, <2>2, Zenon
<1> QED
  BY <1>10, <1>20, Zenon DEF from, len, stash_es, rows, start, then

-----------------------------------------------------------------------------
\* The invariant of a line that is read.

\* What is read of blocks G.
PieceOf(l, q, b, G) == IF b \in G THEN Piece(l, q, CutStart(l, b), CutStop(l, b)) ELSE <<>>
Contents(l, q, G) == (PieceOf(l, q, 0, G) \o PieceOf(l, q, 1, G)) \o PieceOf(l, q, 2, G)

\* And the cursors of the signatures among it.
LeftLen(l, G) == IF 0 \in G THEN Number(l, CutStop(l, 0)) - Number(l, CutStart(l, 0)) ELSE 0
Cursors(l, G) ==
    IF 1 \in G THEN CursorsOf(l, LeftLen(l, G), CutStart(l, 1), CutStop(l, 1)) ELSE {}

done == line.given \ todo

\* The blocks are read in order.
OrderInv ==
    /\ pc # "idle" => todo \subseteq line.given /\ \A b \in done, c \in todo : b < c
    /\ pc \notin {"idle", "load"} => todo = {}
    /\ pc = "idle" => dm = Cleared /\ ~ adjusted
    /\ pc \in {"idle", "load"} \/ Loaded => first_s1 = 0

\* A quad has the samples of what is read of them, and as events the cursors
\* of the signatures in the middle one.
DataInv ==
    pc # "idle" /\ PostFits =>
        \A q \in Quads : /\ dm[q].data = Contents(line, q, done)
                         /\ Ascending(dm[q].es) /\ ElementsOf(dm[q].es) = Cursors(line, done)

\* What pss is by, and whether.
Adjusts == 0 \in done \/ (1 \in done /\ MiddleCut(line).adjusts)
Adjusted == IF 0 \in done THEN LeftCut.by ELSE IF Adjusts THEN MiddleCut(line).by ELSE 0

FirstDumped == cur > 1 \/ (cur = 1 /\ ~ (pc = "dump" /\ quad = 1))
Stamped == pc \in {"format", "announce"} \/ (pc = "dump" /\ quad # 1)

\* What the timebase is made from, and that it is stored.
TimesInv ==
    /\ pc # "idle" /\ ~ line.timed =>
            (adjusted <=> Adjusts) /\ pss = Number(line, TBLOCK_LEN) + Adjusted
    /\ cur > 0 /\ line.timed => msecs_start = msecs_at_esoff
    /\ FirstDumped /\ line.timed => first_s1 = First(getEvents(dm)[1], set.pre)
    /\ CleanDirs /\ Stamped => disk[WorkDir].tb = Timebase(dm[scanlist[1]])

LineInv == OrderInv /\ DataInv /\ TimesInv

-----------------------------------------------------------------------------
\* The slots that are read of a block are of that block.
LEMMA CutSlots ==
    ASSUME set \in Settings, PostFits, NEW l \in AnyLine, NEW b \in 0 .. 2
    PROVE  /\ CutStart(l, b) \in Nat /\ CutStop(l, b) \in Nat /\ CutStart(l, b) <= CutStop(l, b)
           /\ b * TBLOCK_LEN <= CutStart(l, b) /\ CutStop(l, b) <= b * TBLOCK_LEN + TBLOCK_LEN
<1>1. TBLOCK_LEN \in Nat /\ b * TBLOCK_LEN \in Nat
  BY WorkerAssumption
<1>2. /\ BlockCut(l, b).from \in Nat /\ BlockCut(l, b).len \in Nat
      /\ BlockCut(l, b).from + BlockCut(l, b).len <= TBLOCK_LEN
  BY CutInside
<1> DEFINE x == b * TBLOCK_LEN
           f == BlockCut(l, b).from
           n == BlockCut(l, b).len
<1>3. CutStart(l, b) = x + f /\ CutStop(l, b) = (x + f) + n
  BY Zenon DEF CutStart, CutStop
<1>4. x \in Nat /\ f \in Nat /\ n \in Nat /\ f + n <= TBLOCK_LEN
  BY <1>1, <1>2
<1> HIDE DEF x, f, n
<1> DEFINE y == CutStart(l, b)
           z == CutStop(l, b)
<1> HIDE DEF y, z
<1>5. y = x + f /\ z = (x + f) + n
  BY <1>3, Zenon DEF y, z
<1>6. y \in Nat /\ z \in Nat /\ y <= z /\ x <= y /\ z <= x + TBLOCK_LEN
  BY <1>1, <1>4, <1>5
<1> QED
  BY <1>6, Zenon DEF x, y, z

\* What is read of a block is rows.
LEMMA PieceOfTypes ==
    ASSUME set \in Settings, PostFits, NEW l \in AnyLine, NEW q \in Quads, NEW b \in 0 .. 2, NEW G
    PROVE  /\ PieceOf(l, q, b, G) \in Seq(Rows)
           /\ Len(PieceOf(l, q, b, G)) =
                IF b \in G THEN Number(l, CutStop(l, b)) - Number(l, CutStart(l, b)) ELSE 0
<1>1. /\ CutStart(l, b) \in Nat /\ CutStop(l, b) \in Nat /\ CutStart(l, b) <= CutStop(l, b)
  BY CutSlots
<1>2. <<>> \in Seq(Rows) /\ Len(<<>>) = 0
  BY EmptySeq
<1>3. /\ Piece(l, q, CutStart(l, b), CutStop(l, b)) \in Seq(Rows)
      /\ Len(Piece(l, q, CutStart(l, b), CutStop(l, b)))
            = Number(l, CutStop(l, b)) - Number(l, CutStart(l, b))
  BY <1>1, PieceTypes
<1>4. CASE b \in G
  BY <1>3, <1>4, Zenon DEF PieceOf
<1>5. CASE b \notin G
  <2>1. PieceOf(l, q, b, G) = <<>>
    BY <1>5, Zenon DEF PieceOf
  <2> QED
    BY <1>2, <1>5, <2>1
<1> QED
  BY <1>4, <1>5

\* One more block adds what is read of it.
LEMMA ContentsNext ==
    ASSUME set \in Settings, PostFits, NEW l \in AnyLine, NEW q \in Quads,
           NEW G, G \subseteq 0 .. 2, NEW b \in 0 .. 2, \A c \in G : c < b
    PROVE  /\ Contents(l, q, G) \in Seq(Rows)
           /\ Contents(l, q, G \cup {b}) =
                Contents(l, q, G) \o Piece(l, q, CutStart(l, b), CutStop(l, b))
           /\ Cursors(l, G \cup {b}) =
                IF b = 1 THEN CursorsOf(l, Len(Contents(l, q, G)), CutStart(l, b), CutStop(l, b))
                ELSE Cursors(l, G)
           /\ b = 1 => Cursors(l, G) = {}
<1> DEFINE H == G \cup {b}
           P == Piece(l, q, CutStart(l, b), CutStop(l, b))
           p0 == PieceOf(l, q, 0, G)
           p1 == PieceOf(l, q, 1, G)
           p2 == PieceOf(l, q, 2, G)
<1>1. /\ p0 \in Seq(Rows) /\ p1 \in Seq(Rows) /\ p2 \in Seq(Rows)
      /\ Len(p0) = LeftLen(l, G)
  <2>1. 0 \in 0 .. 2 /\ 1 \in 0 .. 2 /\ 2 \in 0 .. 2
    OBVIOUS
  <2>2. /\ p0 \in Seq(Rows)
        /\ Len(p0) = IF 0 \in G THEN Number(l, CutStop(l, 0)) - Number(l, CutStart(l, 0)) ELSE 0
    BY <2>1, PieceOfTypes
  <2>3. p1 \in Seq(Rows)
    BY <2>1, PieceOfTypes
  <2>4. p2 \in Seq(Rows)
    BY <2>1, PieceOfTypes
  <2> QED
    BY <2>2, <2>3, <2>4, Zenon DEF LeftLen
<1>2. PieceOf(l, q, b, H) = P
  BY DEF PieceOf
<1>3. ASSUME NEW c \in 0 .. 2, c # b PROVE PieceOf(l, q, c, H) = PieceOf(l, q, c, G)
  <2>1. c \in H <=> c \in G
    BY <1>3
  <2> HIDE DEF H
  <2> QED
    BY <2>1, Zenon DEF PieceOf
<1>4. ASSUME NEW c \in 0 .. 2, c >= b PROVE PieceOf(l, q, c, G) = <<>> /\ c \notin G
  <2>1. c \notin G
    BY <1>4
  <2> QED
    BY <2>1, Zenon DEF PieceOf
<1>5. PieceOf(l, q, b, H) \in Seq(Rows)
  <2> HIDE DEF H
  <2> QED
    BY PieceOfTypes
<1>6. P \in Seq(Rows)
  BY <1>2, <1>5, Zenon
<1>7. 0 \in H <=> 0 \in G \/ b = 0
  OBVIOUS
<1>8. 1 \in H <=> 1 \in G \/ b = 1
  OBVIOUS
<1> HIDE DEF H, P
<1>9. Contents(l, q, G) = (p0 \o p1) \o p2
  BY Zenon DEF Contents
<1>10. Contents(l, q, H) = (PieceOf(l, q, 0, H) \o PieceOf(l, q, 1, H)) \o PieceOf(l, q, 2, H)
  BY Zenon DEF Contents
<1> HIDE DEF p0, p1, p2
<1>11. p0 \o p1 \in Seq(Rows) /\ (p0 \o p1) \o p2 \in Seq(Rows)
  BY <1>1, ConcatProperties
<1>12. CASE b = 0
  <2>1. p0 = <<>> /\ p1 = <<>> /\ p2 = <<>> /\ 0 \notin G /\ 1 \notin G
    BY <1>4, <1>12 DEF p0, p1, p2
  <2>2. PieceOf(l, q, 0, H) = P /\ PieceOf(l, q, 1, H) = p1 /\ PieceOf(l, q, 2, H) = p2
    BY <1>2, <1>3, <1>12 DEF p1, p2
  <2>3. (p0 \o p1) \o p2 = <<>>
    BY <1>1, <2>1, ConcatEmptySeq
  <2>4. (P \o p1) \o p2 = P /\ <<>> \o P = P
    BY <1>6, <2>1, ConcatEmptySeq
  <2>5. Cursors(l, H) = {} /\ Cursors(l, G) = {}
    BY <1>8, <1>12, <2>1 DEF Cursors
  <2>6. Contents(l, q, H) = P /\ Contents(l, q, G) = <<>>
    BY <1>9, <1>10, <2>2, <2>3, <2>4, Zenon
  <2>7. Contents(l, q, H) = Contents(l, q, G) \o P
    BY <2>4, <2>6, Zenon
  <2>8. b # 1
    BY <1>12
  <2> QED
    BY <1>9, <1>11, <2>5, <2>7, <2>8, Zenon DEF H, P
<1>13. CASE b = 1
  <2>1. p1 = <<>> /\ p2 = <<>> /\ 1 \notin G
    BY <1>4, <1>13 DEF p1, p2
  <2>2. PieceOf(l, q, 0, H) = p0 /\ PieceOf(l, q, 1, H) = P /\ PieceOf(l, q, 2, H) = p2
    BY <1>2, <1>3, <1>13 DEF p0, p2
  <2>3. (p0 \o p1) \o p2 = p0
    BY <1>1, <2>1, ConcatEmptySeq
  <2>4. (p0 \o P) \o p2 = p0 \o P
    <3>1. p0 \o P \in Seq(Rows)
      BY <1>1, <1>6, ConcatProperties
    <3> QED
      BY <2>1, <3>1, ConcatEmptySeq
  <2>5. Cursors(l, G) = {}
    BY <2>1 DEF Cursors
  <2>6. LeftLen(l, H) = LeftLen(l, G)
    <3>1. 0 \in H <=> 0 \in G
      BY <1>7, <1>13
    <3> QED
      BY <3>1, Zenon DEF LeftLen
  <2>7. Cursors(l, H) = CursorsOf(l, Len(p0), CutStart(l, 1), CutStop(l, 1))
    BY <1>1, <1>8, <1>13, <2>6, Zenon DEF Cursors
  <2> QED
    BY <1>9, <1>10, <1>11, <1>13, <2>2, <2>3, <2>4, <2>5, <2>7, Zenon DEF H, P
<1>14. CASE b = 2
  <2>1. p2 = <<>>
    BY <1>4, <1>14 DEF p2
  <2>2. PieceOf(l, q, 0, H) = p0 /\ PieceOf(l, q, 1, H) = p1 /\ PieceOf(l, q, 2, H) = P
    BY <1>2, <1>3, <1>14 DEF p0, p1
  <2>3. (p0 \o p1) \o p2 = p0 \o p1
    BY <1>11, <2>1, ConcatEmptySeq
  <2>4. LeftLen(l, H) = LeftLen(l, G)
    <3>1. 0 \in H <=> 0 \in G
      BY <1>7, <1>14
    <3> QED
      BY <3>1, Zenon DEF LeftLen
  <2>5. 1 \in H <=> 1 \in G
    BY <1>8, <1>14
  <2>6. Cursors(l, H) = Cursors(l, G)
    BY <2>4, <2>5, Zenon DEF Cursors
  <2>7. b # 1
    BY <1>14
  <2> QED
    BY <1>9, <1>10, <1>11, <2>2, <2>3, <2>6, <2>7, Zenon DEF H, P
<1>15. b = 0 \/ b = 1 \/ b = 2
  OBVIOUS
<1> QED
  BY <1>12, <1>13, <1>14, <1>15

\* What is read of a line depends on the options and the line alone.
LEMMA LineKept ==
    ASSUME set' = set, line' = line
    PROVE  /\ PostFits' <=> PostFits
           /\ \A q \in Quads : (Contents(line, q, done))' = Contents(line, q, done')
           /\ (Cursors(line, done))' = Cursors(line, done')
           /\ (MiddleCut(line))' = MiddleCut(line) /\ LeftCut' = LeftCut
<1>1. (MiddleCut(line))' = MiddleCut(line) /\ LeftCut' = LeftCut
  BY Zenon DEF MiddleCut, LeftCut
<1>2. ASSUME NEW b \in {0, 1, 2} PROVE (BlockCut(line, b))' = BlockCut(line, b)
  BY <1>1, Zenon DEF BlockCut, RightCut
<1>3. ASSUME NEW b \in {0, 1, 2}
      PROVE  (CutStart(line, b))' = CutStart(line, b) /\ (CutStop(line, b))' = CutStop(line, b)
  BY <1>2, Zenon DEF CutStart, CutStop
<1>4. ASSUME NEW b \in {0, 1, 2}, NEW q \in Quads
      PROVE  (PieceOf(line, q, b, done))' = PieceOf(line, q, b, done')
  BY <1>3, Zenon DEF PieceOf
<1>5. \A q \in Quads : (Contents(line, q, done))' = Contents(line, q, done')
  BY <1>4, Zenon DEF Contents
<1>6. (Cursors(line, done))' = Cursors(line, done')
  BY <1>3, Zenon DEF Cursors, LeftLen
<1>7. PostFits' <=> PostFits
  BY Zenon DEF PostFits
<1> QED
  BY <1>1, <1>5, <1>6, <1>7, Zenon

\* LineInv holds when no worker is there.
LEMMA IdleLine ==
    ASSUME pc = "idle", dm = Cleared, adjusted = FALSE, first_s1 = 0, cur = 0
    PROVE  LineInv
<1>1. OrderInv
  BY DEF OrderInv
<1>2. DataInv
  BY DEF DataInv
<1>3. TimesInv
  BY DEF TimesInv, FirstDumped, Stamped
<1> QED
  BY <1>1, <1>2, <1>3 DEF LineInv

\* A line begins with nothing read.
LEMMA ForkLine ==
    ASSUME IInv, LineInv, NEW l \in AnyLine, Fork(l)
    PROVE  LineInv'
<1>1. /\ pc = "idle" /\ pc' = "load" /\ set' = set
      /\ line' = l /\ todo' = l.given /\ pss' = Number(l, TBLOCK_LEN)
      /\ dm' = dm /\ adjusted' = adjusted /\ cur' = cur /\ first_s1' = first_s1
  BY DEF Fork, options, dumping
<1>2. dm = Cleared /\ ~ adjusted /\ first_s1 = 0 /\ cur = 0
  BY <1>1 DEF LineInv, OrderInv, IInv, WorkInv
<1>3. done' = {}
  BY <1>1 DEF done
<1>4. OrderInv'
  BY <1>1, <1>2, <1>3 DEF OrderInv
<1>5. DataInv'
  <2> SUFFICES ASSUME NEW q \in Quads
               PROVE  /\ dm'[q].data = (Contents(line, q, done))'
                      /\ Ascending(dm'[q].es) /\ ElementsOf(dm'[q].es) = (Cursors(line, done))'
    BY Zenon DEF DataInv
  <2>1. dm'[q].data = <<>> /\ dm'[q].es = <<>>
    <3>1. Cleared[q] = [data |-> <<>>, es |-> <<>>, sig |-> <<>>]
      BY Zenon DEF Cleared
    <3> QED
      BY <1>1, <1>2, <3>1
  <2>2. (PieceOf(line, q, 0, done))' = <<>> /\ (PieceOf(line, q, 1, done))' = <<>>
        /\ (PieceOf(line, q, 2, done))' = <<>>
    BY <1>3, Zenon DEF PieceOf
  <2>3. (<<>> \o <<>>) \o <<>> = <<>>
    BY EmptySeq, ConcatEmptySeq
  <2>4. (Contents(line, q, done))' = <<>>
    BY <2>2, <2>3, Zenon DEF Contents
  <2>5. (Cursors(line, done))' = {}
    BY <1>3, Zenon DEF Cursors
  <2>6. Ascending(<<>>) /\ ElementsOf(<<>>) = {}
    BY DEF Ascending, ElementsOf
  <2> QED
    BY <2>1, <2>4, <2>5, <2>6, Zenon
<1>6. TimesInv'
  <2>1. ~ Adjusts' /\ Adjusted' = 0
    BY <1>3, Zenon DEF Adjusts, Adjusted
  <2>2. Number(l, TBLOCK_LEN) = Number(l, TBLOCK_LEN) + 0
    <3>1. Number(l, TBLOCK_LEN) \in Nat
      BY WorkerAssumption, NumberTypes
    <3> QED
      BY <3>1
  <2>3. ~ adjusted' /\ pss' = (Number(line, TBLOCK_LEN))' + Adjusted'
    BY <1>1, <1>2, <2>1, <2>2, Zenon
  <2>4. cur' = 0 /\ ~ FirstDumped' /\ ~ Stamped'
    BY <1>1, <1>2 DEF FirstDumped, Stamped
  <2>5. ~ (cur' > 0)
    BY <2>4
  <2> QED
    BY <2>1, <2>3, <2>4, <2>5, Zenon DEF TimesInv
<1> QED
  BY <1>4, <1>5, <1>6, Zenon DEF LineInv

\* A block more is read.
LEMMA LoadLine ==
    ASSUME IInv, LineInv, Load
    PROVE  LineInv'
<1> DEFINE b == Min(todo)
<1>1. TypeInv /\ WorkInv /\ OrderInv /\ DataInv /\ TimesInv
  BY Zenon DEF IInv, LineInv
<1>2. /\ pc = "load" /\ pc' \in {"next", "load"}
      /\ processAction(b) /\ todo' = todo \ {b}
      /\ pc' = (IF todo' = {} THEN "next" ELSE "load")
      /\ line' = line /\ set' = set /\ cur' = cur /\ quad' = quad /\ first_s1' = first_s1
  BY DEF Load, options, dumping
<1>3. /\ line \in AnyLine /\ todo # {} /\ todo \subseteq 0 .. 2 /\ set \in Settings /\ cur = 0
      /\ dm \in Models(Rows)
  BY <1>1, <1>2, Zenon DEF WorkInv, TypeInv, Models, DQuads
<1>4. b \in todo /\ b \in 0 .. 2 /\ \A c \in todo : b <= c
  <2>1. todo \subseteq Nat
    BY <1>3
  <2>2. Min(todo) \in todo /\ \A c \in todo : Min(todo) <= c
    BY <1>3, <2>1, LeastOf
  <2> QED
    BY <1>3, <2>2
<1>5. line.given \subseteq 0 .. 2 /\ todo \subseteq line.given /\ \A c \in done : c < b
  BY <1>1, <1>2, <1>3, <1>4, LineTypes DEF OrderInv
<1> HIDE DEF b
<1>6. done' = done \cup {b} /\ done \subseteq 0 .. 2
  BY <1>2, <1>4, <1>5 DEF done
<1>7. OrderInv'
  <2>1. todo' \subseteq line.given
    BY <1>2, <1>5
  <2>2. ASSUME NEW x \in done', NEW y \in todo' PROVE x < y
    <3>1. y \in todo /\ y # b /\ y \in 0 .. 2 /\ b <= y
      BY <1>2, <1>3, <1>4
    <3>2. CASE x = b
      BY <1>4, <3>1, <3>2
    <3>3. CASE x # b
      <4>1. x \in done
        BY <1>6, <3>3
      <4> QED
        BY <1>1, <1>2, <3>1, <4>1 DEF OrderInv
    <3> QED
      BY <3>2, <3>3
  <2>3. first_s1' = 0
    BY <1>1, <1>2 DEF OrderInv
  <2>4. pc' # "idle" /\ (pc' = "load" \/ todo' = {})
    BY <1>2
  <2> QED
    BY <1>2, <2>1, <2>2, <2>3, <2>4 DEF OrderInv
<1>8. /\ PostFits' <=> PostFits
      /\ \A q \in Quads : (Contents(line, q, done))' = Contents(line, q, done')
      /\ (Cursors(line, done))' = Cursors(line, done')
      /\ (MiddleCut(line))' = MiddleCut(line) /\ LeftCut' = LeftCut
  BY <1>2, LineKept
<1> DEFINE cut == BlockCut(line, b)
           memory == [m \in Nat |-> BlockRow(line, b, m)]
           then == process(memory, cut.from * NQuads, cut.len * NQuads, dm, Unlimited, cut.stash_es)
<1>9. dm' = then /\ (IF cut.adjusts THEN adjust(cut.by) ELSE UNCHANGED <<pss, adjusted>>)
  BY <1>2, Zenon DEF processAction
<1>10. /\ b = 0 => cut = LeftCut
       /\ b = 1 => cut = MiddleCut(line)
       /\ b = 2 => cut = RightCut
  BY DEF BlockCut
<1>11. DataInv'
  <2> SUFFICES ASSUME PostFits, NEW q \in Quads
               PROVE  /\ dm'[q].data = Contents(line, q, done')
                      /\ Ascending(dm'[q].es) /\ ElementsOf(dm'[q].es) = Cursors(line, done')
    BY <1>8, Zenon DEF DataInv
  <2>1. cut.stash_es <=> b = 1
    <3>1. LeftCut.stash_es = FALSE /\ MiddleCut(line).stash_es = TRUE /\ RightCut.stash_es = FALSE
      BY DEF LeftCut, MiddleCut, RightCut, Cut
    <3> HIDE DEF cut
    <3> QED
      BY <1>4, <1>10, <3>1
  <2>2. ASSUME NEW p \in Quads
        PROVE  /\ dm[p].data = Contents(line, p, done)
               /\ Ascending(dm[p].es) /\ ElementsOf(dm[p].es) = Cursors(line, done)
               /\ Contents(line, p, done \cup {b}) =
                    Contents(line, p, done) \o Piece(line, p, CutStart(line, b), CutStop(line, b))
               /\ Cursors(line, done \cup {b}) =
                    IF b = 1 THEN CursorsOf(line, Len(Contents(line, p, done)),
                                            CutStart(line, b), CutStop(line, b))
                    ELSE Cursors(line, done)
               /\ b = 1 => Cursors(line, done) = {}
    <3>1. /\ dm[p].data = Contents(line, p, done)
          /\ Ascending(dm[p].es) /\ ElementsOf(dm[p].es) = Cursors(line, done)
      <4>1. pc # "idle"
        BY <1>2
      <4> QED
        BY <1>1, <4>1, Zenon DEF DataInv
    <3>2. done \subseteq 0 .. 2 /\ \A c \in done : c < b
      BY <1>5, <1>6
    <3>3. /\ Contents(line, p, done \cup {b}) =
                 Contents(line, p, done) \o Piece(line, p, CutStart(line, b), CutStop(line, b))
          /\ Cursors(line, done \cup {b}) =
                 IF b = 1 THEN CursorsOf(line, Len(Contents(line, p, done)),
                                         CutStart(line, b), CutStop(line, b))
                 ELSE Cursors(line, done)
          /\ b = 1 => Cursors(line, done) = {}
      <4> DEFINE G == done
      <4>1. G \subseteq 0 .. 2 /\ \A c \in G : c < b
        BY <3>2, Zenon
      <4> HIDE DEF G
      <4>2. /\ Contents(line, p, G \cup {b}) =
                   Contents(line, p, G) \o Piece(line, p, CutStart(line, b), CutStop(line, b))
            /\ Cursors(line, G \cup {b}) =
                   IF b = 1 THEN CursorsOf(line, Len(Contents(line, p, G)),
                                           CutStart(line, b), CutStop(line, b))
                   ELSE Cursors(line, G)
            /\ b = 1 => Cursors(line, G) = {}
        <5>1. set \in Settings /\ line \in AnyLine /\ b \in 0 .. 2
          BY <1>3, <1>4, Zenon
        <5> QED
          BY <4>1, <5>1, ContentsNext
      <4> QED
        BY <4>2, Zenon DEF G
    <3> QED
      BY <3>1, <3>3, Zenon
  <2>3. cut.stash_es => \A p \in Quads : dm[p].es = <<>>
    <3> SUFFICES ASSUME b = 1, NEW p \in Quads PROVE dm[p].es = <<>>
      BY <2>1, Zenon
    <3>1. ElementsOf(dm[p].es) = {}
      BY <2>2, Zenon
    <3>2. dm[p].es \in Seq(Nat)
      BY <1>3 DEF Models, DQuads
    <3>3. \A k \in 1 .. Len(dm[p].es) : FALSE
      <4>1. DOMAIN dm[p].es = 1 .. Len(dm[p].es)
        BY <3>2, LenProperties
      <4> QED
        BY <3>1, <4>1, Zenon DEF ElementsOf
    <3>4. Len(dm[p].es) = 0
      <4>1. Len(dm[p].es) \in Nat
        BY <3>2, LenProperties
      <4> QED
        BY <3>3, <4>1
    <3> QED
      BY <3>2, <3>4, EmptySeq
  <2>4. then[q] \in Made(line, q, dm[q], CutStart(line, b), CutStop(line, b), cut.stash_es)
    <3>1. cut.stash_es => \A p \in Quads : dm[p].es = <<>>
      BY <2>3
    <3> QED
      BY <1>3, <1>4, <3>1, BlockMade, Zenon
  <2> HIDE DEF then, cut
  <2>5. /\ dm'[q].data = dm[q].data \o Piece(line, q, CutStart(line, b), CutStop(line, b))
        /\ IF cut.stash_es
           THEN /\ Ascending(dm'[q].es)
                /\ ElementsOf(dm'[q].es)
                        = CursorsOf(line, Len(dm[q].data), CutStart(line, b), CutStop(line, b))
           ELSE dm'[q].es = dm[q].es
    <3>1. dm'[q] \in Made(line, q, dm[q], CutStart(line, b), CutStop(line, b), cut.stash_es)
      BY <1>9, <2>4, Zenon
    <3> QED
      BY <3>1 DEF Made
  <2>6. dm'[q].data = Contents(line, q, done')
    BY <1>6, <2>2, <2>5, Zenon
  <2>7. CASE b = 1
    BY <1>6, <2>1, <2>2, <2>5, <2>6, <2>7, Zenon
  <2>8. CASE b # 1
    BY <1>6, <2>1, <2>2, <2>5, <2>6, <2>8, Zenon
  <2> QED
    BY <2>7, <2>8
<1> HIDE DEF then, cut
<1>12. ASSUME ~ line.timed
       PROVE  (adjusted' <=> Adjusts') /\ pss' = Number(line, TBLOCK_LEN) + Adjusted'
  <2>1. (adjusted <=> Adjusts) /\ pss = Number(line, TBLOCK_LEN) + Adjusted
    <3>1. pc # "idle"
      BY <1>2
    <3> QED
      BY <1>1, <1>12, <3>1, Zenon DEF TimesInv
  <2>2. /\ Adjusts' <=> 0 \in done' \/ (1 \in done' /\ MiddleCut(line).adjusts)
        /\ Adjusted' = IF 0 \in done' THEN LeftCut.by
                       ELSE IF Adjusts' THEN MiddleCut(line).by ELSE 0
    BY <1>8, Zenon DEF Adjusts, Adjusted
  <2>3. IF cut.adjusts /\ ~ adjusted
        THEN pss' = pss + cut.by /\ adjusted' = TRUE ELSE pss' = pss /\ adjusted' = adjusted
    BY <1>9, <1>12, Zenon DEF adjust
  <2>4. Number(line, TBLOCK_LEN) \in Nat
    BY <1>3, WorkerAssumption, NumberTypes
  <2>5. cut.by \in Int /\ cut.adjusts \in BOOLEAN /\ adjusted \in BOOLEAN
    <3>1. cut.by \in Int /\ cut.adjusts \in BOOLEAN
      BY <1>3, <1>4, BlockCutInTurns, Zenon DEF CutInTurns, cut
    <3> QED
      BY <1>1, <3>1, Zenon DEF TypeInv
  <2>6. LeftCut.adjusts = TRUE /\ RightCut.adjusts = FALSE
    BY DEF LeftCut, RightCut, Cut
  <2> DEFINE n == Number(line, TBLOCK_LEN)
  <2> HIDE DEF n
  <2>7. n + 0 = n /\ n \in Nat
    BY <2>4 DEF n
  <2>8. CASE b = 0
    <3>1. 0 \notin done /\ 1 \notin done /\ 0 \in done'
      BY <1>4, <1>5, <1>6, <2>8
    <3>2. ~ Adjusts /\ Adjusted = 0
      BY <3>1, Zenon DEF Adjusts, Adjusted
    <3>3. ~ adjusted /\ pss = n
      BY <2>1, <2>7, <3>2, Zenon DEF n
    <3>4. adjusted' = TRUE /\ pss' = n + LeftCut.by
      BY <1>10, <2>3, <2>6, <2>8, <3>3, Zenon
    <3>5. Adjusts' /\ Adjusted' = LeftCut.by
      BY <2>2, <3>1, Zenon
    <3> QED
      BY <3>4, <3>5, Zenon DEF n
  <2>9. CASE b = 1
    <3>1. (0 \in done' <=> 0 \in done) /\ 1 \notin done /\ 1 \in done'
      BY <1>4, <1>5, <1>6, <2>9
    <3>2. (Adjusts <=> 0 \in done) /\ Adjusted = IF 0 \in done THEN LeftCut.by ELSE 0
      BY <3>1, Zenon DEF Adjusts, Adjusted
    <3>3. cut = MiddleCut(line)
      BY <1>10, <2>9, Zenon
    <3>4. CASE 0 \in done
      <4>1. adjusted /\ pss = n + LeftCut.by
        BY <2>1, <3>2, <3>4, Zenon DEF n
      <4>2. pss' = pss /\ adjusted' = adjusted
        BY <2>3, <4>1, Zenon
      <4> QED
        BY <2>2, <3>1, <3>4, <4>1, <4>2, Zenon DEF n
    <3>5. CASE 0 \notin done
      <4>1. ~ adjusted /\ pss = n
        BY <2>1, <2>7, <3>2, <3>5, Zenon DEF n
      <4>2. Adjusts' <=> cut.adjusts
        BY <2>2, <3>1, <3>3, <3>5, Zenon
      <4>3. CASE cut.adjusts
        <5>1. pss' = n + cut.by /\ adjusted' = TRUE
          BY <2>3, <4>1, <4>3, Zenon
        <5>2. Adjusted' = cut.by
          BY <2>2, <3>1, <3>3, <3>5, <4>2, <4>3, Zenon
        <5> QED
          BY <4>2, <4>3, <5>1, <5>2, Zenon DEF n
      <4>4. CASE ~ cut.adjusts
        <5>1. pss' = n /\ adjusted' = adjusted
          BY <2>3, <4>1, <4>4, Zenon
        <5>2. Adjusted' = 0
          BY <2>2, <3>1, <3>5, <4>2, <4>4, Zenon
        <5> QED
          BY <2>7, <4>1, <4>2, <4>4, <5>1, <5>2, Zenon DEF n
      <4> QED
        BY <4>3, <4>4
    <3> QED
      BY <3>4, <3>5
  <2>10. CASE b = 2
    <3>1. (0 \in done' <=> 0 \in done) /\ (1 \in done' <=> 1 \in done)
      BY <1>6, <2>10
    <3>2. pss' = pss /\ adjusted' = adjusted
      BY <1>10, <2>3, <2>6, <2>10, Zenon
    <3>3. (Adjusts' <=> Adjusts) /\ Adjusted' = Adjusted
      BY <2>2, <3>1, Zenon DEF Adjusts, Adjusted
    <3> QED
      BY <2>1, <3>2, <3>3, Zenon
  <2>11. b = 0 \/ b = 1 \/ b = 2
    BY <1>4
  <2> QED
    BY <2>8, <2>9, <2>10, <2>11
<1>13. TimesInv'
  <2>1. ~ (cur' > 0) /\ ~ FirstDumped' /\ ~ Stamped'
    BY <1>2, <1>3 DEF FirstDumped, Stamped
  <2> QED
    BY <1>2, <1>12, <2>1, Zenon DEF TimesInv
<1> QED
  BY <1>7, <1>11, <1>13, Zenon DEF LineInv

\* What was read of a line stays while its events are stored.
LEMMA ReadKept ==
    ASSUME LineInv, UNCHANGED <<set, line, dm, pss, adjusted, todo>>,
           pc # "idle", pc' # "idle", pc = "load" <=> pc' = "load",
           pc' = "load" \/ Loaded' => first_s1' = 0
    PROVE  /\ OrderInv' /\ DataInv'
           /\ ~ line.timed => /\ adjusted' <=> Adjusts'
                              /\ pss' = (Number(line, TBLOCK_LEN))' + Adjusted'
           /\ msecs_at_esoff' = msecs_at_esoff
<1>1. OrderInv /\ DataInv /\ TimesInv
  BY Zenon DEF LineInv
<1>2. set' = set /\ line' = line /\ dm' = dm /\ pss' = pss /\ adjusted' = adjusted /\ todo' = todo
  OBVIOUS
<1>3. done' = done
  BY <1>2 DEF done
<1>4. /\ PostFits' <=> PostFits
      /\ \A q \in Quads : (Contents(line, q, done))' = Contents(line, q, done')
      /\ (Cursors(line, done))' = Cursors(line, done')
      /\ (MiddleCut(line))' = MiddleCut(line) /\ LeftCut' = LeftCut
  BY <1>2, LineKept
<1>5. OrderInv'
  <2>1. /\ todo \subseteq line.given /\ \A b \in done, c \in todo : b < c
        /\ pc # "load" => todo = {}
    BY <1>1 DEF OrderInv
  <2> QED
    BY <1>2, <1>3, <2>1 DEF OrderInv
<1>6. DataInv'
  <2> SUFFICES ASSUME PostFits, NEW q \in Quads
               PROVE  /\ dm'[q].data = (Contents(line, q, done))'
                      /\ Ascending(dm'[q].es) /\ ElementsOf(dm'[q].es) = (Cursors(line, done))'
    BY <1>4, Zenon DEF DataInv
  <2>1. /\ dm[q].data = Contents(line, q, done)
        /\ Ascending(dm[q].es) /\ ElementsOf(dm[q].es) = Cursors(line, done)
    BY <1>1, Zenon DEF DataInv
  <2> QED
    BY <1>2, <1>3, <1>4, <2>1, Zenon
<1>7. ASSUME ~ line.timed
      PROVE  (adjusted' <=> Adjusts') /\ pss' = (Number(line, TBLOCK_LEN))' + Adjusted'
  <2>1. (Adjusts' <=> Adjusts) /\ Adjusted' = Adjusted
    <3>1. (Adjusts' <=> Adjusts)
      BY <1>3, <1>4, Zenon DEF Adjusts
    <3> QED
      BY <1>3, <1>4, <3>1, Zenon DEF Adjusted
  <2>2. (adjusted <=> Adjusts) /\ pss = Number(line, TBLOCK_LEN) + Adjusted
    BY <1>1, <1>7, Zenon DEF TimesInv
  <2>3. adjusted' <=> Adjusts'
    BY <1>2, <2>1, <2>2
  <2>4. pss' = (Number(line, TBLOCK_LEN))' + Adjusted'
    BY <1>2, <2>1, <2>2, Zenon
  <2> QED
    BY <2>3, <2>4
<1>8. msecs_at_esoff' = msecs_at_esoff
  BY <1>2, Zenon DEF msecs_at_esoff
<1> QED
  BY <1>5, <1>6, <1>7, <1>8, Zenon

\* And so does the timebase while its event is stored.
LEMMA EventKept ==
    ASSUME LineInv,
           UNCHANGED <<set, line, dm, pss, adjusted, todo, cur, evnum, first_s1, msecs_start>>,
           pc # "idle", pc' # "idle", pc = "load" <=> pc' = "load", Loaded' => Loaded,
           FirstDumped' => FirstDumped, Stamped' => Stamped,
           CleanDirs /\ Stamped' => disk'[WorkDir].tb = disk[WorkDir].tb
    PROVE  LineInv'
<1>1. OrderInv /\ DataInv /\ TimesInv
  BY Zenon DEF LineInv
<1>2. /\ set' = set /\ line' = line /\ dm' = dm /\ pss' = pss /\ adjusted' = adjusted /\ todo' = todo
      /\ cur' = cur /\ evnum' = evnum /\ first_s1' = first_s1 /\ msecs_start' = msecs_start
  OBVIOUS
<1>3. pc' = "load" \/ Loaded' => first_s1' = 0
  BY <1>1, <1>2 DEF OrderInv
<1>4. /\ OrderInv' /\ DataInv'
      /\ ~ line.timed => /\ adjusted' <=> Adjusts'
                         /\ pss' = (Number(line, TBLOCK_LEN))' + Adjusted'
      /\ msecs_at_esoff' = msecs_at_esoff
  BY <1>2, <1>3, ReadKept
<1>5. WorkDir' = WorkDir /\ CleanDirs' = CleanDirs
  BY <1>2, SameEvent
<1>6. event_offset' = event_offset
  BY <1>2, Zenon DEF event_offset, getEvents
<1>7. (Timebase(dm[scanlist[1]]))' = Timebase(dm[scanlist[1]])
  <2>1. getSampleOffset' = getSampleOffset
    BY <1>2, <1>6, Zenon DEF getSampleOffset
  <2>2. (StartTime(dm[scanlist[1]]))' = StartTime(dm[scanlist[1]])
    BY <1>2, <1>6, <2>1, Zenon DEF StartTime
  <2> QED
    BY <1>2, <1>6, <2>2, Zenon DEF Timebase
<1>8. (getEvents(dm))' = getEvents(dm)
  BY <1>2, Zenon DEF getEvents
<1>9. TimesInv'
  <2>1. cur' > 0 /\ line'.timed => msecs_start' = msecs_at_esoff'
    <3>1. cur > 0 /\ line.timed => msecs_start = msecs_at_esoff
      BY <1>1, Zenon DEF TimesInv
    <3> QED
      BY <1>2, <1>4, <3>1, Zenon
  <2>2. FirstDumped' /\ line'.timed => first_s1' = First((getEvents(dm))'[1], set'.pre)
    <3>1. FirstDumped /\ line.timed => first_s1 = First(getEvents(dm)[1], set.pre)
      BY <1>1, Zenon DEF TimesInv
    <3> QED
      BY <1>2, <1>8, <3>1, Zenon
  <2>3. CleanDirs' /\ Stamped' => disk'[WorkDir'].tb = (Timebase(dm[scanlist[1]]))'
    <3>1. CleanDirs /\ Stamped => disk[WorkDir].tb = Timebase(dm[scanlist[1]])
      BY <1>1, Zenon DEF TimesInv
    <3> QED
      BY <1>5, <1>7, <3>1, Zenon
  <2> QED
    BY <1>2, <1>4, <2>1, <2>2, <2>3, Zenon DEF TimesInv
<1> QED
  BY <1>4, <1>9, Zenon DEF LineInv

\* The worker is gone, or was not there.
LEMMA ExitLine ==
    ASSUME NEW n, Exit(n)
    PROVE  LineInv'
<1>1. pc' = "idle" /\ dm' = Cleared /\ adjusted' = FALSE /\ first_s1' = 0 /\ cur' = 0
  BY Zenon DEF Exit
<1>2. OrderInv'
  BY <1>1 DEF OrderInv, Cleared
<1>3. DataInv'
  BY <1>1 DEF DataInv
<1>4. TimesInv'
  BY <1>1 DEF TimesInv, FirstDumped, Stamped
<1> QED
  BY <1>2, <1>3, <1>4 DEF LineInv

\* The program is started again.
LEMMA RestartLine ==
    ASSUME IInv, LineInv, Restart
    PROVE  LineInv'
<1>1. pc = "idle" /\ pc' = pc /\ dm' = dm /\ adjusted' = adjusted /\ first_s1' = first_s1 /\ cur' = cur
  BY DEF Restart, loaded, dumping
<1>2. dm = Cleared /\ ~ adjusted /\ first_s1 = 0 /\ cur = 0
  BY <1>1 DEF LineInv, OrderInv, IInv, WorkInv
<1>3. OrderInv'
  BY <1>1, <1>2 DEF OrderInv, Cleared
<1>4. DataInv'
  BY <1>1 DEF DataInv
<1>5. TimesInv'
  BY <1>1, <1>2 DEF TimesInv, FirstDumped, Stamped
<1> QED
  BY <1>3, <1>4, <1>5 DEF LineInv

\* The next event sets the time to that of the line.
LEMMA MakeDirLine ==
    ASSUME IInv, LineInv, MakeDir
    PROVE  LineInv'
<1>1. OrderInv /\ DataInv /\ TimesInv
  BY Zenon DEF LineInv
<1>2. /\ pc = "next" /\ pc' = "dump" /\ setWallClockPolicy
      /\ cur' = cur + 1 /\ quad' = 1 /\ cur \in Nat
      /\ set' = set /\ line' = line /\ dm' = dm /\ pss' = pss
      /\ adjusted' = adjusted /\ todo' = todo /\ first_s1' = first_s1
  <2>1. cur \in 0 .. Len(getEvents(dm))
    BY Zenon DEF IInv, TypeInv
  <2> QED
    BY <2>1 DEF MakeDir, options
<1>3. /\ OrderInv' /\ DataInv'
      /\ ~ line.timed => /\ adjusted' <=> Adjusts'
                         /\ pss' = (Number(line, TBLOCK_LEN))' + Adjusted'
      /\ msecs_at_esoff' = msecs_at_esoff
  <2>1. ~ (pc' = "load" \/ Loaded')
    BY <1>2 DEF Loaded
  <2>2. pc # "idle" /\ pc' # "idle" /\ (pc = "load" <=> pc' = "load")
    BY <1>2
  <2> QED
    BY <1>2, <2>1, <2>2, ReadKept
<1>4. line.timed => msecs_start' = msecs_at_esoff'
  BY <1>2, <1>3, Zenon DEF setWallClockPolicy
<1>5. FirstDumped' => FirstDumped
  BY <1>2 DEF FirstDumped
<1>6. ~ Stamped'
  BY <1>2 DEF Stamped
<1>7. FirstDumped' /\ line'.timed => first_s1' = First((getEvents(dm))'[1], set'.pre)
  <2>1. (getEvents(dm))' = getEvents(dm)
    BY <1>2, Zenon DEF getEvents
  <2>2. FirstDumped /\ line.timed => first_s1 = First(getEvents(dm)[1], set.pre)
    BY <1>1, Zenon DEF TimesInv
  <2> QED
    BY <1>2, <1>5, <2>1, <2>2, Zenon
<1>8. TimesInv'
  BY <1>2, <1>3, <1>4, <1>6, <1>7, Zenon DEF TimesInv
<1> QED
  BY <1>3, <1>8, Zenon DEF LineInv

\* The files that follow leave the timebase.
LEMMA LaterLine ==
    ASSUME IInv, LineInv, DumpFormat \/ Announce \/ RemoveOld \/ RenameDir
    PROVE  LineInv'
<1>1. TypeInv /\ WorkInv /\ DirInv
  BY Zenon DEF IInv
<1>2. /\ pc \in {"format", "announce", "remove", "rename"}
      /\ pc' \in {"announce", "remove", "rename", "next"}
      /\ pc' = "announce" => DumpFormat
      /\ UNCHANGED <<set, line, dm, pss, adjusted, todo, cur, evnum, first_s1, msecs_start>>
  <2>1. CASE DumpFormat
    BY <2>1 DEF DumpFormat, options, loaded, dumping
  <2>2. CASE Announce
    BY <2>2 DEF Announce, options, loaded, dumping
  <2>3. CASE RemoveOld
    BY <2>3 DEF RemoveOld, options, loaded, dumping
  <2>4. CASE RenameDir
    BY <2>4 DEF RenameDir, options, loaded, dumping
  <2> QED
    BY <2>1, <2>2, <2>3, <2>4
<1>3. cur # 0 /\ cur \in 0 .. Len(getEvents(dm))
  <2>1. InDir
    BY <1>2 DEF InDir
  <2> QED
    BY <1>1, <2>1, Zenon DEF WorkInv, TypeInv
<1>4. ~ Loaded'
  BY <1>2, <1>3 DEF Loaded
<1>5. FirstDumped' => FirstDumped
  BY <1>2 DEF FirstDumped
<1>6. Stamped' => DumpFormat
  BY <1>2 DEF Stamped
<1>7. DumpFormat => Stamped /\ disk'[WorkDir].tb = disk[WorkDir].tb
  <2> SUFFICES ASSUME DumpFormat PROVE Stamped /\ disk'[WorkDir].tb = disk[WorkDir].tb
    OBVIOUS
  <2>1. pc = "format"
    BY DEF DumpFormat
  <2>2. WorkDir \in DOMAIN disk
    BY <1>1, <2>1 DEF DirInv, InDir
  <2>3. disk[WorkDir] \in Files
    BY <1>1, <2>2, Zenon DEF TypeInv
  <2> DEFINE old == disk[WorkDir]
             new == [old EXCEPT !.format = TRUE]
  <2>4. disk' = [disk EXCEPT ![WorkDir] = new]
    BY DEF DumpFormat
  <2>5. new.tb = old.tb
    <3> HIDE DEF old
    <3> QED
      BY <2>3 DEF Files, old
  <2> HIDE DEF new
  <2>6. disk'[WorkDir] = new
    BY <1>1, <2>2, <2>4 DEF TypeInv
  <2> QED
    BY <2>1, <2>5, <2>6 DEF Stamped
<1>8. pc # "idle" /\ pc' # "idle" /\ (pc = "load" <=> pc' = "load")
  BY <1>2
<1> QED
  BY <1>2, <1>4, <1>5, <1>6, <1>7, <1>8, EventKept, Zenon

\* Nothing changes.
LEMMA StutterLine ==
    ASSUME LineInv, UNCHANGED vars
    PROVE  LineInv'
<1>1. /\ pc' = pc /\ set' = set /\ line' = line /\ dm' = dm /\ pss' = pss /\ adjusted' = adjusted
      /\ todo' = todo /\ msecs_start' = msecs_start /\ disk' = disk
      /\ cur' = cur /\ quad' = quad /\ first_s1' = first_s1 /\ evnum' = evnum
  BY DEF vars, options, loaded, files, dumping
<1>2. CASE pc # "idle"
  <2>1. Loaded' = Loaded /\ FirstDumped' = FirstDumped /\ Stamped' = Stamped
    BY <1>1, Zenon DEF Loaded, FirstDumped, Stamped
  <2> QED
    BY <1>1, <1>2, <2>1, EventKept
<1>3. CASE pc = "idle"
  <2>1. OrderInv'
    BY <1>1, <1>3 DEF LineInv, OrderInv, Cleared, Loaded
  <2>2. DataInv'
    BY <1>1, <1>3 DEF DataInv
  <2>3. TimesInv'
    <3>1. TimesInv
      BY DEF LineInv
    <3>2. ~ Stamped'
      BY <1>1, <1>3 DEF Stamped
    <3>3. FirstDumped' = FirstDumped /\ msecs_at_esoff' = msecs_at_esoff
      BY <1>1, Zenon DEF FirstDumped, msecs_at_esoff
    <3> QED
      BY <1>1, <1>3, <3>1, <3>2, <3>3, Zenon DEF TimesInv, getEvents
  <2> QED
    BY <2>1, <2>2, <2>3 DEF LineInv
<1> QED
  BY <1>2, <1>3

\* The first quad stores the timebase, and the first event where it begins.
LEMMA DumpQuadLine ==
    ASSUME IInv, LineInv, DumpQuad
    PROVE  LineInv'
<1>1. TypeInv /\ WorkInv /\ DirInv /\ StoredInv /\ OrderInv /\ DataInv /\ TimesInv
  BY Zenon DEF IInv, LineInv
<1> DEFINE q == scanlist[quad]
           dq == dm[q]
           old == disk[WorkDir]
           stored == Window(dq, event_offset, set.pre, set.post)
           new == [ch |-> [old.ch EXCEPT ![q] = Written(old.ch[q], stored)],
                   tb |-> IF dump_timebase THEN Written(old.tb, Timebase(dq)) ELSE old.tb,
                   format |-> old.format, goal |-> old.goal]
<1>2. /\ pc = "dump"
      /\ set' = set /\ line' = line /\ dm' = dm /\ pss' = pss
      /\ adjusted' = adjusted /\ todo' = todo
      /\ msecs_start' = msecs_start /\ cur' = cur /\ evnum' = evnum
      /\ IF quad = NQuads THEN pc' = "format" /\ quad' = 1 ELSE pc' = "dump" /\ quad' = quad + 1
  BY DEF DumpQuad, options, loaded, counts
<1>3. /\ dm \in Models(Rows) /\ Alike(dm) /\ set \in Settings /\ quad \in 1 .. NQuads
      /\ cur \in 0 .. Len(getEvents(dm)) /\ dump_timebase \in BOOLEAN /\ first_s1 \in Nat
      /\ cur # 0 /\ (dump_timebase <=> quad = 1) /\ pc' \in {"dump", "format"}
      /\ WorkDir \in DOMAIN disk
  <2>1. /\ dm \in Models(Rows) /\ Alike(dm) /\ set \in Settings /\ quad \in 1 .. NQuads
        /\ cur \in 0 .. Len(getEvents(dm)) /\ dump_timebase \in BOOLEAN /\ first_s1 \in Nat
    BY <1>1, Zenon DEF TypeInv, WorkInv, Models, DQuads
  <2>2. cur # 0 /\ (dump_timebase <=> quad = 1) /\ WorkDir \in DOMAIN disk
    BY <1>1, <1>2 DEF WorkInv, DirInv, InDir
  <2>3. pc' \in {"dump", "format"}
    BY <1>2
  <2> QED
    BY <2>1, <2>2, <2>3
<1>4. cur \in 1 .. Len(getEvents(dm)) /\ cur \in Nat
  <2>1. Len(getEvents(dm)) \in Nat
    BY <1>3, EventTypes
  <2> QED
    BY <1>3, <2>1
<1>5. q \in Quads /\ event_offset \in Nat /\ Has(dq, event_offset)
  <2>1. q \in Quads
    BY <1>3, Counts
  <2> HIDE DEF q
  <2>2. getEvents(dm)[cur] \in Nat /\ Has(dm[q], getEvents(dm)[cur])
    BY <1>3, <1>4, <2>1, EventTypes
  <2> QED
    BY <2>1, <2>2, Zenon DEF event_offset
<1>6. /\ disk' = [disk EXCEPT ![WorkDir] = new]
      /\ first_s1' = IF dump_timebase /\ line.timed /\ event_offset = dq.es[1]
                     THEN First(event_offset, set.pre) ELSE first_s1
  <2>1. IF Has(dq, event_offset)
        THEN /\ disk' = [disk EXCEPT ![WorkDir] = new]
             /\ dump_timebase' = FALSE
             /\ first_s1' = IF dump_timebase /\ line.timed /\ event_offset = dq.es[1]
                            THEN First(event_offset, set.pre) ELSE first_s1
        ELSE UNCHANGED <<disk, dump_timebase, first_s1>>
    BY DEF DumpQuad
  <2> HIDE DEF new, old, stored, dq, q
  <2> QED
    BY <1>5, <2>1
<1>7. disk'[WorkDir].tb = IF dump_timebase THEN Written(old.tb, Timebase(dq)) ELSE old.tb
  <2>1. new.tb = IF dump_timebase THEN Written(old.tb, Timebase(dq)) ELSE old.tb
    OBVIOUS
  <2> HIDE DEF new, old, stored, dq, q
  <2>2. disk'[WorkDir] = new
    BY <1>1, <1>3, <1>6 DEF TypeInv
  <2> QED
    BY <2>1, <2>2, Zenon
<1> HIDE DEF new
<1>8. ~ Loaded' /\ pc # "idle" /\ pc' # "idle" /\ (pc = "load" <=> pc' = "load")
  BY <1>2, <1>3 DEF Loaded
<1>9. CASE quad # 1
  <2>1. first_s1' = first_s1 /\ disk'[WorkDir].tb = disk[WorkDir].tb
    BY <1>3, <1>6, <1>7, <1>9, Zenon
  <2>2. FirstDumped /\ Stamped
    <3>1. cur > 1 \/ cur = 1
      BY <1>4
    <3> QED
      BY <1>2, <1>9, <3>1, Zenon DEF FirstDumped, Stamped
  <2> QED
    BY <1>2, <1>8, <2>1, <2>2, EventKept, Zenon
<1>10. CASE quad = 1
  <2> DEFINE d1 == dm[scanlist[1]]
  <2>1. q = scanlist[1] /\ dq = d1 /\ dump_timebase
    BY <1>3, <1>10, Zenon
  <2>2. event_offset = getEvents(dm)[cur] /\ d1.es[1] = getEvents(dm)[1]
    BY Zenon DEF event_offset, getEvents
  <2>3. first_s1' = IF line.timed /\ event_offset = d1.es[1]
                    THEN First(event_offset, set.pre) ELSE first_s1
    BY <1>6, <2>1, Zenon
  <2>4. /\ OrderInv' /\ DataInv'
        /\ ~ line.timed => /\ adjusted' <=> Adjusts'
                           /\ pss' = (Number(line, TBLOCK_LEN))' + Adjusted'
        /\ msecs_at_esoff' = msecs_at_esoff
    <3>1. ~ (pc' = "load" \/ Loaded')
      BY <1>3, <1>8
    <3> QED
      BY <1>2, <1>8, <3>1, ReadKept, Zenon
  <2>5. WorkDir' = WorkDir /\ CleanDirs' = CleanDirs
    BY <1>2, SameEvent
  <2>6. event_offset' = event_offset /\ (getEvents(dm))' = getEvents(dm)
    BY <1>2, Zenon DEF event_offset, getEvents
  <2>7. (Timebase(d1))' = Timebase(d1)
    <3>1. getSampleOffset' = getSampleOffset
      BY <1>2, <2>6, Zenon DEF getSampleOffset
    <3>2. (StartTime(d1))' = StartTime(d1)
      <4>1. CASE ~ line.timed
        BY <1>2, <2>6, <3>1, <4>1, Zenon DEF StartTime
      <4>2. CASE line.timed /\ event_offset = d1.es[1]
        BY <1>2, <2>6, <4>2, Zenon DEF StartTime
      <4>3. CASE line.timed /\ event_offset # d1.es[1]
        <5>1. first_s1' = first_s1
          BY <2>3, <4>3, Zenon
        <5> QED
          BY <1>2, <2>6, <4>3, <5>1, Zenon DEF StartTime
      <4> QED
        BY <4>1, <4>2, <4>3, Zenon
    <3> QED
      BY <1>2, <2>6, <3>2, Zenon DEF Timebase
  <2>8. CleanDirs => disk'[WorkDir].tb = Timebase(d1)
    <3> SUFFICES ASSUME CleanDirs PROVE disk'[WorkDir].tb = Timebase(d1)
      OBVIOUS
    <3>1. Filled(old) /\ (set.overwrite \/ set.cleanup)
      BY <1>1, <1>2 DEF StoredInv, CleanDirs
    <3>2. set.cleanup => old.tb = <<>>
      BY <1>10, <3>1, Zenon DEF Filled
    <3>3. old.tb \in Seq(Int)
      <4>1. old \in Files
        BY <1>1, <1>3, Zenon DEF TypeInv
      <4> HIDE DEF old
      <4> QED
        BY <4>1 DEF Files
    <3>4. Timebase(d1) \in Seq(Int)
      BY <1>1, <1>5, TimebaseTypes
    <3>5. Written(old.tb, Timebase(d1)) = Timebase(d1)
      <4> HIDE DEF old, d1
      <4> QED
        BY <3>1, <3>2, <3>3, <3>4, WrittenTypes
    <3> QED
      BY <1>7, <2>1, <3>5, Zenon
  <2>9. cur' > 0 /\ line'.timed => msecs_start' = msecs_at_esoff'
    <3>1. cur > 0 /\ line.timed => msecs_start = msecs_at_esoff
      BY <1>1, Zenon DEF TimesInv
    <3> QED
      BY <1>2, <2>4, <3>1, Zenon
  <2>10. FirstDumped' /\ line'.timed => first_s1' = First((getEvents(dm))'[1], set'.pre)
    <3> SUFFICES ASSUME line.timed PROVE first_s1' = First(getEvents(dm)[1], set.pre)
      BY <1>2, <2>6, Zenon
    <3>1. CASE cur = 1
      <4>1. event_offset = d1.es[1]
        BY <2>2, <3>1, Zenon
      <4> QED
        BY <2>2, <2>3, <4>1, Zenon
    <3>2. CASE cur # 1
      <4>1. FirstDumped
        BY <1>4, <3>2 DEF FirstDumped
      <4>2. first_s1 = First(getEvents(dm)[1], set.pre)
        BY <1>1, <4>1, Zenon DEF TimesInv
      <4> QED
        BY <2>2, <2>3, <4>2, Zenon
    <3> QED
      BY <3>1, <3>2
  <2>11. CleanDirs' /\ Stamped' => disk'[WorkDir'].tb = (Timebase(dm[scanlist[1]]))'
    BY <2>5, <2>7, <2>8, Zenon
  <2>12. TimesInv'
    BY <1>2, <2>4, <2>9, <2>10, <2>11, Zenon DEF TimesInv
  <2> QED
    BY <2>4, <2>12, Zenon DEF LineInv
<1> QED
  BY <1>9, <1>10

\* In every state of the worker the quads hold what is read of the line, and
\* what the times are made from is that of the line.
THEOREM LineInvariance == Spec => [](IInv /\ LineInv)
<1>1. Init => IInv /\ LineInv
  <2>1. Init => LineInv
    BY IdleLine DEF Init
  <2> QED
    BY <2>1, InitIInv
<1>2. IInv /\ LineInv /\ [Next]_vars => LineInv'
  <2> SUFFICES ASSUME IInv, LineInv, [Next]_vars PROVE LineInv'
    OBVIOUS
  <2>1. ASSUME NEW l \in AnyLine, Fork(l) PROVE LineInv'
    BY <2>1, ForkLine
  <2>2. CASE LoadFails
    BY <2>2, ExitLine DEF LoadFails
  <2>3. CASE Load
    BY <2>3, LoadLine
  <2>4. CASE MakeDir
    BY <2>4, MakeDirLine
  <2>5. CASE DumpQuad
    BY <2>5, DumpQuadLine
  <2>6. CASE DumpFormat \/ Announce \/ RemoveOld \/ RenameDir
    BY <2>6, LaterLine
  <2>7. CASE Finish
    BY <2>7, ExitLine DEF Finish
  <2>8. CASE Killed
    BY <2>8, ExitLine DEF Killed
  <2>9. CASE Restart
    BY <2>9, RestartLine
  <2>10. CASE UNCHANGED vars
    BY <2>10, StutterLine
  <2> QED
    BY <2>1, <2>2, <2>3, <2>4, <2>5, <2>6, <2>7, <2>8, <2>9, <2>10, Zenon DEF Next
<1> QED
  BY <1>1, <1>2, Invariance, PTL DEF Spec

-----------------------------------------------------------------------------
\* Where the events and the samples are.

\* The signatures are those of the three blocks.
LEMMA SlotOf ==
    ASSUME NEW l \in AnyLine
    PROVE  /\ \A o \in l.es[0] : o \in SignatureSlots(l) /\ o \in Nat /\ o < TBLOCK_LEN
           /\ \A o \in l.es[1] : /\ TBLOCK_LEN + o \in SignatureSlots(l) /\ o \in Nat
                                 /\ o < TBLOCK_LEN
           /\ \A o \in l.es[2] : 2 * TBLOCK_LEN + o \in SignatureSlots(l) /\ o \in Nat
           /\ \A s \in SignatureSlots(l) :
                /\ s < TBLOCK_LEN => s \in l.es[0]
                /\ TBLOCK_LEN <= s /\ s < 2 * TBLOCK_LEN => s - TBLOCK_LEN \in l.es[1]
                /\ 2 * TBLOCK_LEN <= s => s - 2 * TBLOCK_LEN \in l.es[2]
<1>1. TBLOCK_LEN \in Nat
  BY WorkerAssumption
<1>2. \A b \in 0 .. 2 : \A o \in l.es[b] : o \in Nat /\ o < TBLOCK_LEN
  <2> SUFFICES ASSUME NEW b \in 0 .. 2, NEW o \in l.es[b] PROVE o \in Nat /\ o < TBLOCK_LEN
    OBVIOUS
  <2>1. o \in 0 .. TBLOCK_LEN - 1
    BY LineTypes
  <2> QED
    BY <1>1, <2>1
<1>3. \A b \in 0 .. 2 : \A o \in l.es[b] : b * TBLOCK_LEN + o \in SignatureSlots(l)
  BY DEF SignatureSlots
<1>4. ASSUME NEW s \in SignatureSlots(l)
      PROVE  \E b \in 0 .. 2 : \E o \in l.es[b] : s = b * TBLOCK_LEN + o
  BY <1>4 DEF SignatureSlots
<1>5. /\ \A o \in l.es[0] : 0 * TBLOCK_LEN + o \in SignatureSlots(l) /\ o \in Nat /\ o < TBLOCK_LEN
      /\ \A o \in l.es[1] : 1 * TBLOCK_LEN + o \in SignatureSlots(l) /\ o \in Nat /\ o < TBLOCK_LEN
      /\ \A o \in l.es[2] : 2 * TBLOCK_LEN + o \in SignatureSlots(l) /\ o \in Nat /\ o < TBLOCK_LEN
  <2>1. 0 \in 0 .. 2 /\ 1 \in 0 .. 2 /\ 2 \in 0 .. 2
    OBVIOUS
  <2> QED
    BY <1>2, <1>3, <2>1, Zenon
<1>6. ASSUME NEW s \in SignatureSlots(l)
      PROVE  \/ s \in l.es[0] /\ s < TBLOCK_LEN
             \/ s - TBLOCK_LEN \in l.es[1] /\ TBLOCK_LEN <= s /\ s < 2 * TBLOCK_LEN
             \/ s - 2 * TBLOCK_LEN \in l.es[2] /\ 2 * TBLOCK_LEN <= s
  <2>1. PICK b \in 0 .. 2 : \E o \in l.es[b] : s = b * TBLOCK_LEN + o
    BY <1>4
  <2>2. PICK o \in l.es[b] : s = b * TBLOCK_LEN + o
    BY <2>1
  <2>3. o \in Nat /\ o < TBLOCK_LEN
    BY <1>2
  <2>4. CASE b = 0
    <3>1. s = o
      BY <1>1, <2>2, <2>3, <2>4
    <3> QED
      BY <2>3, <2>4, <3>1
  <2>5. CASE b = 1
    <3>1. s = TBLOCK_LEN + o
      BY <1>1, <2>2, <2>3, <2>5
    <3>2. s - TBLOCK_LEN = o
      BY <1>1, <2>3, <3>1
    <3> QED
      BY <1>1, <2>3, <2>5, <3>1, <3>2
  <2>6. CASE b = 2
    <3>1. s = 2 * TBLOCK_LEN + o
      BY <2>2, <2>6
    <3>2. s - 2 * TBLOCK_LEN = o
      BY <1>1, <2>3, <3>1
    <3> QED
      BY <1>1, <2>3, <2>6, <3>1, <3>2
  <2>7. b = 0 \/ b = 1 \/ b = 2
    OBVIOUS
  <2> QED
    BY <2>4, <2>5, <2>6, <2>7
<1>7. \A s \in SignatureSlots(l) : s \in Nat
  BY <1>1, NumberTypes
<1>8. /\ \A o \in l.es[0] : 0 * TBLOCK_LEN + o = o
      /\ \A o \in l.es[1] : 1 * TBLOCK_LEN + o = TBLOCK_LEN + o
  BY <1>1, <1>5
<1>9. \A s \in SignatureSlots(l) :
                /\ s < TBLOCK_LEN => s \in l.es[0]
                /\ TBLOCK_LEN <= s /\ s < 2 * TBLOCK_LEN => s - TBLOCK_LEN \in l.es[1]
                /\ 2 * TBLOCK_LEN <= s => s - 2 * TBLOCK_LEN \in l.es[2]
  <2> SUFFICES ASSUME NEW s \in SignatureSlots(l)
               PROVE  /\ s < TBLOCK_LEN => s \in l.es[0]
                      /\ TBLOCK_LEN <= s /\ s < 2 * TBLOCK_LEN => s - TBLOCK_LEN \in l.es[1]
                      /\ 2 * TBLOCK_LEN <= s => s - 2 * TBLOCK_LEN \in l.es[2]
    OBVIOUS
  <2>1. s \in Nat
    BY <1>7
  <2>2. \/ s \in l.es[0] /\ s < TBLOCK_LEN
        \/ s - TBLOCK_LEN \in l.es[1] /\ TBLOCK_LEN <= s /\ s < 2 * TBLOCK_LEN
        \/ s - 2 * TBLOCK_LEN \in l.es[2] /\ 2 * TBLOCK_LEN <= s
    BY <1>6, Zenon
  <2> DEFINE first == s \in l.es[0]
             middle == s - TBLOCK_LEN \in l.es[1]
             right == s - 2 * TBLOCK_LEN \in l.es[2]
  <2>3. \/ first /\ s < TBLOCK_LEN
        \/ middle /\ TBLOCK_LEN <= s /\ s < 2 * TBLOCK_LEN
        \/ right /\ 2 * TBLOCK_LEN <= s
    BY <2>2, Zenon
  <2>4. /\ s < TBLOCK_LEN => first
        /\ TBLOCK_LEN <= s /\ s < 2 * TBLOCK_LEN => middle
        /\ 2 * TBLOCK_LEN <= s => right
    <3> HIDE DEF first, middle, right
    <3> QED
      BY <1>1, <2>1, <2>3
  <2> QED
    BY <2>4, Zenon
<1>10. /\ \A o \in l.es[0] : o \in SignatureSlots(l) /\ o \in Nat /\ o < TBLOCK_LEN
       /\ \A o \in l.es[1] : TBLOCK_LEN + o \in SignatureSlots(l) /\ o \in Nat /\ o < TBLOCK_LEN
       /\ \A o \in l.es[2] : 2 * TBLOCK_LEN + o \in SignatureSlots(l) /\ o \in Nat
  BY <1>5, <1>8
<1> QED
  BY <1>9, <1>10, Zenon

\* Where the slots that are read of the middle block begin and end: around its
\* signatures, with room for pre and post on a side that is trimmed.
LEMMA MiddleLimits ==
    ASSUME set \in Settings, PostFits, NEW l \in AnyLine
    PROVE  /\ CutStart(l, 1) \in Nat /\ CutStop(l, 1) \in Nat
           /\ TBLOCK_LEN <= CutStart(l, 1) /\ CutStop(l, 1) <= 2 * TBLOCK_LEN
           /\ CutStart(l, 1) <= TBLOCK_LEN + esoff(l) /\ TBLOCK_LEN + esoff2(l) < CutStop(l, 1)
           /\ ~ MiddleCut(l).adjusts => CutStart(l, 1) = TBLOCK_LEN
           /\ MiddleCut(l).adjusts => (TBLOCK_LEN + esoff(l)) - CutStart(l, 1) >= set.pre + 1
           /\ CutStop(l, 1) < 2 * TBLOCK_LEN =>
                    CutStop(l, 1) - (TBLOCK_LEN + esoff2(l)) >= set.post + 2
<1> DEFINE o == esoff(l)
           o2 == esoff2(l)
           low == round_up(set.pre) + ACQ132_BLOCKLEN
           high == TBLOCK_LEN - (round_up(set.post) + ACQ132_BLOCKLEN)
           late == round_down(o) > low
           from == IF late THEN round_down(o) - low ELSE 0
           cut == IF high < 0 \/ round_up(o2) < high THEN high - round_up(o2) ELSE 0
           start == CutStart(l, 1)
           stop == CutStop(l, 1)
<1>1. TBLOCK_LEN \in Nat /\ ACQ132_BLOCKLEN \in Nat /\ ACQ132_BLOCKLEN >= 2
  BY UnitLength, WorkerAssumption
<1>2. set.pre \in Nat /\ set.post \in Nat
  BY SettingTypes
<1>3. o \in Nat /\ o2 \in Nat /\ o <= o2 /\ o2 < TBLOCK_LEN
  BY <1>1, LineTypes
<1>4. /\ round_up(set.pre) \in Nat /\ set.pre <= round_up(set.pre)
      /\ round_up(set.post) \in Nat /\ set.post <= round_up(set.post)
      /\ round_down(o) \in Nat /\ round_down(o) <= o
      /\ round_up(o2) \in Nat /\ o2 <= round_up(o2)
  <2>1. ASSUME NEW n \in Nat PROVE /\ round_down(n) \in Nat /\ round_down(n) <= n
                                   /\ round_up(n) \in Nat /\ n <= round_up(n)
    BY Rounded, UnitsSum
  <2> HIDE DEF o, o2
  <2> QED
    BY <1>2, <1>3, <2>1
<1>5. high >= 0
  BY <1>1, <1>4 DEF PostFits
<1>6. MiddleCut(l) = Cut(from, TBLOCK_LEN - from - cut, late, from, TRUE)
  BY Zenon DEF MiddleCut
<1>7. BlockCut(l, 1).from = from /\ BlockCut(l, 1).len = TBLOCK_LEN - from - cut
      /\ (MiddleCut(l).adjusts <=> late)
  <2> HIDE DEF from, cut, late
  <2>1. BlockCut(l, 1) = MiddleCut(l)
    BY DEF BlockCut
  <2> QED
    BY <1>6, <2>1 DEF Cut
<1>8. start = 1 * TBLOCK_LEN + from /\ stop = start + (TBLOCK_LEN - from - cut)
  BY <1>7, Zenon DEF CutStart, CutStop
<1> HIDE DEF o, o2, start, stop
<1> DEFINE down == round_down(o)
           up2 == round_up(o2)
           pre == round_up(set.pre)
           post == round_up(set.post)
<1> HIDE DEF down, up2, pre, post
<1>9. /\ pre \in Nat /\ set.pre <= pre /\ post \in Nat /\ set.post <= post
      /\ down \in Nat /\ down <= o /\ up2 \in Nat /\ o2 <= up2
  BY <1>4 DEF down, up2, pre, post
<1>10. /\ low = pre + ACQ132_BLOCKLEN /\ high = TBLOCK_LEN - (post + ACQ132_BLOCKLEN)
       /\ (late <=> down > low)
       /\ from = (IF down > low THEN down - low ELSE 0)
       /\ cut = (IF up2 < high THEN high - up2 ELSE 0)
  <2>1. ~ (high < 0)
    BY <1>1, <1>5, <1>9 DEF post
  <2> QED
    BY <2>1, Zenon DEF down, up2, pre, post
<1> HIDE DEF low, high, late, from, cut
<1>11. low \in Nat /\ high \in Nat /\ from \in Nat /\ cut \in Nat
  <2>1. low \in Nat /\ high \in Int
    BY <1>1, <1>9, <1>10
  <2> QED
    BY <1>5, <1>9, <1>10, <2>1
<1>12. /\ from <= o /\ (~ late => from = 0) /\ (late => o - from >= set.pre + 1)
       /\ cut <= TBLOCK_LEN - (o2 + 1)
       /\ (cut > 0 => TBLOCK_LEN - cut - o2 >= set.post + 2)
  <2>1. CASE down > low
    <3>1. from = down - low
      BY <1>10, <2>1
    <3> QED
      BY <1>1, <1>2, <1>3, <1>9, <1>10, <1>11, <2>1, <3>1
  <2>2. CASE ~ (down > low)
    <3>1. from = 0
      BY <1>10, <2>2
    <3> QED
      BY <1>1, <1>2, <1>3, <1>9, <1>10, <1>11, <2>2, <3>1
  <2> QED
    BY <2>1, <2>2
<1>13. /\ start \in Nat /\ stop \in Nat /\ start = TBLOCK_LEN + from
       /\ stop = 2 * TBLOCK_LEN - cut
  BY <1>1, <1>3, <1>8, <1>11, <1>12
<1>14. /\ TBLOCK_LEN <= start /\ stop <= 2 * TBLOCK_LEN
       /\ start <= TBLOCK_LEN + o /\ TBLOCK_LEN + o2 < stop
       /\ ~ late => start = TBLOCK_LEN
       /\ late => (TBLOCK_LEN + o) - start >= set.pre + 1
       /\ stop < 2 * TBLOCK_LEN => stop - (TBLOCK_LEN + o2) >= set.post + 2
  BY <1>1, <1>2, <1>3, <1>11, <1>12, <1>13
<1> QED
  BY <1>7, <1>13, <1>14, Zenon DEF o, o2, start, stop

\* The signatures of the middle block are among what is read of it, with pre
\* before them and post after them on a side that is trimmed.
LEMMA EventPlace ==
    ASSUME set \in Settings, PostFits, NEW l \in AnyLine, NEW o \in l.es[1]
    PROVE  /\ TBLOCK_LEN + o \in SignatureSlots(l) /\ TBLOCK_LEN + o \in Nat
           /\ CutStart(l, 1) <= TBLOCK_LEN + o /\ TBLOCK_LEN + o < CutStop(l, 1)
           /\ Number(l, CutStart(l, 1)) \in Nat /\ Number(l, CutStop(l, 1)) \in Nat
           /\ Number(l, TBLOCK_LEN + o) \in Nat
           /\ Number(l, CutStart(l, 1)) <= Number(l, TBLOCK_LEN + o)
           /\ Number(l, TBLOCK_LEN + o) <= Number(l, CutStop(l, 1))
           /\ MiddleCut(l).adjusts =>
                Number(l, TBLOCK_LEN + o) - Number(l, CutStart(l, 1)) >= set.pre + 1
           /\ CutStop(l, 1) < 2 * TBLOCK_LEN =>
                Number(l, CutStop(l, 1)) - Number(l, TBLOCK_LEN + o) >= set.post + 1
<1> DEFINE a == CutStart(l, 1)
           z == CutStop(l, 1)
           s == TBLOCK_LEN + o
           s1 == TBLOCK_LEN + esoff(l)
           s2 == TBLOCK_LEN + esoff2(l)
<1>1. TBLOCK_LEN \in Nat /\ set.pre \in Nat /\ set.post \in Nat
  BY SettingTypes, WorkerAssumption
<1>2. /\ a \in Nat /\ z \in Nat /\ TBLOCK_LEN <= a /\ z <= 2 * TBLOCK_LEN
      /\ a <= s1 /\ s2 < z
      /\ MiddleCut(l).adjusts => s1 - a >= set.pre + 1
      /\ z < 2 * TBLOCK_LEN => z - s2 >= set.post + 2
  BY MiddleLimits, Zenon
<1>3. /\ l.es[1] \subseteq 0 .. TBLOCK_LEN - 1 /\ l.es[1] # {}
  <2>1. 1 \in 0 .. 2
    OBVIOUS
  <2> QED
    BY <2>1, LineTypes, WorkerAssumption
<1>4. /\ esoff(l) \in l.es[1] /\ \A n \in l.es[1] : esoff(l) <= n
      /\ esoff2(l) \in l.es[1] /\ \A n \in l.es[1] : n <= esoff2(l)
  <2>1. l.es[1] \subseteq Nat /\ TBLOCK_LEN - 1 \in Nat
    BY <1>1, <1>3
  <2> QED
    BY <1>3, <2>1, LeastOf, GreatestOf, Zenon DEF esoff, esoff2
<1>5. /\ s \in SignatureSlots(l) /\ s2 \in SignatureSlots(l) /\ o \in Nat
      /\ esoff(l) \in Nat /\ esoff2(l) \in Nat /\ esoff(l) <= o /\ o <= esoff2(l)
  <2>1. \A n \in l.es[1] : TBLOCK_LEN + n \in SignatureSlots(l) /\ n \in Nat
    BY SlotOf
  <2> QED
    BY <1>4, <2>1
<1> HIDE DEF a, z
<1>6. /\ s \in Nat /\ s1 \in Nat /\ s2 \in Nat /\ a <= s1 /\ s1 <= s /\ s <= s2 /\ s2 < z
  BY <1>1, <1>2, <1>5
<1>7. ASSUME NEW t \in SignatureSlots(l), a <= t, t < z PROVE s1 <= t /\ t <= s2
  <2>1. t \in Nat
    BY <1>6, NumberTypes
  <2>2. TBLOCK_LEN <= t /\ t < 2 * TBLOCK_LEN
    BY <1>1, <1>2, <1>7, <2>1
  <2>3. t - TBLOCK_LEN \in l.es[1]
    BY <2>2, SlotOf
  <2>4. esoff(l) <= t - TBLOCK_LEN /\ t - TBLOCK_LEN <= esoff2(l)
    BY <1>4, <2>3, Zenon
  <2> QED
    BY <1>1, <1>5, <2>1, <2>4
<1> HIDE DEF s, s1, s2
<1>8. /\ Number(l, a) \in Nat /\ Number(l, s1) \in Nat /\ Number(l, s) \in Nat
      /\ Number(l, s2) \in Nat /\ Number(l, z) \in Nat
      /\ Number(l, a) <= Number(l, s1) /\ Number(l, s1) <= Number(l, s)
      /\ Number(l, s) <= Number(l, s2) /\ Number(l, s2) <= Number(l, z)
  <2>1. s2 <= z
    BY <1>2, <1>6
  <2> QED
    BY <1>2, <1>6, <2>1, NumbersGrow
<1>9. Number(l, s1) - Number(l, a) = s1 - a
  <2>1. \A t \in SignatureSlots(l) : ~ (a <= t /\ t < s1)
    <3> SUFFICES ASSUME NEW t \in SignatureSlots(l), a <= t, t < s1 PROVE FALSE
      OBVIOUS
    <3>1. t \in Nat
      BY <1>6, NumberTypes
    <3>2. t < z
      BY <1>2, <1>6, <3>1
    <3> QED
      BY <1>6, <1>7, <3>1, <3>2
  <2> QED
    BY <1>2, <1>6, <2>1, NumbersGrow
<1>10. Number(l, z) - Number(l, s2) = z - s2 - 1
  <2>1. \A t \in SignatureSlots(l) : ~ (s2 < t /\ t < z)
    <3> SUFFICES ASSUME NEW t \in SignatureSlots(l), s2 < t, t < z PROVE FALSE
      OBVIOUS
    <3>1. t \in Nat
      BY <1>6, NumberTypes
    <3>2. a <= t
      BY <1>2, <1>6, <3>1
    <3> QED
      BY <1>6, <1>7, <3>1, <3>2
  <2> QED
    BY <1>2, <1>5, <1>6, <2>1, SampleAfter
<1>11. /\ MiddleCut(l).adjusts => Number(l, s) - Number(l, a) >= set.pre + 1
       /\ z < 2 * TBLOCK_LEN => Number(l, z) - Number(l, s) >= set.post + 1
  <2> DEFINE na == Number(l, a)
             n1 == Number(l, s1)
             n == Number(l, s)
             n2 == Number(l, s2)
             nz == Number(l, z)
  <2>1. /\ na \in Nat /\ n1 \in Nat /\ n \in Nat /\ n2 \in Nat /\ nz \in Nat
        /\ n1 <= n /\ n <= n2 /\ n1 - na = s1 - a /\ nz - n2 = z - s2 - 1
    BY <1>8, <1>9, <1>10, Zenon
  <2> HIDE DEF na, n1, n, n2, nz
  <2>2. MiddleCut(l).adjusts => n - na >= set.pre + 1
    BY <1>1, <1>2, <1>6, <2>1
  <2>3. z < 2 * TBLOCK_LEN => nz - n >= set.post + 1
    BY <1>1, <1>2, <1>6, <2>1
  <2> QED
    BY <2>2, <2>3 DEF na, n, nz
<1>12. a <= s /\ s < z /\ Number(l, a) <= Number(l, s) /\ Number(l, s) <= Number(l, z)
  BY <1>2, <1>6, <1>8
<1> QED
  BY <1>5, <1>6, <1>8, <1>11, <1>12, Zenon DEF a, z, s

\* No others are.
LEMMA MiddleBetween ==
    ASSUME set \in Settings, PostFits, NEW l \in AnyLine, NEW v
    PROVE  v \in Between(l, CutStart(l, 1), CutStop(l, 1)) <=> \E o \in l.es[1] : v = TBLOCK_LEN + o
<1> DEFINE a == CutStart(l, 1)
           z == CutStop(l, 1)
<1>1. /\ a \in Nat /\ z \in Nat /\ TBLOCK_LEN <= a /\ z <= 2 * TBLOCK_LEN /\ TBLOCK_LEN \in Nat
  BY MiddleLimits, WorkerAssumption, Zenon
<1> HIDE DEF a, z
<1>2. ASSUME v \in Between(l, a, z) PROVE \E o \in l.es[1] : v = TBLOCK_LEN + o
  <2>1. v \in SignatureSlots(l) /\ a <= v /\ v < z
    BY <1>2 DEF Between
  <2>2. v \in Nat
    BY <1>1, <2>1, NumberTypes
  <2>3. TBLOCK_LEN <= v /\ v < 2 * TBLOCK_LEN /\ v = TBLOCK_LEN + (v - TBLOCK_LEN)
    BY <1>1, <2>1, <2>2
  <2>4. v - TBLOCK_LEN \in l.es[1]
    BY <2>1, <2>3, SlotOf
  <2> QED
    BY <2>3, <2>4
<1>3. ASSUME NEW o \in l.es[1] PROVE TBLOCK_LEN + o \in Between(l, a, z)
  <2>1. TBLOCK_LEN + o \in SignatureSlots(l) /\ a <= TBLOCK_LEN + o /\ TBLOCK_LEN + o < z
    BY EventPlace, Zenon DEF a, z
  <2> QED
    BY <2>1 DEF Between
<1> QED
  BY <1>2, <1>3, Zenon DEF a, z

\* What is read of the neighbours touches the middle block.
LEMMA SideLimits ==
    ASSUME set \in Settings, PostFits, NEW l \in AnyLine
    PROVE  /\ CutStop(l, 0) = TBLOCK_LEN /\ CutStart(l, 0) = TBLOCK_LEN - round_up(set.pre)
           /\ round_up(set.pre) \in Nat /\ set.pre <= round_up(set.pre)
           /\ round_up(set.pre) <= TBLOCK_LEN
           /\ CutStart(l, 2) = 2 * TBLOCK_LEN /\ CutStop(l, 2) = 2 * TBLOCK_LEN + round_up(set.post)
           /\ round_up(set.post) \in Nat /\ set.post <= round_up(set.post)
           /\ round_up(set.post) <= TBLOCK_LEN
<1>1. TBLOCK_LEN \in Nat /\ set.pre \in Nat /\ set.post \in Nat /\ ACQ132_BLOCKLEN \in Nat
  BY SettingTypes, UnitLength, WorkerAssumption
<1>2. /\ round_up(set.pre) \in Nat /\ set.pre <= round_up(set.pre)
      /\ round_up(set.post) \in Nat /\ set.post <= round_up(set.post)
  BY <1>1, Rounded, UnitsSum
<1>3. /\ BlockCut(l, 0).from = TBLOCK_LEN - round_up(set.pre) /\ BlockCut(l, 0).len = round_up(set.pre)
      /\ BlockCut(l, 2).from = 0 /\ BlockCut(l, 2).len = round_up(set.post)
  BY DEF BlockCut, LeftCut, RightCut, Cut
<1>4. BlockCut(l, 0).from \in Nat
  <2>1. 0 \in 0 .. 2
    OBVIOUS
  <2> QED
    BY <2>1, CutInside
<1> DEFINE pre == round_up(set.pre)
           post == round_up(set.post)
<1> HIDE DEF pre, post
<1>5. pre \in Nat /\ post \in Nat /\ TBLOCK_LEN - pre \in Nat
  BY <1>2, <1>3, <1>4 DEF pre, post
<1>6. /\ 0 * TBLOCK_LEN + (TBLOCK_LEN - pre) = TBLOCK_LEN - pre
      /\ (TBLOCK_LEN - pre) + pre = TBLOCK_LEN /\ pre <= TBLOCK_LEN
      /\ 2 * TBLOCK_LEN + 0 = 2 * TBLOCK_LEN
  BY <1>1, <1>5
<1>7. post <= TBLOCK_LEN
  BY <1>1, <1>2 DEF PostFits, post
<1>8. CutStart(l, 0) = TBLOCK_LEN - pre /\ CutStart(l, 2) = 2 * TBLOCK_LEN
  BY <1>3, <1>6, Zenon DEF CutStart, pre
<1>9. CutStop(l, 0) = TBLOCK_LEN /\ CutStop(l, 2) = 2 * TBLOCK_LEN + post
  BY <1>3, <1>6, <1>8, Zenon DEF CutStop, pre, post
<1> QED
  BY <1>2, <1>6, <1>7, <1>8, <1>9, Zenon DEF pre, post

\* How much is read before the end of the middle block, and after it.
UptoLen(l, G) == LeftLen(l, G) + (Number(l, CutStop(l, 1)) - Number(l, CutStart(l, 1)))
RightLen(l, G) == IF 2 \in G THEN Number(l, CutStop(l, 2)) - Number(l, CutStart(l, 2)) ELSE 0
\* The number of the first sample, if there is no gap before the middle block.
Base(l, G) == Number(l, CutStart(l, 1)) - LeftLen(l, G)

\* Where the samples of a line are in what is read of it: but for the gaps
\* where the middle block is trimmed they follow each other.
LEMMA ContentsAt ==
    ASSUME set \in Settings, PostFits, NEW l \in AnyLine, NEW q \in Quads, NEW G, 1 \in G
    PROVE  /\ Contents(l, q, G) \in Seq(Rows)
           /\ LeftLen(l, G) \in Nat /\ UptoLen(l, G) \in Nat /\ LeftLen(l, G) <= UptoLen(l, G)
           /\ RightLen(l, G) \in Nat /\ Base(l, G) \in Int
           /\ Len(Contents(l, q, G)) = UptoLen(l, G) + RightLen(l, G)
           /\ \A j \in 1 .. UptoLen(l, G) + RightLen(l, G) :
                /\ j <= LeftLen(l, G) => ~ MiddleCut(l).adjusts
                /\ j > UptoLen(l, G) => CutStop(l, 1) = 2 * TBLOCK_LEN
                => Contents(l, q, G)[j] = Sample(q, Base(l, G) + (j - 1))
<1> DEFINE p0 == PieceOf(l, q, 0, G)
           p1 == PieceOf(l, q, 1, G)
           p2 == PieceOf(l, q, 2, G)
           a == Number(l, CutStart(l, 1))
           z == Number(l, CutStop(l, 1))
           n0 == LeftLen(l, G)
           n1 == UptoLen(l, G)
           n2 == RightLen(l, G)
           base == Base(l, G)
<1>1. /\ CutStart(l, 1) \in Nat /\ CutStop(l, 1) \in Nat /\ CutStart(l, 1) <= CutStop(l, 1)
      /\ CutStart(l, 0) \in Nat /\ CutStop(l, 0) \in Nat /\ CutStart(l, 0) <= CutStop(l, 0)
      /\ CutStart(l, 2) \in Nat /\ CutStop(l, 2) \in Nat /\ CutStart(l, 2) <= CutStop(l, 2)
  <2>1. 0 \in 0 .. 2 /\ 1 \in 0 .. 2 /\ 2 \in 0 .. 2
    OBVIOUS
  <2> QED
    BY <2>1, CutSlots
<1>2. /\ p0 \in Seq(Rows) /\ p1 \in Seq(Rows) /\ p2 \in Seq(Rows)
      /\ Len(p0) = n0 /\ Len(p1) = z - a /\ Len(p2) = n2
  <2>1. 0 \in 0 .. 2 /\ 1 \in 0 .. 2 /\ 2 \in 0 .. 2
    OBVIOUS
  <2>2. p0 \in Seq(Rows) /\ Len(p0) = n0
    BY <2>1, PieceOfTypes, Zenon DEF LeftLen
  <2>3. p2 \in Seq(Rows) /\ Len(p2) = n2
    <3>1. /\ PieceOf(l, q, 2, G) \in Seq(Rows)
          /\ Len(PieceOf(l, q, 2, G)) =
                IF 2 \in G THEN Number(l, CutStop(l, 2)) - Number(l, CutStart(l, 2)) ELSE 0
      BY <2>1, PieceOfTypes
    <3> QED
      BY <3>1, Zenon DEF RightLen
  <2>4. p1 \in Seq(Rows) /\ Len(p1) = IF 1 \in G THEN z - a ELSE 0
    <3>1. /\ PieceOf(l, q, 1, G) \in Seq(Rows)
          /\ Len(PieceOf(l, q, 1, G)) =
                IF 1 \in G THEN Number(l, CutStop(l, 1)) - Number(l, CutStart(l, 1)) ELSE 0
      BY <2>1, PieceOfTypes
    <3> QED
      BY <3>1, Zenon
  <2>5. Len(p1) = z - a
    BY <2>4, Zenon
  <2> HIDE DEF p0, p1, p2, n0, n2, a, z
  <2> QED
    BY <2>2, <2>3, <2>4, <2>5
<1>3. a \in Nat /\ z \in Nat /\ a <= z
  BY <1>1, NumbersGrow
<1>4. n0 \in Nat /\ n2 \in Nat
  BY <1>2, LenProperties
<1>5. n1 = n0 + (z - a) /\ base = a - n0
  BY Zenon DEF UptoLen, Base
<1>6. Contents(l, q, G) = (p0 \o p1) \o p2
  BY Zenon DEF Contents
<1>7. ASSUME NEW i \in 1 .. z - a PROVE p1[i] = Sample(q, a + i - 1)
  <2>1. p1 = Piece(l, q, CutStart(l, 1), CutStop(l, 1))
    BY Zenon DEF PieceOf
  <2>2. Piece(l, q, CutStart(l, 1), CutStop(l, 1))[i] = Sample(q, a + i - 1)
    <3>1. CutStart(l, 1) \in Nat /\ CutStop(l, 1) \in Nat /\ CutStart(l, 1) <= CutStop(l, 1)
      BY <1>1, Zenon
    <3>2. \A k \in 1 .. z - a :
                Piece(l, q, CutStart(l, 1), CutStop(l, 1))[k] = Sample(q, a + k - 1)
      BY <3>1, PieceTypes, Zenon
    <3> QED
      BY <3>2, Zenon
  <2> QED
    BY <2>1, <2>2, Zenon
<1>8. ASSUME NEW i \in 1 .. n0, ~ MiddleCut(l).adjusts PROVE p0[i] = Sample(q, (a - n0) + i - 1)
  <2>1. 0 \in G
    BY <1>8 DEF LeftLen
  <2>2. p0 = Piece(l, q, CutStart(l, 0), CutStop(l, 0))
    BY <2>1, Zenon DEF PieceOf
  <2>3. n0 = Number(l, CutStop(l, 0)) - Number(l, CutStart(l, 0))
    BY <2>1, Zenon DEF LeftLen
  <2>4. CutStop(l, 0) = CutStart(l, 1)
    <3>1. CutStart(l, 1) = TBLOCK_LEN /\ CutStop(l, 0) = TBLOCK_LEN
      BY <1>8, MiddleLimits, SideLimits, Zenon
    <3> QED
      BY <3>1
  <2>5. Number(l, CutStart(l, 0)) \in Nat
    BY <1>1, NumberTypes
  <2> DEFINE m == Number(l, CutStart(l, 0))
  <2>6. p0[i] = Sample(q, m + i - 1)
    <3>1. i \in 1 .. Number(l, CutStop(l, 0)) - Number(l, CutStart(l, 0))
      BY <2>3, Zenon
    <3>2. CutStart(l, 0) \in Nat /\ CutStop(l, 0) \in Nat /\ CutStart(l, 0) <= CutStop(l, 0)
      BY <1>1, Zenon
    <3>3. Piece(l, q, CutStart(l, 0), CutStop(l, 0))[i] = Sample(q, m + i - 1)
      BY <3>1, <3>2, PieceTypes, Zenon
    <3> QED
      BY <2>2, <3>3, Zenon
  <2>7. m \in Nat /\ n0 = a - m
    BY <2>3, <2>4, <2>5, Zenon
  <2> HIDE DEF m, n0, a
  <2>8. m = a - n0
    BY <1>3, <2>7
  <2> QED
    BY <2>6, <2>8, Zenon
<1>9. ASSUME NEW i \in 1 .. n2, CutStop(l, 1) = 2 * TBLOCK_LEN PROVE p2[i] = Sample(q, z + i - 1)
  <2>1. 2 \in G
    BY <1>9 DEF RightLen
  <2>2. p2 = Piece(l, q, CutStart(l, 2), CutStop(l, 2))
    BY <2>1, Zenon DEF PieceOf
  <2>3. n2 = Number(l, CutStop(l, 2)) - Number(l, CutStart(l, 2))
    BY <2>1, Zenon DEF RightLen
  <2>4. CutStart(l, 2) = CutStop(l, 1)
    <3>1. CutStart(l, 2) = 2 * TBLOCK_LEN
      BY SideLimits, Zenon
    <3> QED
      BY <1>9, <3>1
  <2>5. p2[i] = Sample(q, Number(l, CutStart(l, 2)) + i - 1)
    <3>1. i \in 1 .. Number(l, CutStop(l, 2)) - Number(l, CutStart(l, 2))
      BY <2>3, Zenon
    <3>2. CutStart(l, 2) \in Nat /\ CutStop(l, 2) \in Nat /\ CutStart(l, 2) <= CutStop(l, 2)
      BY <1>1, Zenon
    <3>3. Piece(l, q, CutStart(l, 2), CutStop(l, 2))[i] = Sample(q, Number(l, CutStart(l, 2)) + i - 1)
      BY <3>1, <3>2, PieceTypes, Zenon
    <3> QED
      BY <2>2, <3>3, Zenon
  <2> QED
    BY <2>4, <2>5, Zenon
<1> HIDE DEF p0, p1, p2, a, z, n0, n1, n2, base
<1>10. n1 \in Nat /\ n0 <= n1 /\ base \in Int
  BY <1>3, <1>4, <1>5
<1>11. p0 \o p1 \in Seq(Rows) /\ Len(p0 \o p1) = n1
  BY <1>2, <1>5, ConcatProperties
<1> DEFINE c == (p0 \o p1) \o p2
<1>12. c \in Seq(Rows) /\ Len(c) = n1 + n2
  BY <1>2, <1>11, ConcatProperties
<1>13. ASSUME NEW j \in 1 .. n1 + n2,
              j <= n0 => ~ MiddleCut(l).adjusts,
              j > n1 => CutStop(l, 1) = 2 * TBLOCK_LEN
       PROVE  c[j] = Sample(q, base + (j - 1))
  <2>1. /\ j <= n1 => c[j] = (p0 \o p1)[j]
        /\ j > n1 => c[j] = p2[j - n1]
    <3>1. \A i \in 1 .. n1 + n2 : c[i] = IF i <= n1 THEN (p0 \o p1)[i] ELSE p2[i - n1]
      BY <1>2, <1>11, ConcatProperties
    <3> HIDE DEF c
    <3>2. c[j] = IF j <= n1 THEN (p0 \o p1)[j] ELSE p2[j - n1]
      BY <3>1, Zenon
    <3>3. j > n1 => ~ (j <= n1)
      BY <1>10
    <3> QED
      BY <3>2, <3>3, Zenon
  <2> HIDE DEF c
  <2>2. CASE j <= n0
    <3>1. j \in 1 .. n0 /\ j <= n1
      BY <1>4, <1>10, <2>2
    <3>2. (p0 \o p1)[j] = p0[j]
      BY <1>2, <1>3, <3>1, ConcatProperties
    <3>3. p0[j] = Sample(q, (a - n0) + j - 1)
      BY <1>8, <1>13, <2>2, <3>1, Zenon
    <3>4. (a - n0) + j - 1 = base + (j - 1)
      BY <1>3, <1>4, <1>5
    <3> QED
      BY <2>1, <3>1, <3>2, <3>3, <3>4, Zenon
  <2>3. CASE j > n0 /\ j <= n1
    <3>1. j - n0 \in 1 .. z - a
      BY <1>3, <1>4, <1>5, <2>3
    <3>2. (p0 \o p1)[j] = p1[j - n0]
      BY <1>2, <1>3, <1>4, <1>5, <2>3, ConcatProperties
    <3>3. p1[j - n0] = Sample(q, a + (j - n0) - 1)
      BY <1>7, <3>1, Zenon
    <3>4. a + (j - n0) - 1 = base + (j - 1)
      BY <1>3, <1>4, <1>5
    <3> QED
      BY <2>1, <2>3, <3>2, <3>3, <3>4, Zenon
  <2>4. CASE j > n1
    <3>1. j - n1 \in 1 .. n2
      BY <1>4, <1>10, <2>4
    <3>2. p2[j - n1] = Sample(q, z + (j - n1) - 1)
      BY <1>9, <1>13, <2>4, <3>1, Zenon
    <3>3. z + (j - n1) - 1 = base + (j - 1)
      BY <1>3, <1>4, <1>5
    <3> QED
      BY <2>1, <2>4, <3>2, <3>3, Zenon
  <2> QED
    <3>1. j <= n0 \/ (j > n0 /\ j <= n1) \/ j > n1
      BY <1>4, <1>10
    <3> QED
      BY <2>2, <2>3, <2>4, <3>1, Zenon
<1> QED
  BY <1>4, <1>6, <1>10, <1>12, <1>13, Zenon DEF c, n0, n1, n2, base

\* The cursor of a signature of the middle block.
CursorOf(l, G, o) == CursorAt(l, LeftLen(l, G), CutStart(l, 1), TBLOCK_LEN + o)

\* It is in what is read of the block, and as far into it as the sample.
LEMMA CursorPlace ==
    ASSUME set \in Settings, PostFits, NEW l \in AnyLine, NEW G, 1 \in G,
           LeftLen(l, G) \in Nat, NEW o \in l.es[1]
    PROVE  /\ CursorOf(l, G, o) \in Nat
           /\ LeftLen(l, G) <= CursorOf(l, G, o) /\ CursorOf(l, G, o) <= UptoLen(l, G)
           /\ Number(l, TBLOCK_LEN + o) \in Nat
           /\ Number(l, TBLOCK_LEN + o) = Base(l, G) + CursorOf(l, G, o)
           /\ MiddleCut(l).adjusts => CursorOf(l, G, o) - LeftLen(l, G) >= set.pre + 1
           /\ CutStop(l, 1) < 2 * TBLOCK_LEN => UptoLen(l, G) - CursorOf(l, G, o) >= set.post + 1
<1> DEFINE a == Number(l, CutStart(l, 1))
           z == Number(l, CutStop(l, 1))
           n == Number(l, TBLOCK_LEN + o)
           n0 == LeftLen(l, G)
           n1 == UptoLen(l, G)
           c == CursorOf(l, G, o)
           base == Base(l, G)
<1>1. /\ a \in Nat /\ z \in Nat /\ n \in Nat /\ a <= n /\ n <= z
      /\ MiddleCut(l).adjusts => n - a >= set.pre + 1
      /\ CutStop(l, 1) < 2 * TBLOCK_LEN => z - n >= set.post + 1
  BY EventPlace, Zenon
<1>2. n0 \in Nat
  OBVIOUS
<1>3. n1 = n0 + (z - a) /\ c = n0 + (n - a) /\ base = a - n0
  BY Zenon DEF UptoLen, CursorOf, CursorAt, Base
<1>4. set.pre \in Nat /\ set.post \in Nat
  BY SettingTypes
<1> HIDE DEF a, z, n, n0, n1, c, base
<1>5. /\ c \in Nat /\ n0 <= c /\ c <= n1 /\ n = base + c
      /\ c - n0 = n - a /\ n1 - c = z - n
  BY <1>1, <1>2, <1>3
<1>6. /\ MiddleCut(l).adjusts => c - n0 >= set.pre + 1
      /\ CutStop(l, 1) < 2 * TBLOCK_LEN => n1 - c >= set.post + 1
  BY <1>1, <1>5, Zenon
<1> QED
  BY <1>1, <1>5, <1>6, Zenon DEF n, n0, n1, c, base

\* The cursors are those of the signatures of the middle block.
LEMMA CursorsAre ==
    ASSUME set \in Settings, PostFits, NEW l \in AnyLine, NEW G, 1 \in G, NEW v
    PROVE  v \in Cursors(l, G) <=> \E o \in l.es[1] : v = CursorOf(l, G, o)
<1> DEFINE C(s) == CursorAt(l, LeftLen(l, G), CutStart(l, 1), s)
<1>1. v \in Cursors(l, G) <=> \E s \in Between(l, CutStart(l, 1), CutStop(l, 1)) : v = C(s)
  BY DEF Cursors, CursorsOf
<1>2. \A s : s \in Between(l, CutStart(l, 1), CutStop(l, 1)) <=>
                \E o \in l.es[1] : s = TBLOCK_LEN + o
  BY MiddleBetween
<1>3. \A o : CursorOf(l, G, o) = C(TBLOCK_LEN + o)
  BY Zenon DEF CursorOf
<1> HIDE DEF C
<1> QED
  BY <1>1, <1>2, <1>3, Zenon

\* The sample that a cursor stands for is that of the signature.
LEMMA NumberFound ==
    ASSUME set \in Settings, PostFits, line \in AnyLine, NEW q \in Quads, NEW G, 1 \in G,
           NEW o \in line.es[1], NEW dq, dq.data = Contents(line, q, G)
    PROVE  NumberAt(dq, CursorOf(line, G, o)) = Number(line, TBLOCK_LEN + o)
<1> DEFINE data == Contents(line, q, G)
           n0 == LeftLen(line, G)
           n1 == UptoLen(line, G)
           n2 == RightLen(line, G)
           base == Base(line, G)
           c == CursorOf(line, G, o)
           n == Number(line, TBLOCK_LEN + o)
           late == MiddleCut(line).adjusts
           whole == CutStop(line, 1) = 2 * TBLOCK_LEN
<1>1. /\ data \in Seq(Rows) /\ n0 \in Nat /\ n1 \in Nat /\ n0 <= n1
      /\ n2 \in Nat /\ base \in Int /\ Len(data) = n1 + n2
      /\ \A j \in 1 .. n1 + n2 :
                /\ j <= n0 => ~ late
                /\ j > n1 => whole
                => data[j] = Sample(q, base + (j - 1))
  BY ContentsAt
<1>2. /\ c \in Nat /\ n0 <= c /\ c <= n1 /\ n \in Nat /\ n = base + c
      /\ late => c - n0 >= set.pre + 1
      /\ CutStop(line, 1) < 2 * TBLOCK_LEN => n1 - c >= set.post + 1
  BY <1>1, CursorPlace, Zenon
<1>3. set.pre \in Nat /\ set.post \in Nat /\ TBLOCK_LEN \in Nat
  BY SettingTypes, WorkerAssumption
<1>4. late => n0 < c
  <2> HIDE DEF n0, c, late
  <2> QED
    BY <1>1, <1>2, <1>3
<1>5. c = n1 => whole
  <2> SUFFICES ASSUME c = n1, CutStop(line, 1) # 2 * TBLOCK_LEN PROVE FALSE
    OBVIOUS
  <2>1. CutStop(line, 1) \in Nat /\ CutStop(line, 1) <= 2 * TBLOCK_LEN
    BY MiddleLimits, Zenon
  <2> DEFINE z == CutStop(line, 1)
  <2>2. z < 2 * TBLOCK_LEN
    <3> HIDE DEF z
    <3>1. z \in Nat /\ z <= 2 * TBLOCK_LEN /\ z # 2 * TBLOCK_LEN
      BY <2>1, Zenon DEF z
    <3> QED
      BY <1>3, <3>1
  <2> HIDE DEF n1, c
  <2> QED
    BY <1>1, <1>2, <1>3, <2>2
<1>6. ~ late => (n0 = 0 => base = Number(line, TBLOCK_LEN))
  <2> SUFFICES ASSUME ~ late, n0 = 0 PROVE base = Number(line, TBLOCK_LEN)
    OBVIOUS
  <2>1. CutStart(line, 1) = TBLOCK_LEN
    BY MiddleLimits, Zenon
  <2>2. base = Number(line, TBLOCK_LEN) - 0
    BY <2>1, Zenon DEF Base
  <2>3. Number(line, TBLOCK_LEN) \in Nat
    BY <1>3, NumberTypes
  <2> QED
    BY <2>2, <2>3
<1>7. NumberAt(dq, c) = IF c < Len(data) THEN data[c + 1].n
                        ELSE IF data = <<>> THEN Number(line, TBLOCK_LEN) ELSE Last(data).n + 1
  BY Zenon DEF NumberAt
<1>8. \A m : Sample(q, m).n = m
  BY DEF Sample
<1> SUFFICES NumberAt(dq, c) = n
  OBVIOUS
<1> HIDE DEF data, n0, n1, n2, base, c, n, late, whole
<1>9. CASE c < Len(data)
  <2>1. c + 1 \in 1 .. n1 + n2 /\ (c + 1) - 1 = c
    BY <1>1, <1>2, <1>9
  <2>2. c + 1 <= n0 => ~ late
    BY <1>1, <1>2
  <2>3. c + 1 > n1 => whole
    BY <1>1, <1>2, <1>5
  <2>4. data[c + 1] = Sample(q, base + ((c + 1) - 1))
    BY <1>1, <2>1, <2>2, <2>3, Zenon
  <2>5. data[c + 1].n = base + c
    BY <1>8, <2>1, <2>4, Zenon
  <2> QED
    BY <1>2, <1>7, <1>9, <2>5, Zenon
<1>10. CASE ~ (c < Len(data)) /\ data # <<>>
  <2> DEFINE j == Len(data)
  <2>1. j \in 1 .. n1 + n2 /\ j = c /\ j = n1
    <3>1. j # 0 /\ j \in Nat
      BY <1>1, <1>10, EmptySeq
    <3> HIDE DEF j
    <3>2. j = n1 + n2 /\ ~ (c < j)
      BY <1>1, <1>10, Zenon DEF j
    <3> QED
      BY <1>1, <1>2, <3>1, <3>2
  <2>2. j <= n0 => ~ late
    BY <1>1, <1>4, <2>1
  <2>3. ~ (j > n1)
    BY <1>1, <2>1
  <2>4. data[j] = Sample(q, base + (j - 1))
    BY <1>1, <2>1, <2>2, <2>3, Zenon
  <2>5. Last(data).n = base + (c - 1)
    BY <1>8, <2>1, <2>4, Zenon DEF Last
  <2>6. (base + (c - 1)) + 1 = n
    BY <1>1, <1>2
  <2> QED
    BY <1>7, <1>10, <2>5, <2>6, Zenon
<1>11. CASE ~ (c < Len(data)) /\ data = <<>>
  <2>1. n1 + n2 = 0
    BY <1>1, <1>11, EmptySeq
  <2>2. n0 = 0 /\ c = 0
    BY <1>1, <1>2, <2>1
  <2>3. ~ late
    BY <1>1, <1>2, <1>4, <2>2
  <2>4. base + c = Number(line, TBLOCK_LEN)
    <3>1. base = Number(line, TBLOCK_LEN)
      BY <1>6, <2>2, <2>3, Zenon
    <3> QED
      BY <1>1, <2>2, <3>1
  <2> QED
    BY <1>2, <1>7, <1>11, <2>4, Zenon
<1> QED
  BY <1>9, <1>10, <1>11, Zenon

\* Where a window ends.
Until(dq, sc, post) == IF sc + post <= Len(dq.data) THEN sc + post ELSE Len(dq.data)

\* The window of an event is of samples that follow each other.
LEMMA WindowContent ==
    ASSUME set \in Settings, PostFits, line \in AnyLine, NEW q \in Quads, NEW G, 1 \in G,
           NEW o \in line.es[1], NEW dq, dq.data = Contents(line, q, G),
           NEW c, c = CursorOf(line, G, o)
    PROVE  /\ First(c, set.pre) \in Nat /\ First(c, set.pre) <= c
           /\ c \in Nat /\ Until(dq, c, set.post) \in Nat /\ c <= Until(dq, c, set.post)
           /\ Window(dq, c, set.pre, set.post) =
                [i \in 1 .. Until(dq, c, set.post) - First(c, set.pre)
                    |-> Sample(q, (Base(line, G) + First(c, set.pre)) + (i - 1))]
<1> DEFINE data == Contents(line, q, G)
           n0 == LeftLen(line, G)
           n1 == UptoLen(line, G)
           n2 == RightLen(line, G)
           base == Base(line, G)
           late == MiddleCut(line).adjusts
           whole == CutStop(line, 1) = 2 * TBLOCK_LEN
           f == First(c, set.pre)
           e == Until(dq, c, set.post)
           w == SubSeq(data, f + 1, e)
           v == [i \in 1 .. e - f |-> Sample(q, (base + f) + (i - 1))]
<1>1. /\ data \in Seq(Rows) /\ n0 \in Nat /\ n1 \in Nat /\ n0 <= n1
      /\ n2 \in Nat /\ base \in Int /\ Len(data) = n1 + n2
      /\ \A j \in 1 .. n1 + n2 :
                /\ j <= n0 => ~ late
                /\ j > n1 => whole
                => data[j] = Sample(q, base + (j - 1))
  BY ContentsAt
<1>2. /\ c \in Nat /\ n0 <= c /\ c <= n1 /\ base + c \in Nat
      /\ late => c - n0 >= set.pre + 1
      /\ CutStop(line, 1) < 2 * TBLOCK_LEN => n1 - c >= set.post + 1
  BY <1>1, CursorPlace, Zenon
<1>3. set.pre \in Nat /\ set.post \in Nat /\ TBLOCK_LEN \in Nat
  BY SettingTypes, WorkerAssumption
<1>4. ~ whole => n1 - c >= set.post + 1
  <2> SUFFICES ASSUME ~ whole PROVE CutStop(line, 1) < 2 * TBLOCK_LEN
    BY <1>2, Zenon
  <2>1. CutStop(line, 1) \in Nat /\ CutStop(line, 1) <= 2 * TBLOCK_LEN
    BY MiddleLimits, Zenon
  <2> DEFINE z == CutStop(line, 1)
  <2> HIDE DEF z
  <2>2. z \in Nat /\ z <= 2 * TBLOCK_LEN /\ z # 2 * TBLOCK_LEN
    BY <2>1, Zenon DEF z
  <2>3. z < 2 * TBLOCK_LEN
    BY <1>3, <2>2
  <2> QED
    BY <2>3 DEF z
<1>5. /\ f = (IF c > set.pre THEN c - set.pre ELSE 0)
      /\ e = (IF c + set.post <= n1 + n2 THEN c + set.post ELSE n1 + n2)
  BY <1>1, Zenon DEF First, Until
<1>6. Window(dq, c, set.pre, set.post) = w
  BY Zenon DEF Window, First, Until
<1> HIDE DEF data, n0, n1, n2, base, late, whole, f, e
<1> DEFINE pre == set.pre
           post == set.post
<1> HIDE DEF w, v, pre, post
<1>7. /\ n0 \in Nat /\ n1 \in Nat /\ n2 \in Nat /\ base \in Int /\ pre \in Nat /\ post \in Nat
       /\ c \in Nat /\ n0 <= c /\ c <= n1
       /\ f = (IF c > pre THEN c - pre ELSE 0)
       /\ e = (IF c + post <= n1 + n2 THEN c + post ELSE n1 + n2)
  BY <1>1, <1>2, <1>3, <1>5, Zenon DEF pre, post
<1>8. f \in Nat /\ f <= c /\ e \in Nat /\ c <= e /\ e <= n1 + n2 /\ e - f \in Nat
  <2>1. f \in Nat /\ f <= c
    BY <1>7
  <2>2. e \in Nat /\ c <= e /\ e <= n1 + n2
    BY <1>7
  <2> QED
    BY <1>7, <2>1, <2>2
<1>9. c - n0 >= pre + 1 => f > n0
  BY <1>7
<1>10. n1 - c >= post + 1 => e <= n1
  BY <1>7
<1>11. ASSUME NEW i \in 1 .. e - f
      PROVE  data[f + i] = Sample(q, (base + f) + (i - 1)) /\ f + i \in 1 .. n1 + n2
  <2> DEFINE j == f + i
  <2>1. j \in 1 .. n1 + n2 /\ base + (j - 1) = (base + f) + (i - 1)
    BY <1>8, <1>7
  <2>2. j <= n0 => ~ late
    <3>1. f > n0 => ~ (j <= n0)
      BY <1>8, <1>7
    <3>2. late => f > n0
      BY <1>2, <1>9, Zenon DEF pre
    <3> QED
      BY <3>1, <3>2, Zenon
  <2>3. j > n1 => whole
    <3>1. e <= n1 => ~ (j > n1)
      BY <1>8, <1>7
    <3>2. ~ whole => e <= n1
      BY <1>4, <1>10, Zenon DEF post
    <3> QED
      BY <3>1, <3>2, Zenon
  <2> HIDE DEF j
  <2>4. data[j] = Sample(q, base + (j - 1))
    BY <1>1, <2>1, <2>2, <2>3, Zenon
  <2> QED
    BY <2>1, <2>4, Zenon DEF j
<1>12. \A i \in f + 1 .. e : data[i] \in Rows
  <2>1. \A i \in 1 .. n1 + n2 : data[i] \in Rows
    BY <1>1, ElementOfSeq
  <2>2. \A i \in f + 1 .. e : i \in 1 .. n1 + n2
    BY <1>8, <1>7
  <2> QED
    BY <2>1, <2>2
<1>13. /\ w \in Seq(Rows) /\ Len(w) = e - f
       /\ \A i \in 1 .. e - f : w[i] = data[f + i]
  <2> DEFINE m == f + 1
  <2>1. m \in Int /\ e \in Int /\ \A i \in m .. e : data[i] \in Rows
    BY <1>8, <1>12
  <2> HIDE DEF m
  <2>2. /\ SubSeq(data, m, e) \in Seq(Rows)
        /\ Len(SubSeq(data, m, e)) = IF m <= e THEN e - m + 1 ELSE 0
        /\ \A i \in 1 .. e - m + 1 : SubSeq(data, m, e)[i] = data[m + i - 1]
    BY <2>1, SubSeqProperties
  <2>3. (IF m <= e THEN e - m + 1 ELSE 0) = e - f /\ e - m + 1 = e - f
    BY <1>8 DEF m
  <2>4. \A i \in 1 .. e - f : m + i - 1 = f + i
    BY <1>8 DEF m
  <2>5. \A i \in 1 .. e - f : SubSeq(data, m, e)[i] = data[f + i]
    BY <2>2, <2>3, <2>4
  <2> QED
    BY <2>2, <2>3, <2>5, Zenon DEF m, w
<1>14. w = v
  <2>1. w \in [1 .. e - f -> Rows]
    BY <1>13, LenProperties
  <2>2. \A i \in 1 .. e - f : w[i] = Sample(q, (base + f) + (i - 1))
    BY <1>11, <1>13, Zenon
  <2> QED
    BY <2>1, <2>2 DEF v
<1> QED
  BY <1>2, <1>6, <1>8, <1>14, Zenon DEF f, e, base, v

\* The greater and the lesser of two.
LEMMA OfTwo ==
    ASSUME NEW x \in Int, NEW y \in Int
    PROVE  /\ Max({x, y}) = IF x >= y THEN x ELSE y
           /\ Min({x, y}) = IF x <= y THEN x ELSE y
<1>1. \E m \in {x, y} : \A n \in {x, y} : m >= n
  OBVIOUS
<1>2. \E m \in {x, y} : \A n \in {x, y} : m <= n
  OBVIOUS
<1>3. Max({x, y}) \in {x, y} /\ \A n \in {x, y} : Max({x, y}) >= n
  BY <1>1, Zenon DEF Max
<1>4. Min({x, y}) \in {x, y} /\ \A n \in {x, y} : Min({x, y}) <= n
  BY <1>2, Zenon DEF Min
<1>5. Max({x, y}) = IF x >= y THEN x ELSE y
  BY <1>3
<1> QED
  BY <1>4, <1>5

\* With plain neighbours as much is read of them as pre and post need.
LEMMA PlainSides ==
    ASSUME set \in Settings, line \in AnyLine, PlainLine, NEW G
    PROVE  /\ LeftLen(line, G) = IF 0 \in G THEN round_up(set.pre) ELSE 0
           /\ RightLen(line, G) = IF 2 \in G THEN round_up(set.post) ELSE 0
           /\ Number(line, TBLOCK_LEN) - Number(line, 0) >= round_up(set.pre)
           /\ Number(line, 3 * TBLOCK_LEN) - Number(line, 2 * TBLOCK_LEN) >= round_up(set.post)
<1> DEFINE x == CutStart(line, 0)
           y == CutStop(line, 2)
           pre == round_up(set.pre)
           post == round_up(set.post)
<1>1. PostFits
  BY DEF PlainLine
<1>2. /\ CutStop(line, 0) = TBLOCK_LEN /\ x = TBLOCK_LEN - pre
      /\ CutStart(line, 2) = 2 * TBLOCK_LEN /\ y = 2 * TBLOCK_LEN + post
      /\ pre \in Nat /\ pre <= TBLOCK_LEN /\ post \in Nat /\ post <= TBLOCK_LEN
  BY <1>1, SideLimits, Zenon
<1>3. /\ \A o \in line.es[0] : o < TBLOCK_LEN - pre
      /\ \A o \in line.es[2] : o >= post
  BY DEF PlainLine, LeftCut, RightCut, Cut
<1>4. TBLOCK_LEN \in Nat
  BY WorkerAssumption
<1> HIDE DEF x, y, pre, post
<1>5. x \in Nat /\ x <= TBLOCK_LEN /\ y \in Nat /\ 2 * TBLOCK_LEN <= y /\ y <= 3 * TBLOCK_LEN
  BY <1>2, <1>4
<1>6. Number(line, TBLOCK_LEN) - Number(line, x) = pre
  <2>1. \A s \in SignatureSlots(line) : ~ (x <= s /\ s < TBLOCK_LEN)
    <3> SUFFICES ASSUME NEW s \in SignatureSlots(line), x <= s, s < TBLOCK_LEN PROVE FALSE
      OBVIOUS
    <3>1. s \in line.es[0] /\ s \in Nat
      BY <1>4, SlotOf, NumberTypes
    <3>2. s < TBLOCK_LEN - pre
      BY <1>3, <3>1
    <3> QED
      BY <1>2, <1>4, <3>1, <3>2
  <2>2. Number(line, TBLOCK_LEN) - Number(line, x) = TBLOCK_LEN - x
    BY <1>4, <1>5, <2>1, NumbersGrow
  <2>3. TBLOCK_LEN - x = pre
    BY <1>2, <1>4
  <2> QED
    BY <2>2, <2>3, Zenon
<1>7. Number(line, y) - Number(line, 2 * TBLOCK_LEN) = post
  <2>1. \A s \in SignatureSlots(line) : ~ (2 * TBLOCK_LEN <= s /\ s < y)
    <3> SUFFICES ASSUME NEW s \in SignatureSlots(line), 2 * TBLOCK_LEN <= s, s < y PROVE FALSE
      OBVIOUS
    <3>1. s - 2 * TBLOCK_LEN \in line.es[2] /\ s \in Nat
      BY <1>4, SlotOf, NumberTypes
    <3>2. s - 2 * TBLOCK_LEN >= post
      BY <1>3, <3>1
    <3> QED
      BY <1>2, <1>4, <3>1, <3>2
  <2>2. 2 * TBLOCK_LEN \in Nat
    BY <1>4
  <2>3. Number(line, y) - Number(line, 2 * TBLOCK_LEN) = y - 2 * TBLOCK_LEN
    BY <1>5, <2>1, <2>2, NumbersGrow
  <2>4. y - 2 * TBLOCK_LEN = post
    BY <1>2, <1>4
  <2> QED
    BY <2>3, <2>4, Zenon
<1>8. /\ LeftLen(line, G) = (IF 0 \in G THEN pre ELSE 0)
      /\ RightLen(line, G) = (IF 2 \in G THEN post ELSE 0)
  BY <1>2, <1>6, <1>7, Zenon DEF LeftLen, RightLen, x, y
<1>9. Number(line, TBLOCK_LEN) - Number(line, 0) >= pre
  <2>1. /\ Number(line, 0) \in Nat /\ Number(line, x) \in Nat /\ Number(line, TBLOCK_LEN) \in Nat
        /\ Number(line, 0) <= Number(line, x)
    BY <1>4, <1>5, NumbersGrow
  <2> QED
    BY <1>2, <1>6, <2>1
<1>10. Number(line, 3 * TBLOCK_LEN) - Number(line, 2 * TBLOCK_LEN) >= post
  <2> DEFINE u == 2 * TBLOCK_LEN
             v == 3 * TBLOCK_LEN
  <2>1. u \in Nat /\ v \in Nat
    BY <1>4
  <2> HIDE DEF u, v
  <2>2. /\ Number(line, u) \in Nat /\ Number(line, y) \in Nat /\ Number(line, v) \in Nat
        /\ Number(line, y) <= Number(line, v)
    <3>1. y <= v
      BY <1>5 DEF v
    <3> QED
      BY <1>5, <2>1, <3>1, NumbersGrow
  <2>3. Number(line, v) - Number(line, u) >= post
    BY <1>2, <1>7, <2>2 DEF u
  <2> QED
    BY <2>3, Zenon DEF u, v
<1> QED
  BY <1>8, <1>9, <1>10, Zenon DEF pre, post

-----------------------------------------------------------------------------
\* The events and the windows.

\* Once the line is read, the events of a quad are the cursors of the
\* signatures in its middle block.
LEMMA EventsAre ==
    ASSUME IInv, LineInv, pc \notin {"idle", "load"}, PostFits, NEW q \in Quads
    PROVE  /\ set \in Settings /\ line \in AnyLine /\ dm \in Models(Rows) /\ Alike(dm)
           /\ dm[q].data = Contents(line, q, line.given)
           /\ dm[q].es = getEvents(dm) /\ DOMAIN dm[q].es = 1 .. Len(getEvents(dm))
           /\ Ascending(dm[q].es)
           /\ \A k \in DOMAIN dm[q].es :
                /\ 1 \in line.given
                /\ \E o \in line.es[1] : dm[q].es[k] = CursorOf(line, line.given, o)
           /\ 1 \in line.given =>
                \A o \in line.es[1] : \E k \in DOMAIN dm[q].es :
                    dm[q].es[k] = CursorOf(line, line.given, o)
<1>1. set \in Settings /\ line \in AnyLine /\ dm \in Models(Rows) /\ Alike(dm) /\ pc # "idle"
  <2>1. pc # "idle"
    OBVIOUS
  <2> QED
    BY <2>1, Zenon DEF IInv, TypeInv, WorkInv, Models, DQuads
<1>2. done = line.given
  <2>1. todo = {}
    BY DEF LineInv, OrderInv
  <2> QED
    BY <2>1 DEF done
<1>3. /\ dm[q].data = Contents(line, q, line.given) /\ Ascending(dm[q].es)
      /\ ElementsOf(dm[q].es) = Cursors(line, line.given)
  BY <1>1, <1>2, Zenon DEF LineInv, DataInv
<1>4. dm[q].es = getEvents(dm) /\ DOMAIN dm[q].es = 1 .. Len(getEvents(dm))
  <2>1. scanlist[1] \in Quads
    BY Counts
  <2>2. Shape(dm[q]) = Shape(dm[scanlist[1]])
    BY <1>1, <2>1, Zenon DEF Alike
  <2>3. dm[q].es = dm[scanlist[1]].es
    BY <2>2 DEF Shape
  <2>4. dm[q].es = getEvents(dm)
    BY <2>3, Zenon DEF getEvents
  <2>5. getEvents(dm) \in Seq(Nat)
    BY <1>1, EventTypes
  <2>6. DOMAIN getEvents(dm) = 1 .. Len(getEvents(dm))
    BY <2>5, LenProperties
  <2> QED
    BY <2>4, <2>6, Zenon
<1>5. \A v : v \in ElementsOf(dm[q].es) <=> \E k \in DOMAIN dm[q].es : v = dm[q].es[k]
  BY DEF ElementsOf
<1>6. \A v : v \in Cursors(line, line.given) <=>
                1 \in line.given /\ \E o \in line.es[1] : v = CursorOf(line, line.given, o)
  <2> SUFFICES ASSUME NEW v
               PROVE  v \in Cursors(line, line.given) <=>
                        1 \in line.given /\ \E o \in line.es[1] : v = CursorOf(line, line.given, o)
    OBVIOUS
  <2>1. CASE 1 \in line.given
    BY <1>1, <2>1, CursorsAre, Zenon
  <2>2. CASE 1 \notin line.given
    <3>1. Cursors(line, line.given) = {}
      BY <2>2, Zenon DEF Cursors
    <3> QED
      BY <2>2, <3>1
  <2> QED
    BY <2>1, <2>2
<1>7. \A k \in DOMAIN dm[q].es :
                /\ 1 \in line.given
                /\ \E o \in line.es[1] : dm[q].es[k] = CursorOf(line, line.given, o)
  BY <1>3, <1>5, <1>6, Zenon
<1>8. 1 \in line.given =>
                \A o \in line.es[1] : \E k \in DOMAIN dm[q].es :
                    dm[q].es[k] = CursorOf(line, line.given, o)
  BY <1>3, <1>5, <1>6, Zenon
<1> QED
  BY <1>1, <1>3, <1>4, <1>7, <1>8, Zenon

\* The events of a quad are those of the middle block, in their order.
LEMMA EventsHold ==
    ASSUME IInv, LineInv, pc \notin {"idle", "load"}, PostFits
    PROVE  EventsFound
<1> DEFINE G == line.given
<1> SUFFICES ASSUME NEW q \in Quads
             PROVE  /\ { NumberAt(dm[q], dm[q].es[k]) : k \in DOMAIN dm[q].es } = EventNumbers(line)
                    /\ \A j, k \in DOMAIN dm[q].es :
                        j < k => NumberAt(dm[q], dm[q].es[j]) < NumberAt(dm[q], dm[q].es[k])
  BY Zenon DEF EventsFound
<1> DEFINE es == dm[q].es
           N(k) == NumberAt(dm[q], es[k])
<1>1. /\ set \in Settings /\ line \in AnyLine /\ dm[q].data = Contents(line, q, G)
      /\ Ascending(es)
      /\ \A k \in DOMAIN es : 1 \in G /\ \E o \in line.es[1] : es[k] = CursorOf(line, G, o)
      /\ 1 \in G => \A o \in line.es[1] : \E k \in DOMAIN es : es[k] = CursorOf(line, G, o)
  BY EventsAre, Zenon
<1>2. ASSUME 1 \in G, NEW o \in line.es[1]
      PROVE  /\ NumberAt(dm[q], CursorOf(line, G, o)) = Number(line, TBLOCK_LEN + o)
             /\ NumberAt(dm[q], CursorOf(line, G, o)) = Base(line, G) + CursorOf(line, G, o)
             /\ CursorOf(line, G, o) \in Nat /\ Base(line, G) \in Int
  <2>1. LeftLen(line, G) \in Nat /\ Base(line, G) \in Int
    BY <1>1, <1>2, ContentsAt, Zenon
  <2>2. /\ CursorOf(line, G, o) \in Nat
        /\ Number(line, TBLOCK_LEN + o) = Base(line, G) + CursorOf(line, G, o)
    BY <1>1, <1>2, <2>1, CursorPlace, Zenon
  <2>3. NumberAt(dm[q], CursorOf(line, G, o)) = Number(line, TBLOCK_LEN + o)
    <3> HIDE DEF G
    <3> QED
      BY <1>1, <1>2, NumberFound
  <2> QED
    BY <2>1, <2>2, <2>3, Zenon
<1>3. \A v : v \in EventNumbers(line) <=>
                1 \in G /\ \E o \in line.es[1] : v = Number(line, TBLOCK_LEN + o)
  BY DEF EventNumbers
<1>4. ASSUME NEW k \in DOMAIN es
      PROVE  /\ N(k) = Base(line, G) + es[k] /\ es[k] \in Nat /\ Base(line, G) \in Int
             /\ 1 \in G /\ \E o \in line.es[1] : N(k) = Number(line, TBLOCK_LEN + o)
  <2> HIDE DEF G, es
  <2>1. 1 \in G
    BY <1>1, Zenon
  <2>2. PICK o \in line.es[1] : es[k] = CursorOf(line, G, o)
    BY <1>1, Zenon
  <2>3. /\ NumberAt(dm[q], CursorOf(line, G, o)) = Number(line, TBLOCK_LEN + o)
        /\ NumberAt(dm[q], CursorOf(line, G, o)) = Base(line, G) + CursorOf(line, G, o)
        /\ CursorOf(line, G, o) \in Nat /\ Base(line, G) \in Int
    BY <1>2, <2>1, Zenon
  <2> QED
    BY <2>1, <2>2, <2>3, Zenon
<1>5. ASSUME 1 \in G, NEW o \in line.es[1]
      PROVE  \E k \in DOMAIN es : N(k) = Number(line, TBLOCK_LEN + o)
  <2> HIDE DEF G, es
  <2>1. PICK k \in DOMAIN es : es[k] = CursorOf(line, G, o)
    BY <1>1, <1>5, Zenon
  <2>2. NumberAt(dm[q], CursorOf(line, G, o)) = Number(line, TBLOCK_LEN + o)
    BY <1>2, <1>5, Zenon
  <2> QED
    BY <2>1, <2>2, Zenon
<1>6. { N(k) : k \in DOMAIN es } = EventNumbers(line)
  <2> HIDE DEF G, es, N
  <2> DEFINE S == { N(k) : k \in DOMAIN es }
             T == EventNumbers(line)
  <2>1. ASSUME NEW v PROVE v \in S <=> v \in T
    <3>1. v \in S <=> \E k \in DOMAIN es : v = N(k)
      OBVIOUS
    <3>2. v \in T <=> 1 \in G /\ \E o \in line.es[1] : v = Number(line, TBLOCK_LEN + o)
      BY <1>3, Zenon
    <3>3. (\E k \in DOMAIN es : v = N(k)) <=>
                1 \in G /\ \E o \in line.es[1] : v = Number(line, TBLOCK_LEN + o)
      <4> HIDE DEF S, T
      <4> QED
        BY <1>4, <1>5, Zenon
    <3> HIDE DEF S, T
    <3> QED
      BY <3>1, <3>2, <3>3, Zenon
  <2> HIDE DEF S, T
  <2>2. S = T
    BY <2>1
  <2> QED
    BY <2>2 DEF S, T
<1>7. ASSUME NEW j \in DOMAIN es, NEW k \in DOMAIN es, j < k PROVE N(j) < N(k)
  <2> HIDE DEF G, es, N
  <2>1. es[j] < es[k]
    BY <1>1, <1>7 DEF Ascending
  <2> QED
    BY <1>4, <2>1
<1> QED
  BY <1>6, <1>7, Zenon

\* Where the window of an event begins and ends: pre before it and post after
\* it, or with the blocks that are given.
Lowest(l, G) == Number(l, IF 0 \in G THEN 0 ELSE TBLOCK_LEN)
Highest(l, G) == Number(l, (IF 2 \in G THEN 3 ELSE 2) * TBLOCK_LEN)

LEMMA WindowSpan ==
    ASSUME set \in Settings, line \in AnyLine, PlainLine, NEW q \in Quads, NEW G, 1 \in G,
           NEW o \in line.es[1], NEW dq, dq.data = Contents(line, q, G),
           NEW c, c = CursorOf(line, G, o), NEW n, n = Number(line, TBLOCK_LEN + o)
    PROVE  /\ Lowest(line, G) \in Nat /\ Highest(line, G) \in Nat /\ n \in Nat
           /\ Base(line, G) + First(c, set.pre) =
                IF n - set.pre >= Lowest(line, G) THEN n - set.pre ELSE Lowest(line, G)
           /\ Base(line, G) + Until(dq, c, set.post) =
                IF n + set.post <= Highest(line, G) THEN n + set.post ELSE Highest(line, G)
<1> DEFINE a == Number(line, CutStart(line, 1))
           z == Number(line, CutStop(line, 1))
           n0 == LeftLen(line, G)
           n1 == UptoLen(line, G)
           n2 == RightLen(line, G)
           base == Base(line, G)
           late == MiddleCut(line).adjusts
           whole == CutStop(line, 1) = 2 * TBLOCK_LEN
           f == First(c, set.pre)
           e == Until(dq, c, set.post)
           pre == set.pre
           post == set.post
           rp == round_up(set.pre)
           rq == round_up(set.post)
           t0 == Number(line, 0)
           t1 == Number(line, TBLOCK_LEN)
           t2 == Number(line, 2 * TBLOCK_LEN)
           t3 == Number(line, 3 * TBLOCK_LEN)
           lo == Lowest(line, G)
           hi == Highest(line, G)
           left == 0 \in G
           right == 2 \in G
<1>1. PostFits /\ TBLOCK_LEN \in Nat
  BY WorkerAssumption DEF PlainLine
<1>2. /\ n0 \in Nat /\ n1 \in Nat /\ n0 <= n1 /\ n2 \in Nat /\ base \in Int
      /\ Len(dq.data) = n1 + n2
  <2>1. /\ LeftLen(line, G) \in Nat /\ UptoLen(line, G) \in Nat /\ LeftLen(line, G) <= UptoLen(line, G)
        /\ RightLen(line, G) \in Nat /\ Base(line, G) \in Int
        /\ Len(Contents(line, q, G)) = UptoLen(line, G) + RightLen(line, G)
    BY <1>1, ContentsAt
  <2> QED
    BY <2>1, Zenon
<1>3. /\ c \in Nat /\ n0 <= c /\ c <= n1 /\ n \in Nat /\ n = base + c
      /\ late => c - n0 >= pre + 1
      /\ CutStop(line, 1) < 2 * TBLOCK_LEN => n1 - c >= post + 1
  BY <1>1, <1>2, CursorPlace, Zenon
<1>4. /\ CutStart(line, 1) \in Nat /\ CutStop(line, 1) \in Nat
      /\ TBLOCK_LEN <= CutStart(line, 1) /\ CutStop(line, 1) <= 2 * TBLOCK_LEN
      /\ ~ late => CutStart(line, 1) = TBLOCK_LEN
  BY <1>1, MiddleLimits, Zenon
<1>5. ~ whole => n1 - c >= post + 1
  <2> SUFFICES ASSUME ~ whole PROVE CutStop(line, 1) < 2 * TBLOCK_LEN
    BY <1>3, Zenon
  <2> DEFINE y == CutStop(line, 1)
  <2>1. y \in Nat /\ y <= 2 * TBLOCK_LEN /\ y # 2 * TBLOCK_LEN
    BY <1>4, Zenon
  <2> HIDE DEF y
  <2>2. y < 2 * TBLOCK_LEN
    BY <1>1, <2>1
  <2> QED
    BY <2>2 DEF y
<1>6. /\ t1 <= a /\ z <= t2 /\ a \in Nat /\ z \in Nat /\ t1 \in Nat /\ t2 \in Nat
  <2>1. 2 * TBLOCK_LEN \in Nat
    BY <1>1
  <2>2. t1 <= a /\ a \in Nat /\ t1 \in Nat
    BY <1>1, <1>4, NumbersGrow, Zenon
  <2>3. z <= t2 /\ z \in Nat /\ t2 \in Nat
    BY <1>4, <2>1, NumbersGrow, Zenon
  <2> QED
    BY <2>2, <2>3, Zenon
<1>7. t0 \in Nat /\ t3 \in Nat
  <2>1. 0 \in Nat /\ 3 * TBLOCK_LEN \in Nat
    BY <1>1
  <2> QED
    BY <2>1, NumberTypes, Zenon
<1>8. /\ n0 = (IF left THEN rp ELSE 0) /\ n2 = (IF right THEN rq ELSE 0)
      /\ t1 - t0 >= rp /\ t3 - t2 >= rq
  BY PlainSides, Zenon
<1>9. pre \in Nat /\ post \in Nat /\ rp \in Nat /\ pre <= rp /\ rq \in Nat /\ post <= rq
  BY <1>1, SideLimits, SettingTypes, Zenon
<1>10. (~ late => a = t1) /\ (whole => z = t2)
  BY <1>4, Zenon
<1>11. base = a - n0 /\ n1 = n0 + (z - a)
  BY Zenon DEF Base, UptoLen
<1>12. lo = (IF left THEN t0 ELSE t1) /\ hi = (IF right THEN t3 ELSE t2)
  <2>1. lo = (IF left THEN t0 ELSE t1)
    BY Zenon DEF Lowest
  <2>2. hi = (IF right THEN t3 ELSE t2)
    BY Zenon DEF Highest
  <2> QED
    BY <2>1, <2>2, Zenon
<1>13. /\ f = (IF c > pre THEN c - pre ELSE 0)
       /\ e = (IF c + post <= n1 + n2 THEN c + post ELSE n1 + n2)
  BY <1>2, Zenon DEF First, Until
<1> SUFFICES /\ lo \in Nat /\ hi \in Nat /\ n \in Nat
             /\ base + f = IF n - pre >= lo THEN n - pre ELSE lo
             /\ base + e = IF n + post <= hi THEN n + post ELSE hi
  OBVIOUS
<1> HIDE DEF a, z, n0, n1, n2, base, late, whole, f, e, pre, post, rp, rq, t0, t1, t2, t3, lo, hi,
             left, right
<1>14. lo \in Nat /\ hi \in Nat
  BY <1>6, <1>7, <1>12
<1>15. /\ base \in Int /\ c \in Nat /\ n \in Nat /\ pre \in Nat /\ post \in Nat
       /\ n = base + c /\ n0 <= c /\ c <= n1 /\ n0 \in Nat /\ n1 \in Nat /\ n2 \in Nat
  BY <1>2, <1>3, <1>9, Zenon
<1>16. ASSUME c >= pre PROVE base + f = n - pre
  <2>1. f = c - pre
    BY <1>13, <1>15, <1>16
  <2> QED
    BY <1>15, <2>1
<1>17. ASSUME c + post <= n1 + n2 PROVE base + e = n + post
  <2>1. e = c + post
    BY <1>13, <1>17, Zenon
  <2> QED
    BY <1>15, <2>1
<1>18. base + n0 = a /\ base + n1 = z
  BY <1>6, <1>11, <1>15
<1>19. a <= n /\ n <= z
  BY <1>15, <1>18
<1>20. base + f = IF n - pre >= lo THEN n - pre ELSE lo
  <2>1. CASE left
    <3>1. n0 = rp /\ lo = t0
      BY <1>8, <1>12, <2>1
    <3>2. c >= pre
      BY <1>9, <1>15, <3>1
    <3>3. n - pre >= lo
      <4>1. n - pre >= t1 - rp
        BY <1>6, <1>9, <1>15, <1>19
      <4> QED
        BY <1>6, <1>7, <1>8, <1>9, <1>15, <3>1, <4>1
    <3> QED
      BY <1>16, <3>2, <3>3, Zenon
  <2>2. CASE ~ left /\ late
    <3>1. n0 = 0 /\ lo = t1
      BY <1>8, <1>12, <2>2
    <3>2. c >= pre
      BY <1>3, <1>15, <2>2, <3>1
    <3>3. n - pre >= a
      BY <1>3, <1>6, <1>15, <1>18, <2>2, <3>1
    <3>4. n - pre >= lo
      BY <1>6, <1>15, <3>1, <3>3
    <3> QED
      BY <1>16, <3>2, <3>4, Zenon
  <2>3. CASE ~ left /\ ~ late
    <3>1. n0 = 0 /\ lo = t1
      BY <1>8, <1>12, <2>3
    <3>2. base = lo
      BY <1>10, <1>15, <1>18, <2>3, <3>1
    <3>3. CASE c >= pre
      <4>1. n - pre >= lo
        BY <1>15, <3>2, <3>3
      <4> QED
        BY <1>16, <3>3, <4>1, Zenon
    <3>4. CASE ~ (c >= pre)
      <4>1. f = 0 /\ ~ (n - pre >= lo)
        BY <1>13, <1>15, <3>2, <3>4
      <4> QED
        BY <1>15, <3>2, <4>1
    <3> QED
      BY <3>3, <3>4
  <2> QED
    BY <2>1, <2>2, <2>3
<1>21. base + e = IF n + post <= hi THEN n + post ELSE hi
  <2>1. t2 <= hi
    BY <1>6, <1>7, <1>8, <1>9, <1>12
  <2>2. CASE ~ whole
    <3>1. n1 - c >= post + 1
      BY <1>5, <2>2
    <3>2. c + post <= n1 + n2
      BY <1>15, <3>1
    <3>3. n + post <= z
      BY <1>6, <1>15, <1>18, <3>1
    <3>4. n + post <= hi
      BY <1>6, <1>14, <1>15, <2>1, <3>3
    <3> QED
      BY <1>17, <3>2, <3>4, Zenon
  <2>3. CASE whole /\ right
    <3>1. n2 = rq /\ hi = t3 /\ z = t2
      BY <1>8, <1>10, <1>12, <2>3
    <3>2. c + post <= n1 + n2
      BY <1>9, <1>15, <3>1
    <3>3. n + post <= hi
      <4>1. n <= t2
        BY <1>19, <3>1, Zenon
      <4> QED
        BY <1>6, <1>7, <1>8, <1>9, <1>15, <3>1, <4>1
    <3> QED
      BY <1>17, <3>2, <3>3, Zenon
  <2>4. CASE whole /\ ~ right
    <3>1. n2 = 0 /\ hi = base + n1
      BY <1>8, <1>10, <1>12, <1>18, <2>4
    <3>2. CASE c + post <= n1 + n2
      <4>1. n + post <= hi
        BY <1>15, <3>1, <3>2
      <4> QED
        BY <1>17, <3>2, <4>1, Zenon
    <3>3. CASE ~ (c + post <= n1 + n2)
      <4>1. e = n1 /\ ~ (n + post <= hi)
        BY <1>13, <1>15, <3>1, <3>3
      <4> QED
        BY <3>1, <4>1
    <3> QED
      BY <3>2, <3>3
  <2> QED
    BY <2>2, <2>3, <2>4
<1> QED
  BY <1>14, <1>15, <1>20, <1>21

\* The window of an event has the samples that it should.
LEMMA WindowsHold ==
    ASSUME IInv, LineInv, pc \notin {"idle", "load"}, PlainLine, 1 \in line.given
    PROVE  WindowsExact
<1> DEFINE G == line.given
           lo == Number(line, IF 0 \in line.given THEN 0 ELSE TBLOCK_LEN)
           hi == Number(line, (IF 2 \in line.given THEN 3 ELSE 2) * TBLOCK_LEN)
           From(n) == Max({ n - set.pre, lo })
           To(n) == Min({ n + set.post, hi })
           N(q, k) == NumberAt(dm[q], dm[q].es[k])
<1> SUFFICES ASSUME NEW q \in Quads, NEW k \in 1 .. Len(getEvents(dm))
             PROVE  Window(dm[q], dm[q].es[k], set.pre, set.post)
                        = [i \in 1 .. To(N(q, k)) - From(N(q, k)) |-> Sample(q, From(N(q, k)) + i - 1)]
  BY DEF WindowsExact
<1> DEFINE n == N(q, k)
           c == dm[q].es[k]
           e == Until(dm[q], c, set.post)
           f == First(c, set.pre)
           base == Base(line, G)
<1>1. PostFits
  BY DEF PlainLine
<1>2. /\ set \in Settings /\ line \in AnyLine /\ dm[q].data = Contents(line, q, G)
      /\ \E o \in line.es[1] : c = CursorOf(line, G, o)
  BY <1>1, EventsAre, Zenon
<1>3. PICK o \in line.es[1] : c = CursorOf(line, G, o)
  BY <1>2, Zenon
<1>4. n = Number(line, TBLOCK_LEN + o)
  <2>1. NumberAt(dm[q], CursorOf(line, G, o)) = Number(line, TBLOCK_LEN + o)
    <3> HIDE DEF G
    <3>1. 1 \in G
      BY DEF G
    <3> QED
      BY <1>1, <1>2, <3>1, NumberFound
  <2> QED
    BY <1>3, <2>1, Zenon
<1>5. /\ f \in Nat /\ f <= c /\ c \in Nat /\ e \in Nat /\ c <= e
      /\ Window(dm[q], c, set.pre, set.post) =
            [i \in 1 .. e - f |-> Sample(q, (base + f) + (i - 1))]
  <2>1. 1 \in G
    OBVIOUS
  <2> DEFINE dq == dm[q]
  <2> HIDE DEF G, c, dq
  <2>2. dq.data = Contents(line, q, G)
    BY <1>2, Zenon DEF dq
  <2>3. /\ First(c, set.pre) \in Nat /\ First(c, set.pre) <= c
        /\ c \in Nat /\ Until(dq, c, set.post) \in Nat /\ c <= Until(dq, c, set.post)
        /\ Window(dq, c, set.pre, set.post) =
                [i \in 1 .. Until(dq, c, set.post) - First(c, set.pre)
                    |-> Sample(q, (Base(line, G) + First(c, set.pre)) + (i - 1))]
    BY <1>1, <1>2, <1>3, <2>1, <2>2, WindowContent
  <2> QED
    BY <2>3, Zenon DEF dq
<1>6. /\ Lowest(line, G) \in Nat /\ Highest(line, G) \in Nat /\ n \in Nat
      /\ base + f = IF n - set.pre >= Lowest(line, G) THEN n - set.pre ELSE Lowest(line, G)
      /\ base + e = IF n + set.post <= Highest(line, G) THEN n + set.post ELSE Highest(line, G)
  <2>1. 1 \in G
    OBVIOUS
  <2> DEFINE dq == dm[q]
  <2> HIDE DEF G, c, dq
  <2>2. dq.data = Contents(line, q, G)
    BY <1>2, Zenon DEF dq
  <2>3. /\ Lowest(line, G) \in Nat /\ Highest(line, G) \in Nat /\ n \in Nat
        /\ Base(line, G) + First(c, set.pre) =
                IF n - set.pre >= Lowest(line, G) THEN n - set.pre ELSE Lowest(line, G)
        /\ Base(line, G) + Until(dq, c, set.post) =
                IF n + set.post <= Highest(line, G) THEN n + set.post ELSE Highest(line, G)
    BY <1>2, <1>3, <1>4, <2>1, <2>2, WindowSpan
  <2> QED
    BY <2>3, Zenon DEF dq
<1>7. lo = Lowest(line, G) /\ hi = Highest(line, G)
  BY Zenon DEF Lowest, Highest
<1>8. set.pre \in Nat /\ set.post \in Nat
  BY <1>2, SettingTypes
<1>9. base \in Int
  BY <1>1, <1>2, ContentsAt, Zenon
<1> DEFINE pre == set.pre
           post == set.post
<1>10. From(n) = base + f /\ To(n) = base + e
  <2>1. lo \in Nat /\ hi \in Nat
    BY <1>6, <1>7, Zenon
  <2>2. /\ base + f = IF n - pre >= lo THEN n - pre ELSE lo
        /\ base + e = IF n + post <= hi THEN n + post ELSE hi
    BY <1>6, <1>7, Zenon
  <2>3. pre \in Nat /\ post \in Nat
    BY <1>8
  <2> SUFFICES Max({ n - pre, lo }) = base + f /\ Min({ n + post, hi }) = base + e
    OBVIOUS
  <2> HIDE DEF lo, hi, base, f, e, pre, post
  <2>4. n - pre \in Int /\ n + post \in Int /\ lo \in Int /\ hi \in Int
    BY <1>6, <2>1, <2>3
  <2>5. Max({ n - pre, lo }) = IF n - pre >= lo THEN n - pre ELSE lo
    BY <2>4, OfTwo, Zenon
  <2>6. Min({ n + post, hi }) = IF n + post <= hi THEN n + post ELSE hi
    BY <2>4, OfTwo, Zenon
  <2> QED
    BY <2>2, <2>5, <2>6, Zenon
<1> HIDE DEF From, To, base, f, e, c, G, n
<1>11. To(n) - From(n) = e - f
  <2>1. f \in Int /\ e \in Int
    BY <1>5
  <2> QED
    BY <1>9, <1>10, <2>1
<1>12. \A i \in 1 .. e - f : From(n) + i - 1 = (base + f) + (i - 1)
  BY <1>5, <1>9, <1>10
<1>13. [i \in 1 .. To(n) - From(n) |-> Sample(q, From(n) + i - 1)]
            = [i \in 1 .. e - f |-> Sample(q, (base + f) + (i - 1))]
  <2> DEFINE x == To(n) - From(n)
             y == e - f
             g(i) == From(n) + i - 1
             h(i) == (base + f) + (i - 1)
  <2>1. x = y /\ \A i \in 1 .. y : g(i) = h(i)
    BY <1>11, <1>12
  <2> HIDE DEF x, y, g, h
  <2>2. [i \in 1 .. x |-> Sample(q, g(i))] = [i \in 1 .. y |-> Sample(q, h(i))]
    BY <2>1
  <2> QED
    BY <2>2, Zenon DEF x, y, g, h
<1>14. Window(dm[q], c, set.pre, set.post)
            = [i \in 1 .. To(n) - From(n) |-> Sample(q, From(n) + i - 1)]
  BY <1>5, <1>13, Zenon
<1> QED
  BY <1>14, Zenon DEF From, To, c, n

\* Trimming the blocks and dropping the signatures of the neighbours loses no
\* event of the middle block and adds none, and the window of an event holds
\* exactly the samples around it that the blocks of the line have.
THEOREM WindowsTrue == Spec => []WindowTrue
<1>1. IInv /\ LineInv => WindowTrue
  <2> SUFFICES ASSUME IInv, LineInv, Loaded, PostFits
               PROVE  EventsFound /\ (PlainLine /\ 1 \in line.given => WindowsExact)
    BY Zenon DEF WindowTrue
  <2>1. pc \notin {"idle", "load"}
    BY DEF Loaded
  <2> QED
    BY <2>1, EventsHold, WindowsHold, Zenon
<1> QED
  BY <1>1, LineInvariance, PTL

-----------------------------------------------------------------------------
\* The times.

\* A slot has at most as many samples before it as slots.
LEMMA NumberWithin ==
    ASSUME NEW l \in AnyLine, NEW s \in Nat
    PROVE  Number(l, s) \in Nat /\ Number(l, s) <= s
<1>1. Number(l, 0) = 0
  <2>1. { e \in SignatureSlots(l) : e < 0 } = {}
    <3>1. \A e \in SignatureSlots(l) : ~ (e < 0)
      <4>1. SignatureSlots(l) \subseteq Nat
        <5>1. 0 \in Nat
          OBVIOUS
        <5> QED
          BY <5>1, NumberTypes
      <4> QED
        BY <4>1
    <3> QED
      BY <3>1
  <2>2. Cardinality({}) = 0
    BY FS_EmptySet
  <2>3. Number(l, 0) = 0 - 0
    BY <2>1, <2>2 DEF Number
  <2> QED
    BY <2>3
<1>2. Number(l, s) \in Nat /\ Number(l, s) - Number(l, 0) <= s - 0
  <2>1. 0 \in Nat /\ 0 <= s
    OBVIOUS
  <2> QED
    BY <2>1, NumbersGrow
<1> QED
  BY <1>1, <1>2

\* What is trimmed at the beginning of the middle block has no signature.
LEMMA TrimmedLeft ==
    ASSUME set \in Settings, PostFits, NEW l \in AnyLine, MiddleCut(l).adjusts
    PROVE  Number(l, CutStart(l, 1)) = Number(l, TBLOCK_LEN) + MiddleCut(l).by
<1> DEFINE a == CutStart(l, 1)
           by == MiddleCut(l).by
<1>1. /\ a \in Nat /\ TBLOCK_LEN <= a /\ a <= TBLOCK_LEN + esoff(l) /\ TBLOCK_LEN \in Nat
  BY MiddleLimits, WorkerAssumption, Zenon
<1>2. a = 1 * TBLOCK_LEN + by
  <2>1. MiddleCut(l).by = MiddleCut(l).from /\ BlockCut(l, 1) = MiddleCut(l)
    BY DEF BlockCut, MiddleCut, Cut
  <2> QED
    BY <2>1, Zenon DEF CutStart
<1>3. by = BlockCut(l, 1).from /\ BlockCut(l, 1).from \in Nat
  <2>1. MiddleCut(l).by = MiddleCut(l).from /\ BlockCut(l, 1) = MiddleCut(l)
    BY DEF BlockCut, MiddleCut, Cut
  <2>2. 1 \in 0 .. 2
    OBVIOUS
  <2>3. BlockCut(l, 1).from \in Nat
    BY <2>2, CutInside
  <2> QED
    BY <2>1, <2>3, Zenon
<1>4. esoff(l) \in Nat /\ esoff(l) < TBLOCK_LEN /\ \A o \in l.es[1] : esoff(l) <= o
  <2>1. 1 \in 0 .. 2 /\ l.es[1] # {}
    BY WorkerAssumption
  <2>2. l.es[1] \subseteq Nat /\ esoff(l) \in 0 .. TBLOCK_LEN - 1
    BY <2>1, LineTypes
  <2>3. esoff(l) \in Nat /\ esoff(l) < TBLOCK_LEN
    BY <1>1, <2>2
  <2> QED
    BY <2>1, <2>2, <2>3, LeastOf, Zenon DEF esoff
<1> HIDE DEF a, by
<1>5. \A t \in SignatureSlots(l) : ~ (TBLOCK_LEN <= t /\ t < a)
  <2> SUFFICES ASSUME NEW t \in SignatureSlots(l), TBLOCK_LEN <= t, t < a PROVE FALSE
    OBVIOUS
  <2>1. t \in Nat
    BY <1>1, NumberTypes
  <2>2. t < 2 * TBLOCK_LEN
    BY <1>1, <1>4, <2>1
  <2>3. t - TBLOCK_LEN \in l.es[1]
    BY <2>2, SlotOf
  <2>4. esoff(l) <= t - TBLOCK_LEN
    BY <1>4, <2>3, Zenon
  <2> QED
    BY <1>1, <1>4, <2>1, <2>4
<1>6. /\ Number(l, a) \in Nat /\ Number(l, TBLOCK_LEN) \in Nat
      /\ Number(l, a) - Number(l, TBLOCK_LEN) = a - TBLOCK_LEN
  BY <1>1, <1>5, NumbersGrow
<1>7. by \in Nat /\ a = TBLOCK_LEN + by
  BY <1>1, <1>2, <1>3
<1>8. Number(l, a) = Number(l, TBLOCK_LEN) + by
  BY <1>1, <1>6, <1>7
<1> QED
  BY <1>8 DEF a, by

\* The first event is that of the first signature.
LEMMA FirstEvent ==
    ASSUME IInv, LineInv, pc \notin {"idle", "load"}, PostFits, 1 \in line.given,
           getEvents(dm) # <<>>
    PROVE  getEvents(dm)[1] = CursorOf(line, line.given, esoff(line))
<1> DEFINE G == line.given
           es == getEvents(dm)
           q == scanlist[1]
           C(o) == CursorOf(line, G, o)
<1>1. q \in Quads
  BY Counts
<1>2. /\ set \in Settings /\ line \in AnyLine /\ dm \in Models(Rows)
      /\ dm[q].data = Contents(line, q, G)
      /\ dm[q].es = es /\ DOMAIN dm[q].es = 1 .. Len(es) /\ Ascending(dm[q].es)
      /\ \A k \in DOMAIN dm[q].es : \E o \in line.es[1] : dm[q].es[k] = C(o)
      /\ \A o \in line.es[1] : \E k \in DOMAIN dm[q].es : dm[q].es[k] = C(o)
  <2> HIDE DEF q
  <2> QED
    BY <1>1, EventsAre, Zenon
<1>3. /\ Ascending(es) /\ DOMAIN es = 1 .. Len(es)
      /\ \A k \in 1 .. Len(es) : \E o \in line.es[1] : es[k] = C(o)
      /\ \A o \in line.es[1] : \E k \in 1 .. Len(es) : es[k] = C(o)
  <2> DEFINE s == dm[q].es
  <2>1. /\ s = es /\ DOMAIN s = 1 .. Len(es) /\ Ascending(s)
        /\ \A k \in DOMAIN s : \E o \in line.es[1] : s[k] = C(o)
        /\ \A o \in line.es[1] : \E k \in DOMAIN s : s[k] = C(o)
    BY <1>2, Zenon
  <2> HIDE DEF s, es, q, C, G
  <2>2. /\ \A k \in DOMAIN es : \E o \in line.es[1] : es[k] = C(o)
        /\ \A o \in line.es[1] : \E k \in DOMAIN es : es[k] = C(o)
        /\ Ascending(es) /\ DOMAIN es = 1 .. Len(es)
    BY <2>1, Zenon
  <2> QED
    BY <2>2, Zenon
<1>4. 1 \in 1 .. Len(es)
  <2>1. es \in Seq(Nat) /\ es # <<>>
    BY <1>2, EventTypes
  <2> HIDE DEF es
  <2> QED
    BY <2>1, EmptySeq, LenProperties
<1>5. esoff(line) \in line.es[1] /\ \A o \in line.es[1] : esoff(line) <= o /\ o \in Nat
  <2>1. 1 \in 0 .. 2 /\ line.es[1] # {}
    BY <1>2, WorkerAssumption
  <2>2. line.es[1] \subseteq Nat
    BY <1>2, <2>1, LineTypes
  <2>3. esoff(line) \in line.es[1] /\ \A o \in line.es[1] : esoff(line) <= o
    BY <2>1, <2>2, LeastOf, Zenon DEF esoff
  <2> QED
    BY <2>2, <2>3
<1>6. ASSUME NEW o \in line.es[1]
      PROVE  /\ C(o) \in Nat /\ Base(line, G) \in Int
             /\ Number(line, TBLOCK_LEN + o) = Base(line, G) + C(o)
  <2>1. LeftLen(line, G) \in Nat /\ Base(line, G) \in Int
    BY <1>1, <1>2, ContentsAt, Zenon
  <2> QED
    BY <1>2, <2>1, CursorPlace, Zenon
<1>7. PICK o \in line.es[1] : es[1] = C(o)
  BY <1>3, <1>4, Zenon
<1>8. C(esoff(line)) <= C(o)
  <2>1. TBLOCK_LEN \in Nat
    BY WorkerAssumption
  <2> DEFINE s == TBLOCK_LEN + esoff(line)
             t == TBLOCK_LEN + o
  <2>2. s \in Nat /\ t \in Nat /\ s <= t
    BY <1>5, <2>1
  <2>3. Number(line, s) = Base(line, G) + C(esoff(line)) /\ Number(line, t) = Base(line, G) + C(o)
    BY <1>5, <1>6, Zenon
  <2>4. C(esoff(line)) \in Nat /\ C(o) \in Nat /\ Base(line, G) \in Int
    BY <1>5, <1>6, Zenon
  <2> HIDE DEF s, t, C, G
  <2>5. Number(line, s) <= Number(line, t)
    BY <1>2, <2>2, NumbersGrow
  <2> QED
    BY <2>3, <2>4, <2>5
<1>9. PICK k \in 1 .. Len(es) : es[k] = C(esoff(line))
  BY <1>3, <1>5, Zenon
<1>10. C(esoff(line)) \in Nat /\ C(o) \in Nat
  BY <1>5, <1>6, Zenon
<1> HIDE DEF C, es, G
<1>11. k = 1
  <2> SUFFICES ASSUME k # 1 PROVE FALSE
    OBVIOUS
  <2>1. 1 < k
    BY <1>4
  <2>2. es[1] < es[k]
    BY <1>3, <1>4, <2>1 DEF Ascending
  <2> QED
    BY <1>7, <1>8, <1>9, <1>10, <2>2
<1> QED
  BY <1>9, <1>11, Zenon DEF C, es, G

\* Without a time in the line pss is the number of the first sample, unless
\* the middle block is trimmed after a left one.
LEMMA PssIsBase ==
    ASSUME IInv, LineInv, pc \notin {"idle", "load"}, PlainLine, 1 \in line.given,
           ~ line.timed, 0 \in line.given => ~ MiddleCut(line).adjusts
    PROVE  pss = Base(line, line.given)
<1> DEFINE G == line.given
           a == Number(line, CutStart(line, 1))
           t == Number(line, TBLOCK_LEN)
           n0 == LeftLen(line, G)
           late == MiddleCut(line).adjusts
           by == MiddleCut(line).by
           rp == round_up(set.pre)
<1>1. /\ PostFits /\ set \in Settings /\ line \in AnyLine /\ pc # "idle" /\ TBLOCK_LEN \in Nat
  <2>1. PostFits /\ pc # "idle" /\ TBLOCK_LEN \in Nat
    BY WorkerAssumption DEF PlainLine
  <2> QED
    BY <2>1, Zenon DEF IInv, TypeInv, WorkInv
<1>2. done = G
  <2>1. todo = {}
    BY DEF LineInv, OrderInv
  <2> QED
    BY <2>1 DEF done
<1>3. pss = t + Adjusted
  BY <1>1, Zenon DEF LineInv, TimesInv
<1>4. Adjusted = IF 0 \in G THEN LeftCut.by ELSE IF late THEN by ELSE 0
  BY <1>2, Zenon DEF Adjusted, Adjusts
<1>5. LeftCut.by = -rp
  BY DEF LeftCut, Cut
<1>6. n0 = IF 0 \in G THEN rp ELSE 0
  BY <1>1, PlainSides, Zenon
<1>7. ~ late => a = t
  <2>1. ~ late => CutStart(line, 1) = TBLOCK_LEN
    BY <1>1, MiddleLimits, Zenon
  <2> QED
    BY <2>1, Zenon
<1>8. late => a = t + by
  BY <1>1, TrimmedLeft, Zenon
<1>9. Base(line, G) = a - n0
  BY Zenon DEF Base
<1>10. a \in Nat /\ t \in Nat /\ rp \in Nat
  <2>1. CutStart(line, 1) \in Nat
    BY <1>1, MiddleLimits, Zenon
  <2> QED
    BY <1>1, <2>1, NumberTypes, SideLimits, Zenon
<1>11. 0 \in G => ~ late
  OBVIOUS
<1> DEFINE left == 0 \in G
<1>12. /\ pss = t + (IF left THEN -rp ELSE IF late THEN by ELSE 0)
       /\ Base(line, G) = a - (IF left THEN rp ELSE 0) /\ (left => ~ late)
  BY <1>3, <1>4, <1>5, <1>6, <1>9, <1>11, Zenon
<1> SUFFICES pss = Base(line, G)
  OBVIOUS
<1> HIDE DEF a, t, n0, late, by, rp, G, left
<1> QED
  BY <1>7, <1>8, <1>10, <1>12

\* The events and windows that a timebase is made from.
LEMMA EventNow ==
    ASSUME IInv, LineInv, InDir, PlainLine
    PROVE  LET dq == dm[scanlist[1]]
               base == Base(line, line.given)
               c1 == getEvents(dm)[1]
               f == First(event_offset, set.pre)
           IN  /\ 1 \in line.given /\ base \in Int /\ dq.es = getEvents(dm)
               /\ cur \in 1 .. Len(getEvents(dm)) /\ 1 \in 1 .. Len(getEvents(dm))
               /\ event_offset \in Nat /\ c1 \in Nat /\ c1 <= event_offset
               /\ event_offset # c1 => cur > 1
               /\ base + event_offset \in Nat /\ base + event_offset < WORD
               /\ msecs_at_esoff = base + c1 /\ base + c1 \in Nat
               /\ f \in Nat /\ f <= event_offset /\ base + f \in Nat
               /\ Until(dq, event_offset, set.post) <= event_offset + set.post
               /\ Until(dq, event_offset, set.post) \in Nat
               /\ Has(dq, event_offset)
               /\ Window(dq, event_offset, set.pre, set.post) =
                    [i \in 1 .. Until(dq, event_offset, set.post) - f
                        |-> Sample(scanlist[1], (base + f) + (i - 1))]
<1> DEFINE q == scanlist[1]
           dq == dm[q]
           G == line.given
           base == Base(line, G)
           es == getEvents(dm)
           c == event_offset
           c1 == es[1]
           f == First(c, set.pre)
           e == Until(dq, c, set.post)
<1>1. /\ PostFits /\ pc \notin {"idle", "load"} /\ q \in Quads /\ TBLOCK_LEN \in Nat /\ WORD \in Nat
      /\ 3 * TBLOCK_LEN <= WORD
  BY Counts, WorkerAssumption DEF PlainLine, InDir
<1>2. /\ set \in Settings /\ line \in AnyLine /\ dm \in Models(Rows) /\ Alike(dm)
      /\ dm[q].data = Contents(line, q, G)
      /\ dm[q].es = es /\ DOMAIN dm[q].es = 1 .. Len(es) /\ Ascending(dm[q].es)
      /\ \A k \in DOMAIN dm[q].es : 1 \in G /\ \E o \in line.es[1] : dm[q].es[k] = CursorOf(line, G, o)
  <2> HIDE DEF q
  <2> QED
    BY <1>1, EventsAre, Zenon
<1>3. /\ Len(es) \in Nat /\ \A k \in 1 .. Len(es) : es[k] \in Nat
      /\ \A k \in 1 .. Len(es) : Has(dq, es[k])
  <2>1. /\ Len(getEvents(dm)) \in Nat /\ \A k \in 1 .. Len(getEvents(dm)) : getEvents(dm)[k] \in Nat
        /\ \A k \in 1 .. Len(getEvents(dm)), p \in Quads : Has(dm[p], getEvents(dm)[k])
    BY <1>2, EventTypes, Zenon
  <2> QED
    BY <1>1, <2>1, Zenon
<1>4. cur \in 1 .. Len(es) /\ 1 \in 1 .. Len(es)
  <2>1. cur \in 0 .. Len(getEvents(dm)) /\ cur # 0
    BY DEF IInv, TypeInv, WorkInv
  <2> HIDE DEF es
  <2>2. cur \in 0 .. Len(es)
    BY <2>1 DEF es
  <2> QED
    BY <1>3, <2>1, <2>2
<1>5. c = es[cur] /\ c \in Nat /\ c1 \in Nat /\ Has(dq, c)
  <2>1. c = es[cur]
    BY Zenon DEF event_offset
  <2> HIDE DEF es, dq
  <2> QED
    BY <1>3, <1>4, <2>1, Zenon
<1>6. c1 <= c /\ (c # c1 => cur > 1)
  <2>1. Ascending(es) /\ DOMAIN es = 1 .. Len(es)
    BY <1>2, Zenon
  <2> HIDE DEF es
  <2>2. CASE cur = 1
    <3>1. c = c1
      BY <1>5, <2>2, Zenon
    <3> QED
      BY <1>5, <3>1
  <2>3. CASE cur > 1
    <3>1. es[1] < es[cur]
      BY <1>4, <2>1, <2>3 DEF Ascending
    <3> QED
      BY <1>5, <2>3, <3>1
  <2>4. cur = 1 \/ cur > 1
    BY <1>3, <1>4
  <2> QED
    BY <2>2, <2>3, <2>4
<1>7. 1 \in G /\ \E o \in line.es[1] : c = CursorOf(line, G, o)
  <2> DEFINE s == dm[q].es
  <2>1. \A k \in DOMAIN s : 1 \in G /\ \E o \in line.es[1] : s[k] = CursorOf(line, G, o)
    BY <1>2, Zenon
  <2>2. cur \in DOMAIN s /\ s[cur] = c
    BY <1>2, <1>4, <1>5, Zenon
  <2> HIDE DEF s
  <2> QED
    BY <2>1, <2>2, Zenon
<1>8. PICK o \in line.es[1] : c = CursorOf(line, G, o)
  BY <1>7, Zenon
<1>9. LeftLen(line, G) \in Nat /\ base \in Int
  BY <1>1, <1>2, <1>7, ContentsAt, Zenon
<1> DEFINE n == Number(line, TBLOCK_LEN + o)
<1>10. n = base + c /\ n \in Nat
  BY <1>1, <1>2, <1>7, <1>8, <1>9, CursorPlace, Zenon
<1>11. n < WORD
  <2>1. o \in Nat /\ o < TBLOCK_LEN
    BY <1>2, SlotOf
  <2>2. TBLOCK_LEN + o \in Nat
    BY <1>1, <2>1
  <2>3. n \in Nat /\ n <= TBLOCK_LEN + o
    BY <1>2, <2>2, NumberWithin
  <2> HIDE DEF n
  <2> QED
    BY <1>1, <2>1, <2>3
<1>12. msecs_at_esoff = base + c1 /\ base + c1 \in Nat
  <2>1. es # <<>>
    <3> SUFFICES ASSUME es = <<>> PROVE FALSE
      OBVIOUS
    <3> HIDE DEF es
    <3>1. Len(es) = 0
      BY EmptySeq
    <3> QED
      BY <1>4, <3>1
  <2>2. c1 = CursorOf(line, G, esoff(line))
    BY <1>1, <1>7, <2>1, FirstEvent, Zenon
  <2>3. esoff(line) \in line.es[1]
    <3>1. 1 \in 0 .. 2 /\ line.es[1] # {}
      BY <1>2, WorkerAssumption
    <3>2. line.es[1] \subseteq Nat
      BY <1>2, <3>1, LineTypes
    <3> QED
      BY <3>1, <3>2, LeastOf, Zenon DEF esoff
  <2>4. /\ Number(line, TBLOCK_LEN + esoff(line)) = Base(line, G) + CursorOf(line, G, esoff(line))
        /\ Number(line, TBLOCK_LEN + esoff(line)) \in Nat
    BY <1>1, <1>2, <1>7, <1>9, <2>3, CursorPlace, Zenon
  <2> QED
    BY <2>2, <2>4, Zenon DEF msecs_at_esoff
<1>13. /\ f \in Nat /\ f <= c /\ e \in Nat
       /\ Window(dq, c, set.pre, set.post) = [i \in 1 .. e - f |-> Sample(q, (base + f) + (i - 1))]
  <2> HIDE DEF G, c, dq, q
  <2>1. dq.data = Contents(line, q, G)
    BY <1>2, Zenon DEF dq
  <2>2. /\ First(c, set.pre) \in Nat /\ First(c, set.pre) <= c
        /\ Until(dq, c, set.post) \in Nat
        /\ Window(dq, c, set.pre, set.post) =
                [i \in 1 .. Until(dq, c, set.post) - First(c, set.pre)
                    |-> Sample(q, (Base(line, G) + First(c, set.pre)) + (i - 1))]
    BY <1>1, <1>2, <1>7, <1>8, <2>1, WindowContent
  <2> QED
    BY <2>2, Zenon
<1>14. base + f \in Nat
  <2> HIDE DEF G, c, dq, q
  <2>1. dq.data = Contents(line, q, G)
    BY <1>2, Zenon DEF dq
  <2>2. /\ Lowest(line, G) \in Nat /\ Number(line, TBLOCK_LEN + o) \in Nat
        /\ Base(line, G) + First(c, set.pre) =
            IF Number(line, TBLOCK_LEN + o) - set.pre >= Lowest(line, G)
            THEN Number(line, TBLOCK_LEN + o) - set.pre ELSE Lowest(line, G)
    BY <1>1, <1>2, <1>7, <1>8, <2>1, WindowSpan
  <2> DEFINE lo == Lowest(line, G)
             pre == set.pre
             x == base + f
  <2>3. lo \in Nat /\ n \in Nat /\ x = (IF n - pre >= lo THEN n - pre ELSE lo) /\ pre \in Nat
    BY <1>2, <2>2, SettingTypes, Zenon
  <2> HIDE DEF lo, n, pre, x
  <2>4. x \in Nat
    BY <2>3
  <2> QED
    BY <2>4 DEF x
<1>15. e <= c + set.post
  <2>1. e = IF c + set.post <= Len(dq.data) THEN c + set.post ELSE Len(dq.data)
    BY Zenon DEF Until
  <2>2. set.post \in Nat
    BY <1>2, SettingTypes
  <2> DEFINE len == Len(dq.data)
             post == set.post
  <2>3. e = (IF c + post <= len THEN c + post ELSE len) /\ post \in Nat /\ e \in Nat
    BY <1>13, <2>1, <2>2, Zenon
  <2> HIDE DEF len, e, c, post
  <2>4. len \in Int \/ e = c + post
    BY <2>3
  <2>5. e <= c + post
    BY <1>5, <2>3, <2>4
  <2> QED
    BY <2>5 DEF e, c, post
<1>16. base + c \in Nat /\ base + c < WORD
  BY <1>10, <1>11, Zenon
<1> QED
  BY <1>2, <1>4, <1>5, <1>6, <1>7, <1>9, <1>12, <1>13, <1>14, <1>15, <1>16, Zenon

\* When the time of the first sample of a window can be told.
Timeable ==
    IF line.timed
    THEN \A k \in 1 .. cur :
            /\ getEvents(dm)[k] >= set.pre
            /\ k > 1 => getEvents(dm)[k] - getEvents(dm)[1] >= set.pre
    ELSE 0 \in line.given => ~ MiddleCut(line).adjusts
origin == IF line.timed THEN 0 ELSE msecs_start

\* The timebase begins at the time of the first sample of the window.
LEMMA StartIs ==
    ASSUME IInv, LineInv, pc = "announce", PlainLine, Timeable
    PROVE  StartTime(dm[scanlist[1]]) =
                origin + (Base(line, line.given) + First(event_offset, set.pre))
<1> DEFINE dq == dm[scanlist[1]]
           base == Base(line, line.given)
           es == getEvents(dm)
           c == event_offset
           c1 == es[1]
           f == First(c, set.pre)
           pre == set.pre
           s == getSampleOffset
           x == s - c + f
           y == f - first_s1 - pre
<1>1. InDir
  BY DEF InDir
<1>2. /\ 1 \in line.given /\ base \in Int /\ dq.es = es
      /\ cur \in 1 .. Len(es) /\ 1 \in 1 .. Len(es)
      /\ c \in Nat /\ c1 \in Nat /\ c1 <= c
      /\ c # c1 => cur > 1
      /\ base + c \in Nat /\ base + c < WORD
      /\ msecs_at_esoff = base + c1 /\ base + c1 \in Nat
      /\ f \in Nat /\ f <= c /\ base + f \in Nat
  BY <1>1, EventNow
<1>3. StartTime(dq) = IF ~ line.timed THEN msecs_start + (x % WORD)
                      ELSE IF c = c1 THEN msecs_start - pre
                      ELSE msecs_start + (y % WORD)
  BY <1>2, Zenon DEF StartTime
<1>4. /\ WORD \in Nat \ {0} /\ pre \in Nat /\ msecs_start \in Nat /\ pss \in Int
  <2>1. set \in Settings /\ msecs_start \in Nat /\ pss \in Int
    BY DEF IInv, TypeInv
  <2> QED
    BY <2>1, SettingTypes, WorkerAssumption
<1>5. pc \notin {"idle", "load"}
  OBVIOUS
<1>6. CASE ~ line.timed
  <2>1. pss = base
    BY <1>2, <1>5, <1>6, PssIsBase, Zenon DEF Timeable
  <2>2. s = pss + c
    BY <1>6, Zenon DEF getSampleOffset
  <2>3. origin = msecs_start
    BY <1>6, Zenon DEF origin
  <2>4. StartTime(dq) = msecs_start + (x % WORD)
    BY <1>3, <1>6, Zenon
  <2> HIDE DEF s, f, c, c1, base, pre, es, dq
  <2>5. x = base + f
    BY <1>2, <2>1, <2>2
  <2>6. x \in Nat /\ x < WORD
    BY <1>2, <1>4, <2>5
  <2> HIDE DEF x
  <2>7. x % WORD = x
    BY <1>4, <2>6
  <2> QED
    BY <2>3, <2>4, <2>5, <2>7 DEF dq, base, f, c
<1>7. CASE line.timed
  <2>1. msecs_start = base + c1
    <3>1. cur > 0
      BY <1>2
    <3> QED
      BY <1>2, <1>7, <3>1, Zenon DEF LineInv, TimesInv
  <2>2. first_s1 = First(c1, pre)
    <3>1. cur > 1 \/ cur = 1
      BY <1>2
    <3>2. FirstDumped
      BY <3>1 DEF FirstDumped
    <3> QED
      BY <1>7, <3>2, Zenon DEF LineInv, TimesInv
  <2>3. c = es[cur]
    BY Zenon DEF event_offset
  <2>4. c1 >= pre /\ c >= pre /\ (cur > 1 => c - c1 >= pre)
    <3>1. \A k \in 1 .. cur : es[k] >= pre /\ (k > 1 => es[k] - c1 >= pre)
      BY <1>7, Zenon DEF Timeable
    <3>2. 1 \in 1 .. cur /\ cur \in 1 .. cur
      BY <1>2
    <3> QED
      BY <2>3, <3>1, <3>2, Zenon
  <2>5. origin = 0
    BY <1>7, Zenon DEF origin
  <2>6. f = IF c > pre THEN c - pre ELSE 0
    BY Zenon DEF First
  <2>7. first_s1 = IF c1 > pre THEN c1 - pre ELSE 0
    BY <2>2, Zenon DEF First
  <2>8. StartTime(dq) = IF c = c1 THEN msecs_start - pre ELSE msecs_start + (y % WORD)
    BY <1>3, <1>7, Zenon
  <2> HIDE DEF s, f, c, c1, base, pre, es, dq
  <2>9. f = c - pre /\ first_s1 = c1 - pre
    BY <1>2, <1>4, <2>4, <2>6, <2>7
  <2>10. CASE c = c1
    <3>1. StartTime(dq) = base + f
      BY <1>2, <1>4, <2>1, <2>8, <2>9, <2>10
    <3>2. StartTime(dq) = 0 + (base + f)
      BY <1>2, <3>1
    <3> QED
      BY <2>5, <3>2, Zenon DEF dq, base, f, c
  <2>11. CASE c # c1
    <3>1. c - c1 >= pre
      BY <1>2, <2>4, <2>11
    <3>2. y = c - c1 - pre
      BY <1>2, <1>4, <2>9
    <3>3. y \in Nat /\ y < WORD
      BY <1>2, <1>4, <3>1, <3>2
    <3> HIDE DEF y
    <3>4. y % WORD = y
      BY <1>4, <3>3
    <3>5. StartTime(dq) = 0 + (base + f)
      BY <1>2, <1>4, <2>1, <2>8, <2>9, <2>11, <3>2, <3>4
    <3> QED
      BY <2>5, <3>5, Zenon DEF dq, base, f, c
  <2> QED
    BY <2>10, <2>11
<1> QED
  BY <1>6, <1>7

\* The first quad of the directory has the window of the event, and the
\* timebase is its.
LEMMA StoredWindow ==
    ASSUME IInv, LineInv, pc = "announce", CleanDirs, Has(dm[scanlist[1]], event_offset)
    PROVE  /\ disk[WorkDir].tb = Timebase(dm[scanlist[1]])
           /\ disk[WorkDir].ch[scanlist[1]] =
                Window(dm[scanlist[1]], event_offset, set.pre, set.post)
<1>1. disk[WorkDir].tb = Timebase(dm[scanlist[1]])
  BY DEF LineInv, TimesInv, Stamped
<1>2. disk[WorkDir].ch = Goal
  <2>1. Whole(disk[WorkDir]) /\ disk[WorkDir].goal = Goal
    BY DEF IInv, StoredInv, DirInv, InDir
  <2> QED
    BY <2>1, Zenon DEF Whole
<1>3. scanlist[1] \in Quads
  BY Counts
<1>4. Goal[scanlist[1]] = Window(dm[scanlist[1]], event_offset, set.pre, set.post)
  BY <1>3 DEF Goal
<1> QED
  BY <1>1, <1>2, <1>4, Zenon

\* The times stored with the channels are those of their samples.
THEOREM TimebasesTrue == Spec => []TimebaseTrue
<1>1. IInv /\ LineInv => TimebaseTrue
  <2> DEFINE dq == dm[scanlist[1]]
             base == Base(line, line.given)
             c == event_offset
             f == First(c, set.pre)
             e == Until(dq, c, set.post)
             ch == disk[WorkDir].ch[scanlist[1]]
             tb == disk[WorkDir].tb
             start == StartTime(dq)
             post == set.post
  <2> SUFFICES ASSUME IInv, LineInv, pc = "announce", CleanDirs, PlainLine, Timeable
               PROVE  \A i \in 1 .. Len(ch) : tb[i] = origin + ch[i].n
    BY Zenon DEF TimebaseTrue, Timeable, origin
  <2>1. InDir
    BY DEF InDir
  <2>2. /\ base \in Int /\ c \in Nat /\ f \in Nat /\ f <= c /\ e \in Nat /\ e <= c + post
        /\ Has(dq, c)
        /\ Window(dq, c, set.pre, set.post) =
                [i \in 1 .. e - f |-> Sample(scanlist[1], (base + f) + (i - 1))]
    BY <2>1, EventNow
  <2>3. tb = Timebase(dq) /\ ch = Window(dq, c, set.pre, set.post)
    BY <2>2, StoredWindow, Zenon
  <2>4. start = origin + (base + f)
    BY StartIs, Zenon
  <2>5. Timebase(dq) = [i \in 1 .. c + post - f |-> start + i - 1]
    BY Zenon DEF Timebase
  <2>6. set.post \in Nat /\ origin \in Int
    <3>1. set \in Settings /\ msecs_start \in Nat
      BY DEF IInv, TypeInv
    <3> QED
      BY <3>1, SettingTypes DEF origin
  <2>7. \A m : Sample(scanlist[1], m).n = m
    BY DEF Sample
  <2>8. Len(ch) \in Nat /\ DOMAIN ch = 1 .. Len(ch)
    <3>1. disk[WorkDir] \in Files /\ scanlist[1] \in Quads
      <4>1. WorkDir \in DOMAIN disk /\ disk \in [DOMAIN disk -> Files]
        BY <2>1, Zenon DEF IInv, TypeInv, DirInv
      <4> QED
        BY <4>1, Counts
    <3>2. ch \in Seq(Rows)
      BY <3>1 DEF Files
    <3> HIDE DEF ch
    <3> QED
      BY <3>2, LenProperties
  <2>9. post \in Nat
    BY <2>6
  <2> HIDE DEF dq, base, c, f, e, ch, tb, start, post
  <2>10. DOMAIN ch = 1 .. e - f /\ \A i \in 1 .. e - f : ch[i].n = (base + f) + (i - 1)
    <3>1. ch = [i \in 1 .. e - f |-> Sample(scanlist[1], (base + f) + (i - 1))]
      BY <2>2, <2>3, Zenon
    <3> QED
      BY <2>7, <3>1, Zenon
  <2>11. ASSUME NEW i \in 1 .. Len(ch) PROVE tb[i] = origin + ch[i].n
    <3>1. i \in 1 .. e - f
      BY <2>8, <2>10
    <3>2. i \in 1 .. c + post - f
      BY <2>2, <2>9, <3>1
    <3>3. tb[i] = start + i - 1
      BY <2>3, <2>5, <3>2
    <3>4. ch[i].n = (base + f) + (i - 1)
      BY <2>10, <3>1, Zenon
    <3>5. start + i - 1 = origin + ((base + f) + (i - 1))
      BY <2>2, <2>4, <2>6, <3>2
    <3> QED
      BY <3>3, <3>4, <3>5, Zenon
  <2> QED
    BY <2>11
<1> QED
  BY <1>1, LineInvariance, PTL
=============================================================================
