------------------------ MODULE GenerationPeriodProofs ------------------------
(***************************************************************************)
(* Proofs about what the node keeps from one generation period to the next *)
(* (the stakes of StakeStore and the commitments of CommitmentBook), for   *)
(* every set of addresses, every period length and every bound.            *)
(*                                                                         *)
(* Stakes.  A course of blocks says which stakes each height sets.         *)
(* StakeInv links the nodes of the store along the course of the chain, so *)
(* that walking them finds the last write below a period, and says that    *)
(* the balance of every height the chain has covers the stakes set up to   *)
(* it.  Appending the liquid block extends the links by one height;        *)
(* undoing a block takes that height off again.                            *)
(*                                                                         *)
(* Commitments.  Good says of all the books what OncePerPeriod and         *)
(* ClosedWhenBegun say, and Fits what a page must meet to be added.        *)
(* GenerationStore implements the book, so this is what the votings and    *)
(* the deposits of the node can rely on.                                   *)
(***************************************************************************)
EXTENDS StakeStore, WellFoundedInduction, TLAPS

\* Every non-empty set of natural numbers has a least element.
LEMMA LeastNat == ASSUME NEW S \in SUBSET Nat, S # {} PROVE \E m \in S : \A n \in S : m <= n
<1> DEFINE R == {x \in Nat \X Nat : x[1] < x[2]}
<1>1. IsWellFoundedOn(R, Nat)
  BY NatLessThanWellFounded DEF OpToRel
<1>2. PICK x \in S : \A y \in S : ~(<<y, x>> \in R)
  <2> HIDE DEF R
  <2> QED
    BY <1>1, WFMin
<1>3. ASSUME NEW y \in S PROVE x <= y
  <2>1. x \in Nat /\ y \in Nat
    OBVIOUS
  <2>2. ~(<<y, x>> \in R)
    BY <1>2
  <2> QED
    BY <2>1, <2>2
<1> QED
  BY <1>3

\* One that is bounded has a greatest.
LEMMA MaxIsGreatest ==
  ASSUME NEW n \in Nat, NEW S \in SUBSET (0 .. n), S # {}
  PROVE  Max(S) \in S /\ \A m \in S : m <= Max(S)
<1> DEFINE D == {n - m : m \in S}
<1>1. D \in SUBSET Nat /\ D # {}
  OBVIOUS
<1>2. PICK d \in D : \A e \in D : d <= e
  <2> HIDE DEF D
  <2> QED
    BY <1>1, LeastNat
<1>3. PICK x \in S : d = n - x
  BY <1>2
<1>4. \A m \in S : x >= m
  <2> SUFFICES ASSUME NEW m \in S PROVE x >= m
    OBVIOUS
  <2>1. n - m \in D
    OBVIOUS
  <2>2. d <= n - m
    BY <1>2, <2>1
  <2>3. x \in 0 .. n /\ m \in 0 .. n
    OBVIOUS
  <2> QED
    BY <1>3, <2>2, <2>3
<1> HIDE DEF D
<1>5. Max(S) \in S /\ \A m \in S : Max(S) >= m
  BY <1>3, <1>4, Zenon DEF Max
<1>6. \A m \in S : m \in Int
  OBVIOUS
<1> QED
  BY <1>5, <1>6

-----------------------------------------------------------------------------
(* Sequences of anything *)

IsSeq(s) == \E S : s \in Seq(S)

\* Append to it
LEMMA AppendAny ==
  ASSUME NEW s, IsSeq(s), NEW x
  PROVE  /\ IsSeq(Append(s, x)) /\ Len(s) \in Nat
         /\ Len(Append(s, x)) = Len(s) + 1 /\ Append(s, x)[Len(s) + 1] = x
         /\ \A i \in 1 .. Len(s) : Append(s, x)[i] = s[i]
<1>1. PICK S : s \in Seq(S)
  BY DEF IsSeq
<1> DEFINE T == S \cup {x}
<1>2. s \in Seq(T) /\ x \in T
  BY <1>1
<1> HIDE DEF T
<1>3. Append(s, x) \in Seq(T)
  BY <1>2
<1> QED
  BY <1>1, <1>2, <1>3 DEF IsSeq

\* Cut it
LEMMA CutAny ==
  ASSUME NEW s, IsSeq(s), NEW n \in 1 .. Len(s)
  PROVE  /\ IsSeq(SubSeq(s, 1, n)) /\ Len(SubSeq(s, 1, n)) = n
         /\ \A i \in 1 .. n : SubSeq(s, 1, n)[i] = s[i]
<1>1. PICK S : s \in Seq(S)
  BY DEF IsSeq
<1>2. SubSeq(s, 1, n) \in Seq(S)
  BY <1>1
<1> QED
  BY <1>1, <1>2 DEF IsSeq

-----------------------------------------------------------------------------
(* Periods *)

\* A height lies in its period.
LEMMA InPeriod ==
  ASSUME NEW h \in Nat \ {0}
  PROVE  /\ periodOf(h) \in Nat \ {0} /\ periodOf(h) <= h /\ h < nextPeriod(periodOf(h))
         /\ nextPeriod(periodOf(h)) \in Nat \ {0}
         /\ isPeriodStart(periodOf(h)) /\ isPeriodStart(nextPeriod(periodOf(h)))
<1> DEFINE P == PeriodLength
           x == (h - 1) \div P
           p == x * P + 1
           q == (x + 1) * P + 1
<1>1. P \in Nat /\ P > 0
  BY PeriodAssumption
<1>2. x \in Nat
  BY <1>1
<1>3. P * x <= h - 1 /\ h - 1 < P * x + P
  BY <1>1
<1>4. periodOf(h) = p
  BY DEF periodOf
<1> HIDE DEF x
<1>5. nextPeriod(periodOf(h)) = q
  BY <1>1, <1>2, <1>4 DEF nextPeriod
<1>6. x * P \in Nat /\ (x + 1) * P \in Nat /\ (x + 1) * P = x * P + P /\ x * P = P * x
  BY <1>1, <1>2
<1>7. (x * P) \div P = x /\ ((x + 1) * P) \div P = x + 1
  BY <1>1, <1>2
<1>8. isPeriodStart(p) /\ isPeriodStart(q)
  <2>1. p - 1 = x * P /\ q - 1 = (x + 1) * P
    BY <1>6
  <2> QED
    BY <1>7, <2>1 DEF isPeriodStart, periodOf
<1> QED
  BY <1>1, <1>3, <1>4, <1>5, <1>6, <1>8

\* The periods that start above a height are those from the next one on.
LEMMA LaterPeriod ==
  ASSUME NEW h \in Nat \ {0}, NEW p \in Nat \ {0}, isPeriodStart(p)
  PROVE  h < p <=> p >= nextPeriod(periodOf(h))
<1> DEFINE P == PeriodLength
           x == (h - 1) \div P
           y == (p - 1) \div P
<1>1. P \in Nat /\ P > 0
  BY PeriodAssumption
<1>2. x \in Nat /\ y \in Nat
  BY <1>1
<1>3. P * x <= h - 1 /\ h - 1 < P * x + P
  BY <1>1
<1>4. p = y * P + 1 /\ nextPeriod(periodOf(h)) = x * P + 1 + P
  BY DEF isPeriodStart, periodOf, nextPeriod
<1> HIDE DEF x, y
<1>5. P * x = x * P /\ x * P \in Nat /\ y * P \in Nat
  BY <1>1, <1>2
<1>6. CASE y >= x + 1
  <2>1. y * P >= (x + 1) * P /\ (x + 1) * P = x * P + P
    BY <1>1, <1>2, <1>6
  <2> QED
    BY <1>1, <1>3, <1>4, <1>5, <2>1
<1>7. CASE y <= x
  <2>1. y * P <= x * P
    BY <1>1, <1>2, <1>7
  <2> QED
    BY <1>1, <1>3, <1>4, <1>5, <2>1
<1> QED
  BY <1>2, <1>6, <1>7

\* The period of a height is the only one around it.
LEMMA OnePeriod ==
  ASSUME NEW h \in Nat \ {0}, NEW p \in Nat \ {0}, isPeriodStart(p), p <= h, h < nextPeriod(p)
  PROVE  periodOf(h) = p
<1> DEFINE r == periodOf(h)
<1>1. r \in Nat \ {0} /\ r <= h /\ h < nextPeriod(r) /\ isPeriodStart(r)
  BY InPeriod
<1>2. periodOf(p) = p /\ periodOf(r) = r
  BY <1>1 DEF isPeriodStart
<1>3. nextPeriod(p) \in Nat /\ nextPeriod(r) \in Nat
  BY <1>1, PeriodAssumption DEF nextPeriod
<1> HIDE DEF r
<1>4. p < r <=> r >= nextPeriod(p)
  BY <1>1, <1>2, LaterPeriod
<1>5. r < p <=> p >= nextPeriod(r)
  BY <1>1, <1>2, LaterPeriod
<1>6. r = p
  BY <1>1, <1>3, <1>4, <1>5
<1> QED
  BY <1>6 DEF r

\* The next height is in the same period or starts the next.
LEMMA NextHeight ==
  ASSUME NEW h \in Nat \ {0}
  PROVE  \/ periodOf(h + 1) = periodOf(h)
         \/ periodOf(h + 1) = h + 1 /\ nextPeriod(periodOf(h)) = h + 1
<1> DEFINE n == h + 1
           r == periodOf(h)
           q == nextPeriod(periodOf(h))
<1>1. r \in Nat \ {0} /\ r <= h /\ isPeriodStart(r) /\ q \in Nat \ {0} /\ h < q /\ isPeriodStart(q) /\ q = nextPeriod(r)
  BY InPeriod
<1>2. n \in Nat \ {0} /\ r <= n /\ n <= q
  BY <1>1
<1>3. CASE n < q
  <2> HIDE DEF n, r, q
  <2>1. periodOf(n) = r
    BY <1>1, <1>2, <1>3, OnePeriod
  <2> QED
    BY <2>1 DEF n, r
<1>4. CASE n = q
  <2>1. periodOf(n) = n
    BY <1>1, <1>4 DEF isPeriodStart
  <2> QED
    BY <1>4, <2>1
<1> QED
  BY <1>1, <1>2, <1>3, <1>4

-----------------------------------------------------------------------------
(* What a course of blocks sets.  c gives the stakes set at each height.    *)

\* The block at a height sets the stake of an address.
Staked(c, a, h) == \E i \in DOMAIN c[h] : c[h][i].address = a

\* It sets it to the amount it gives last.
LastAmount(s, a) == s[Max({i \in DOMAIN s : s[i].address = a})].amount

AmountAt(c, a, h) == IF h = 0 THEN 0 ELSE LastAmount(c[h], a)

\* The last height up to top that sets a stake of the address, 0 for none.
LastWrite(c, a, top, k) ==
  /\ k \in 0 .. top
  /\ k # 0 => Staked(c, a, k)
  /\ \A j \in k + 1 .. top : ~Staked(c, a, j)

Course(c, top) == \A h \in 1 .. top : c[h] \in Seq(StakeCommitment) /\ Len(c[h]) <= MaxStakes

\* There is a last write.
LEMMA LastWriteExists ==
  ASSUME NEW c, NEW a, NEW top \in Nat
  PROVE  \E k \in 0 .. top : LastWrite(c, a, top, k)
<1> DEFINE S == {0} \cup {j \in 1 .. top : Staked(c, a, j)}
<1>1. S \in SUBSET (0 .. top) /\ 0 \in S
  OBVIOUS
<1>2. Max(S) \in S /\ \A j \in S : j <= Max(S)
  <2> HIDE DEF S
  <2> QED
    BY <1>1, MaxIsGreatest
<1> DEFINE k == Max(S)
<1> HIDE DEF k
<1>3. k \in S /\ \A j \in S : j <= k
  BY <1>2 DEF k
<1>4. ASSUME NEW j \in k + 1 .. top PROVE ~Staked(c, a, j)
  <2>1. j \in 1 .. top /\ ~(j <= k)
    BY <1>3
  <2> QED
    BY <1>3, <2>1
<1>5. k \in 0 .. top /\ (k # 0 => Staked(c, a, k))
  BY <1>3
<1> HIDE DEF S
<1>6. LastWrite(c, a, top, k)
  BY <1>4, <1>5 DEF LastWrite
<1> QED
  BY <1>5, <1>6

\* There is only one.
LEMMA LastWriteUnique ==
  ASSUME NEW c, NEW a, NEW top \in Nat, NEW k, NEW l, LastWrite(c, a, top, k), LastWrite(c, a, top, l)
  PROVE  k = l
<1>1. k \in 0 .. top /\ l \in 0 .. top
  BY DEF LastWrite
<1>2. ~(k < l)
  <2> SUFFICES ASSUME k < l PROVE FALSE
    OBVIOUS
  <2>1. l # 0 /\ l \in k + 1 .. top
    BY <1>1
  <2> QED
    BY <2>1 DEF LastWrite
<1>3. ~(l < k)
  <2> SUFFICES ASSUME l < k PROVE FALSE
    OBVIOUS
  <2>1. k # 0 /\ k \in l + 1 .. top
    BY <1>1
  <2> QED
    BY <2>1 DEF LastWrite
<1> QED
  BY <1>1, <1>2, <1>3

\* A write among lower heights is the last one if nothing follows it.
LEMMA LastWriteUp ==
  ASSUME NEW c, NEW a, NEW top \in Nat, NEW low \in Nat, low <= top, NEW k, LastWrite(c, a, low, k),
         \A j \in low + 1 .. top : ~Staked(c, a, j)
  PROVE  LastWrite(c, a, top, k)
<1>1. k \in 0 .. top
  BY DEF LastWrite
<1>2. ASSUME NEW j \in k + 1 .. top PROVE ~Staked(c, a, j)
  <2>1. j \in k + 1 .. low \/ j \in low + 1 .. top
    BY <1>1
  <2> QED
    BY <2>1 DEF LastWrite
<1> QED
  BY <1>1, <1>2 DEF LastWrite

\* The last write is also the last of any lower heights that have it.
LEMMA LastWriteDown ==
  ASSUME NEW c, NEW a, NEW top \in Nat, NEW low \in Nat, low <= top, NEW k, LastWrite(c, a, top, k), k <= low
  PROVE  LastWrite(c, a, low, k)
<1>1. k \in 0 .. low /\ \A j \in k + 1 .. low : j \in k + 1 .. top
  BY DEF LastWrite
<1> QED
  BY <1>1 DEF LastWrite

\* A height that writes is the last write up to it.
LEMMA LastWriteHere ==
  ASSUME NEW c, NEW a, NEW h \in Nat \ {0}, Staked(c, a, h)
  PROVE  LastWrite(c, a, h, h)
<1>1. h \in 0 .. h /\ h + 1 .. h = {}
  OBVIOUS
<1> QED
  BY <1>1 DEF LastWrite

\* Courses that agree have the same last write, and the same amount there.
LEMMA LastWriteSame ==
  ASSUME NEW c, NEW d, NEW a, NEW top \in Nat, \A h \in 1 .. top : c[h] = d[h], NEW k, LastWrite(c, a, top, k)
  PROVE  LastWrite(d, a, top, k) /\ AmountAt(d, a, k) = AmountAt(c, a, k)
<1>1. k \in 0 .. top
  BY DEF LastWrite
<1>2. \A h \in 1 .. top : Staked(c, a, h) <=> Staked(d, a, h)
  BY DEF Staked
<1>3. k # 0 => k \in 1 .. top
  BY <1>1
<1>4. \A j \in k + 1 .. top : j \in 1 .. top
  BY <1>1
<1> QED
  BY <1>1, <1>2, <1>3, <1>4 DEF LastWrite, AmountAt

\* Amounts are natural numbers.
LEMMA AmountNat ==
  ASSUME NEW s \in Seq(StakeCommitment), NEW a, \E i \in DOMAIN s : s[i].address = a
  PROVE  LastAmount(s, a) \in Nat /\ LastAmount(s, a) \in Amounts \cup {0}
<1> DEFINE S == {i \in DOMAIN s : s[i].address = a}
<1>0. Len(s) \in Nat /\ DOMAIN s = 1 .. Len(s)
  OBVIOUS
<1>1. S \in SUBSET (0 .. Len(s)) /\ S # {}
  BY <1>0
<1>2. Max(S) \in S
  <2> HIDE DEF S
  <2> QED
    BY <1>0, <1>1, MaxIsGreatest
<1>3. Max(S) \in DOMAIN s
  BY <1>2
<1>4. s[Max(S)] \in StakeCommitment
  <2> HIDE DEF S
  <2> QED
    BY <1>3
<1>5. LastAmount(s, a) = s[Max(S)].amount
  BY DEF LastAmount
<1> HIDE DEF S
<1>6. s[Max(S)].amount \in Amounts \cup {0}
  BY <1>4 DEF StakeCommitment
<1>7. \A x \in Amounts : x \in Nat
  BY StakeAssumption
<1> QED
  BY <1>5, <1>6, <1>7

-----------------------------------------------------------------------------
(* The linked history of an address: its current stake and a node at each   *)
(* height that set one.                                                     *)

StakeNode == [amount : Nat, prevHeight : Nat]

Linked(stake, node, c, a, top) ==
  /\ stake \in [amount : Nat, height : Nat, prevHeight : Nat]
  /\ node \in [Heights -> StakeNode]
  /\ LastWrite(c, a, top, stake.height)
  /\ stake.amount = AmountAt(c, a, stake.height)
  /\ stake.prevHeight = IF stake.height = 0 THEN 0 ELSE node[stake.height].prevHeight
  /\ \A h \in 1 .. top : Staked(c, a, h) =>
       node[h].amount = AmountAt(c, a, h) /\ LastWrite(c, a, h - 1, node[h].prevHeight)
  /\ \A h \in Heights : ~(h <= top /\ Staked(c, a, h)) => node[h] = EmptyNode

\* stakeBefore as its recursive function, over the nodes of an address
Walks(f, node, period) ==
  f = [h \in 0 .. MaxHeight |->
         IF h = 0 THEN 0
         ELSE IF h < period THEN (IF h = 0 THEN EmptyNode ELSE node[h]).amount
         ELSE f[(IF h = 0 THEN EmptyNode ELSE node[h]).prevHeight]]

\* stakeBefore is the value, at the node it starts from, of the function it is
\* defined with.
LEMMA StakeBeforeIs ==
  \A a, start, period : stakeBefore(a, start, period) = (CHOOSE f : Walks(f, stakeBalanceAt[a], period))[start]
BY DEF stakeBefore, Walks, nodeAt

\* Where the function goes
LEMMA WalksAt ==
  ASSUME NEW f, NEW node, NEW period, Walks(f, node, period)
  PROVE  \A h \in 0 .. MaxHeight :
           f[h] = IF h = 0 THEN 0 ELSE IF h < period THEN node[h].amount ELSE f[node[h].prevHeight]
<1> DEFINE G(g) == [h \in 0 .. MaxHeight |->
                      IF h = 0 THEN 0
                      ELSE IF h < period THEN (IF h = 0 THEN EmptyNode ELSE node[h]).amount
                      ELSE g[(IF h = 0 THEN EmptyNode ELSE node[h]).prevHeight]]
<1>1. f = G(f)
  BY DEF Walks
<1>2. \A h \in 0 .. MaxHeight :
        G(f)[h] = IF h = 0 THEN 0 ELSE IF h < period THEN node[h].amount ELSE f[node[h].prevHeight]
  OBVIOUS
<1> HIDE DEF G
<1> QED
  BY <1>1, <1>2

\* What a walk from a written height answers: the amount of the last write
\* below the period, k.
WalkValue(node, c, a, top, period, k, h) ==
  IF h = 0 THEN 0
  ELSE IF h < period THEN node[h].amount
  ELSE IF h <= top /\ Staked(c, a, h) THEN AmountAt(c, a, k) ELSE 0

\* The node before a written height is one more such height.
LEMMA WalkStep ==
  ASSUME NEW stake, NEW node, NEW c, NEW a, NEW top \in Nat, top <= MaxHeight, Linked(stake, node, c, a, top),
         NEW period \in Nat \ {0}, NEW k, LastWrite(c, a, period - 1, k),
         NEW h \in 1 .. MaxHeight, h >= period
  PROVE  /\ node[h].prevHeight \in 0 .. h - 1
         /\ WalkValue(node, c, a, top, period, k, h) = WalkValue(node, c, a, top, period, k, node[h].prevHeight)
<1> DEFINE p == node[h].prevHeight
<1>0. MaxHeight \in Nat /\ h \in Heights
  BY StakeAssumption DEF Heights
<1>1. CASE ~(h <= top /\ Staked(c, a, h))
  <2>0. node[h] = EmptyNode
    BY <1>0, <1>1, Zenon DEF Linked
  <2>1. p = 0
    BY <2>0 DEF EmptyNode
  <2> QED
    BY <1>1, <2>1 DEF WalkValue
<1>2. CASE h <= top /\ Staked(c, a, h)
  <2>1. h \in 1 .. top /\ h - 1 \in Nat /\ period - 1 \in Nat
    BY <1>2
  <2>2. LastWrite(c, a, h - 1, p)
    BY <1>2, <2>1 DEF Linked
  <2>3. p \in 0 .. h - 1
    BY <2>2 DEF LastWrite
  <2>4. WalkValue(node, c, a, top, period, k, h) = AmountAt(c, a, k)
    BY <1>2 DEF WalkValue
  <2> HIDE DEF p
  <2>5. p < period => k = p
    <3> SUFFICES ASSUME p < period PROVE k = p
      OBVIOUS
    <3>1. p <= period - 1 /\ period - 1 <= h - 1
      BY <2>3
    <3>2. LastWrite(c, a, period - 1, p)
      BY <2>1, <2>2, <3>1, LastWriteDown
    <3> QED
      BY <2>1, <3>2, LastWriteUnique
  <2>6. p # 0 => p \in 1 .. top /\ p <= top /\ Staked(c, a, p)
    BY <1>2, <2>2, <2>3 DEF LastWrite
  <2>7. WalkValue(node, c, a, top, period, k, p) = AmountAt(c, a, k)
    <3>1. CASE p = 0
      <4>1. k = 0
        BY <2>5, <3>1
      <4> QED
        BY <3>1, <4>1 DEF WalkValue, AmountAt
    <3>2. CASE p # 0 /\ p < period
      <4>1. node[p].amount = AmountAt(c, a, p)
        BY <2>6, <3>2 DEF Linked
      <4> QED
        BY <2>5, <3>2, <4>1 DEF WalkValue
    <3>3. CASE p # 0 /\ ~(p < period)
      BY <2>6, <3>3 DEF WalkValue
    <3> QED
      BY <3>1, <3>2, <3>3
  <2> QED
    BY <2>3, <2>4, <2>7 DEF p
<1> QED
  BY <1>1, <1>2

\* There is such a function, and its values are these.
LEMMA WalkIs ==
  ASSUME NEW stake, NEW node, NEW c, NEW a, NEW top \in Nat, top <= MaxHeight, Linked(stake, node, c, a, top),
         NEW period \in Nat \ {0}, NEW k, LastWrite(c, a, period - 1, k),
         NEW h \in 0 .. MaxHeight
  PROVE  (CHOOSE f : Walks(f, node, period))[h] = WalkValue(node, c, a, top, period, k, h)
<1> DEFINE V(j) == WalkValue(node, c, a, top, period, k, j)
           g == [j \in 0 .. MaxHeight |-> V(j)]
           f == CHOOSE f : Walks(f, node, period)
<1>0. MaxHeight \in Nat
  BY StakeAssumption
<1>1. \A j \in 1 .. MaxHeight : j >= period => node[j].prevHeight \in 0 .. j - 1 /\ V(j) = V(node[j].prevHeight)
  BY WalkStep
<1>2. V(0) = 0 /\ \A j \in 1 .. MaxHeight : j < period => V(j) = node[j].amount
  BY <1>0 DEF WalkValue
<1> HIDE DEF V
<1>3. \A j \in 0 .. MaxHeight : g[j] = V(j)
  OBVIOUS
<1>4. g = [j \in 0 .. MaxHeight |-> g[j]]
  OBVIOUS
<1> HIDE DEF g
<1>5. ASSUME NEW j \in 0 .. MaxHeight
      PROVE  g[j] = IF j = 0 THEN 0
                    ELSE IF j < period THEN (IF j = 0 THEN EmptyNode ELSE node[j]).amount
                    ELSE g[(IF j = 0 THEN EmptyNode ELSE node[j]).prevHeight]
  <2>1. CASE j = 0
    BY <1>2, <1>3, <2>1
  <2>2. CASE j # 0 /\ j < period
    <3>1. j \in 1 .. MaxHeight
      BY <1>0, <2>2
    <3> QED
      BY <1>2, <1>3, <2>2, <3>1
  <2>3. CASE j # 0 /\ ~(j < period)
    <3>1. j \in 1 .. MaxHeight /\ j >= period
      BY <1>0, <2>3
    <3>2. node[j].prevHeight \in 0 .. MaxHeight /\ V(j) = V(node[j].prevHeight)
      BY <1>0, <1>1, <3>1
    <3> QED
      BY <1>3, <2>3, <3>2
  <2> QED
    BY <2>1, <2>2, <2>3
<1>6. Walks(g, node, period)
  BY <1>4, <1>5, Zenon DEF Walks
<1>7. Walks(f, node, period)
  BY <1>6
<1> HIDE DEF f
<1>8. \A j \in 0 .. MaxHeight :
        f[j] = IF j = 0 THEN 0 ELSE IF j < period THEN node[j].amount ELSE f[node[j].prevHeight]
  BY <1>7, WalksAt
<1> DEFINE Bad == {j \in Nat : j <= MaxHeight /\ f[j] # V(j)}
<1>9. Bad = {}
  <2> SUFFICES ASSUME Bad # {} PROVE FALSE
    OBVIOUS
  <2>0. Bad \in SUBSET Nat
    OBVIOUS
  <2>1. PICK j \in Bad : \A i \in Bad : j <= i
    <3> HIDE DEF Bad
    <3> QED
      BY <2>0, LeastNat
  <2>2. j \in Nat /\ j <= MaxHeight /\ f[j] # V(j)
    OBVIOUS
  <2>3. j \in 0 .. MaxHeight
    BY <1>0, <2>2
  <2>4. j # 0
    BY <1>2, <1>8, <2>2, <2>3
  <2>5. j \in 1 .. MaxHeight
    BY <1>0, <2>3, <2>4
  <2>6. ~(j < period)
    BY <1>2, <1>8, <2>2, <2>3, <2>4, <2>5
  <2> DEFINE p == node[j].prevHeight
  <2>7. p \in 0 .. j - 1 /\ V(j) = V(p)
    BY <1>1, <2>5, <2>6
  <2>8. f[j] = f[p]
    BY <1>8, <2>3, <2>4, <2>6
  <2>9. p \in Nat /\ p <= MaxHeight /\ ~(j <= p)
    <3> HIDE DEF p
    <3> QED
      BY <1>0, <2>2, <2>7
  <2>10. p \in Bad
    BY <2>2, <2>7, <2>8, <2>9
  <2> QED
    BY <2>1, <2>9, <2>10
<1>10. h \in Nat /\ h <= MaxHeight
  BY <1>0
<1>11. f[h] = V(h)
  BY <1>9, <1>10
<1> QED
  BY <1>11 DEF f, V

-----------------------------------------------------------------------------
(* The reads of a stake, against the chain                                  *)

\* What the blocks set, the liquid block included
Chain == [h \in 1 .. tipHeight |-> commitmentsAt(h)]

ShapeOK ==
  /\ height \in 1 .. MaxHeight
  /\ IsSeq(blocks) /\ Len(blocks) = height
  /\ hearth \in Seq([Addresses -> Nat]) /\ Len(hearth) = height
  /\ liquid # NoBlock =>
       /\ liquid.height = height + 1 /\ height + 1 <= MaxHeight
       /\ liquid.hearth \in [Addresses -> Nat]
       /\ \A i \in DOMAIN liquid.nextStakes :
            liquid.nextStakes[i].periodStart = nextPeriod(periodOf(liquid.height))
       /\ liquid = [height |-> liquid.height, nextStakes |-> liquid.nextStakes,
                    hearth |-> liquid.hearth, payout |-> liquid.payout]
  /\ Course(Chain, tipHeight)

\* The last height of the chain below a period
Below(period, top, low) ==
  \/ low = top /\ top < period
  \/ low = period - 1 /\ period - 1 <= top

\* There is one.
LEMMA BelowExists ==
  ASSUME NEW period \in Nat \ {0}, NEW top \in Nat
  PROVE  \E low \in Nat : Below(period, top, low) /\ low <= top
<1>1. CASE top < period
  BY <1>1 DEF Below
<1>2. CASE ~(top < period)
  <2>1. period - 1 \in Nat /\ period - 1 <= top
    BY <1>2
  <2> QED
    BY <2>1 DEF Below
<1> QED
  BY <1>1, <1>2

\* The heights of the chain
LEMMA Tips ==
  ASSUME ShapeOK
  PROVE  /\ MaxHeight \in Nat /\ height \in Nat \ {0} /\ tipHeight \in Nat \ {0} /\ height <= MaxHeight
         /\ tipHeight <= MaxHeight
         /\ liquid = NoBlock => tipHeight = height
         /\ liquid # NoBlock => tipHeight = height + 1 /\ liquid.height = height + 1
         /\ \A h \in 1 .. tipHeight : Chain[h] = commitmentsAt(h)
         /\ \A h \in 1 .. height : h \in 1 .. tipHeight /\ Chain[h] = blocks[h].nextStakes
         /\ liquid # NoBlock => Chain[tipHeight] = liquid.nextStakes
<1>1. MaxHeight \in Nat /\ height \in Nat \ {0} /\ height <= MaxHeight
  BY StakeAssumption DEF ShapeOK
<1>2. /\ liquid = NoBlock => tipHeight = height
      /\ liquid # NoBlock => tipHeight = height + 1 /\ liquid.height = height + 1 /\ tipHeight <= MaxHeight
  BY DEF ShapeOK, tipHeight
<1>3. \A h \in 1 .. tipHeight : Chain[h] = commitmentsAt(h)
  BY DEF Chain
<1>4. tipHeight \in Nat \ {0} /\ height <= tipHeight
  BY <1>1, <1>2
<1>5. \A h \in 1 .. height : h \in 1 .. tipHeight /\ h <= height
  BY <1>1, <1>4
<1>6. \A h \in 1 .. height : Chain[h] = blocks[h].nextStakes
  BY <1>3, <1>5 DEF commitmentsAt
<1>7. liquid # NoBlock => Chain[tipHeight] = liquid.nextStakes
  <2> SUFFICES ASSUME liquid # NoBlock PROVE Chain[tipHeight] = liquid.nextStakes
    OBVIOUS
  <2>1. tipHeight \in 1 .. tipHeight /\ ~(tipHeight <= height) /\ tipHeight = liquid.height
    BY <1>1, <1>2, <1>4
  <2> QED
    BY <1>3, <2>1 DEF commitmentsAt
<1> QED
  BY <1>1, <1>2, <1>3, <1>4, <1>5, <1>6, <1>7

\* The store answers with the last write below the period.
LEMMA StoredIs ==
  ASSUME NEW a \in Addresses, NEW c, height \in Nat, height <= MaxHeight,
         Linked(stakeBalance[a], stakeBalanceAt[a], c, a, height),
         NEW period \in Nat \ {0}, NEW low \in Nat, Below(period, height, low),
         NEW k, LastWrite(c, a, low, k)
  PROVE  storedStakeAt(a, period) = AmountAt(c, a, k)
<1> DEFINE s == stakeBalance[a]
           node == stakeBalanceAt[a]
           t == s.height
<1>0. /\ s \in [amount : Nat, height : Nat, prevHeight : Nat]
      /\ LastWrite(c, a, height, t) /\ s.amount = AmountAt(c, a, t)
      /\ s.prevHeight = IF t = 0 THEN 0 ELSE node[t].prevHeight
  BY Zenon DEF Linked
<1>1. t \in 0 .. height
  BY <1>0 DEF LastWrite
<1>2. low <= height
  BY DEF Below
<1>3. CASE t < period
  <2>1. t <= low
    BY <1>1, <1>3 DEF Below
  <2>2. LastWrite(c, a, low, t)
    <3> HIDE DEF t
    <3> QED
      BY <1>0, <1>2, <2>1, LastWriteDown
  <2>3. k = t
    <3> HIDE DEF t
    <3> QED
      BY <2>2, LastWriteUnique
  <2> QED
    BY <1>0, <1>3, <2>3 DEF storedStakeAt
<1>4. CASE ~(t < period)
  <2>1. low = period - 1 /\ t \in 1 .. MaxHeight /\ t >= period /\ t # 0 /\ t <= height
    BY <1>1, <1>4, StakeAssumption DEF Below
  <2>2. storedStakeAt(a, period) = stakeBefore(a, s.prevHeight, period)
    BY <1>4 DEF storedStakeAt
  <2>3. s.prevHeight = node[t].prevHeight
    BY <1>0, <2>1
  <2>4. Staked(c, a, t)
    BY <1>0, <2>1 DEF LastWrite
  <2> DEFINE p == node[t].prevHeight
  <2>5. stakeBefore(a, p, period) = (CHOOSE f : Walks(f, node, period))[p]
    BY StakeBeforeIs
  <2>6. LastWrite(c, a, period - 1, k) /\ Linked(s, node, c, a, height)
    BY <2>1
  <2> HIDE DEF s, node, t
  <2>7. p \in 0 .. t - 1 /\ WalkValue(node, c, a, height, period, k, t) = WalkValue(node, c, a, height, period, k, p)
    BY <2>1, <2>6, WalkStep
  <2>8. p \in 0 .. MaxHeight
    <3> HIDE DEF p
    <3> QED
      BY <2>1, <2>7, StakeAssumption
  <2>9. (CHOOSE f : Walks(f, node, period))[p] = WalkValue(node, c, a, height, period, k, p)
    <3> HIDE DEF p
    <3> QED
      BY <2>6, <2>8, WalkIs
  <2>10. WalkValue(node, c, a, height, period, k, t) = AmountAt(c, a, k)
    BY <2>1, <2>4 DEF WalkValue
  <2> QED
    BY <2>2, <2>3, <2>5, <2>7, <2>9, <2>10
<1> QED
  BY <1>3, <1>4

\* So does the read through the liquid block.
LEMMA StakeAtIs ==
  ASSUME ShapeOK, NEW a \in Addresses, Linked(stakeBalance[a], stakeBalanceAt[a], Chain, a, height),
         NEW period \in Nat \ {0}, isPeriodStart(period), NEW low \in Nat, Below(period, tipHeight, low),
         NEW k, LastWrite(Chain, a, low, k)
  PROVE  stakeAt(a, period) = AmountAt(Chain, a, k)
<1> DEFINE s == liquid.nextStakes
           mine == {i \in DOMAIN s : s[i].address = a}
<1>0. /\ height \in Nat \ {0} /\ tipHeight \in Nat \ {0} /\ height <= MaxHeight
      /\ liquid = NoBlock => tipHeight = height
      /\ liquid # NoBlock => tipHeight = height + 1 /\ liquid.height = height + 1 /\ Chain[tipHeight] = s
  BY Tips
<1>1. CASE liquid = NoBlock
  <2>1. restatements(a, period) = {}
    BY <1>1 DEF restatements, NoBlock
  <2>2. stakeAt(a, period) = storedStakeAt(a, period)
    BY <2>1 DEF stakeAt
  <2> QED
    BY <1>0, <1>1, <2>2, StoredIs
<1>2. CASE liquid # NoBlock /\ period <= tipHeight
  <2>1. ~(period >= nextPeriod(periodOf(liquid.height)))
    BY <1>0, <1>2, LaterPeriod
  <2>2. \A i \in DOMAIN s : s[i].periodStart = nextPeriod(periodOf(liquid.height))
    BY <1>2 DEF ShapeOK
  <2>3. restatements(a, period) = {}
    BY <2>1, <2>2 DEF restatements
  <2>4. stakeAt(a, period) = storedStakeAt(a, period)
    BY <2>3 DEF stakeAt
  <2>5. Below(period, height, low)
    BY <1>0, <1>2 DEF Below
  <2> QED
    BY <1>0, <2>4, <2>5, StoredIs
<1>3. CASE liquid # NoBlock /\ tipHeight < period
  <2>1. period >= nextPeriod(periodOf(liquid.height))
    BY <1>0, <1>3, LaterPeriod
  <2>2. \A i \in DOMAIN s : s[i].periodStart = nextPeriod(periodOf(liquid.height))
    BY <1>3 DEF ShapeOK
  <2>3. restatements(a, period) = mine
    BY <2>1, <2>2 DEF restatements
  <2>4. low = tipHeight
    BY <1>0, <1>3 DEF Below
  <2>5. CASE mine = {}
    <3>1. ~Staked(Chain, a, tipHeight)
      BY <1>0, <1>3, <2>5 DEF Staked
    <3>2. k \in 0 .. tipHeight /\ k # tipHeight
      BY <1>0, <2>4, <3>1 DEF LastWrite
    <3>3. k <= height /\ height <= tipHeight
      BY <1>0, <1>3, <3>2
    <3>4. LastWrite(Chain, a, height, k)
      BY <1>0, <2>4, <3>3, LastWriteDown
    <3>5. stakeAt(a, period) = storedStakeAt(a, period)
      BY <2>3, <2>5 DEF stakeAt
    <3>6. Below(period, height, height)
      BY <1>0, <1>3 DEF Below
    <3> QED
      BY <1>0, <3>4, <3>5, <3>6, StoredIs
  <2>6. CASE mine # {}
    <3>1. Staked(Chain, a, tipHeight)
      BY <1>0, <1>3, <2>6 DEF Staked
    <3>2. k = tipHeight
      BY <1>0, <2>4, <3>1, LastWriteHere, LastWriteUnique
    <3>3. stakeAt(a, period) = s[Max(mine)].amount
      BY <2>3, <2>6, Zenon DEF stakeAt
    <3>4. AmountAt(Chain, a, tipHeight) = LastAmount(s, a)
      BY <1>0, <1>3 DEF AmountAt
    <3> QED
      BY <3>2, <3>3, <3>4 DEF LastAmount
  <2> QED
    BY <2>5, <2>6
<1> QED
  BY <1>0, <1>1, <1>2, <1>3

\* And the chain says the same.
LEMMA LastSetIs ==
  ASSUME ShapeOK, NEW a, NEW period \in Nat \ {0}, NEW low \in Nat, Below(period, tipHeight, low),
         NEW k, LastWrite(Chain, a, low, k)
  PROVE  LastSet(a, period) = AmountAt(Chain, a, k)
<1> DEFINE Set == {x \in (1 .. tipHeight) \X (1 .. MaxStakes) :
                    x[1] < period /\ x[2] \in DOMAIN commitmentsAt(x[1]) /\ commitmentsAt(x[1])[x[2]].address = a}
           After(x, y) == x[1] > y[1] \/ (x[1] = y[1] /\ x[2] >= y[2])
           last == CHOOSE x \in Set : \A y \in Set : After(x, y)
<1>0. tipHeight \in Nat \ {0} /\ \A h \in 1 .. tipHeight : Chain[h] = commitmentsAt(h)
  BY Tips
<1>1. LastSet(a, period) = IF Set = {} THEN 0 ELSE commitmentsAt(last[1])[last[2]].amount
  BY Zenon DEF LastSet
<1>2. k \in 0 .. low /\ low <= tipHeight /\ low < period
  BY <1>0 DEF LastWrite, Below
<1>3. \A x \in Set : /\ x[1] \in 1 .. tipHeight /\ x[2] \in 1 .. MaxStakes /\ x[1] < period
                     /\ x[2] \in DOMAIN Chain[x[1]] /\ Chain[x[1]][x[2]].address = a
  BY <1>0
<1>4. \A h \in 1 .. tipHeight, i \in 1 .. MaxStakes :
        h < period /\ i \in DOMAIN Chain[h] /\ Chain[h][i].address = a => <<h, i>> \in Set
  BY <1>0
<1> HIDE DEF Set
<1>5. ASSUME NEW x \in Set PROVE x[1] \in 1 .. k /\ Staked(Chain, a, x[1])
  <2>1. x[1] \in 1 .. tipHeight /\ x[1] <= low /\ Staked(Chain, a, x[1])
    BY <1>0, <1>2, <1>3 DEF Staked, Below
  <2>2. x[1] \notin k + 1 .. low
    BY <2>1 DEF LastWrite
  <2> QED
    BY <1>2, <2>1, <2>2
<1>6. CASE k = 0
  <2>1. Set = {}
    BY <1>5, <1>6
  <2> QED
    BY <1>1, <1>6, <2>1 DEF AmountAt
<1>7. CASE k # 0
  <2> DEFINE s == Chain[k]
             mine == {i \in DOMAIN s : s[i].address = a}
             m == Max(mine)
  <2>1. k \in 1 .. tipHeight /\ k < period /\ Staked(Chain, a, k)
    BY <1>0, <1>2, <1>7 DEF LastWrite
  <2>2. s \in Seq(StakeCommitment) /\ Len(s) <= MaxStakes
    BY <2>1 DEF ShapeOK, Course
  <2>3. mine \in SUBSET (0 .. Len(s)) /\ mine # {} /\ Len(s) \in Nat
    BY <2>1, <2>2 DEF Staked
  <2>4. m \in mine /\ \A i \in mine : i <= m
    <3> HIDE DEF mine
    <3> QED
      BY <2>3, MaxIsGreatest
  <2>5. m \in 1 .. MaxStakes /\ m \in DOMAIN s /\ s[m].address = a
    <3>1. m \in DOMAIN s /\ s[m].address = a
      BY <2>4
    <3> HIDE DEF m
    <3> QED
      BY <2>2, <3>1, StakeAssumption
  <2>6. <<k, m>> \in Set
    BY <1>4, <2>1, <2>5
  <2>7. ASSUME NEW x \in Set PROVE k > x[1] \/ (k = x[1] /\ m >= x[2])
    <3>1. x[1] \in 1 .. k /\ x[2] \in 1 .. MaxStakes
      BY <1>3, <1>5
    <3>2. CASE x[1] = k
      <4>1. x[2] \in mine
        BY <1>3, <3>2
      <4>2. x[2] <= m
        BY <2>4, <4>1
      <4> HIDE DEF m
      <4> QED
        BY <2>5, <3>1, <3>2, <4>2
    <3> QED
      BY <1>2, <3>1, <3>2
  <2> DEFINE top == <<k, m>>
  <2>8. top[1] = k /\ top[2] = m
    OBVIOUS
  <2>9. top \in Set /\ \A y \in Set : After(top, y)
    BY <2>6, <2>7, <2>8
  <2> HIDE DEF top
  <2>10. last \in Set /\ \A y \in Set : After(last, y)
    <3> HIDE DEF After
    <3> QED
      BY <2>9
  <2>11. After(last, top) /\ After(top, last)
    <3> HIDE DEF After, last
    <3> QED
      BY <2>9, <2>10
  <2>12. last[1] \in 1 .. tipHeight /\ last[2] \in 1 .. MaxStakes
    BY <1>3, <2>10
  <2> HIDE DEF last, m
  <2>13. last[1] = k /\ last[2] = m
    BY <1>0, <2>1, <2>5, <2>8, <2>11, <2>12
  <2>14. LastSet(a, period) = commitmentsAt(k)[m].amount
    BY <1>1, <2>6, <2>13
  <2>15. commitmentsAt(k) = s
    BY <1>0, <2>1
  <2> QED
    BY <1>7, <2>14, <2>15 DEF AmountAt, LastAmount, m
<1> QED
  BY <1>6, <1>7

-----------------------------------------------------------------------------
(* The inductive invariant                                                  *)

\* An amount covers what was set before the period of a height and up to it.
Backed(c, a, h, amount) ==
  \A k \in 0 .. h : LastWrite(c, a, periodOf(h) - 1, k) \/ LastWrite(c, a, h, k) => amount >= AmountAt(c, a, k)

BalanceAt(h, a) == IF h <= height THEN hearth[h][a] ELSE liquid.hearth[a]

\* Stakes and nodes are linked the way the persisted chain says, and every balance
\* that the chain can return to covers the stakes there.
StakeInv ==
  /\ ShapeOK
  /\ \A a \in Addresses : Linked(stakeBalance[a], stakeBalanceAt[a], Chain, a, height)
  /\ \A h \in 1 .. tipHeight, a \in Addresses : Backed(Chain, a, h, BalanceAt(h, a))

\* What is linked along a course is linked along another that agrees with it.
LEMMA LinkedSame ==
  ASSUME NEW c, NEW d, NEW a, NEW top \in Nat, \A h \in 1 .. top : c[h] = d[h],
         NEW stake, NEW node, Linked(stake, node, c, a, top)
  PROVE  Linked(stake, node, d, a, top)
<1> DEFINE t == stake.height
<1>1. \A h \in 1 .. top : Staked(c, a, h) <=> Staked(d, a, h)
  BY DEF Staked
<1>2. LastWrite(c, a, top, t) /\ stake.amount = AmountAt(c, a, t)
  BY DEF Linked
<1>3. LastWrite(d, a, top, t) /\ stake.amount = AmountAt(d, a, t)
  <2> HIDE DEF t
  <2> QED
    BY <1>2, LastWriteSame
<1>4. ASSUME NEW h \in 1 .. top, Staked(d, a, h)
      PROVE  node[h].amount = AmountAt(d, a, h) /\ LastWrite(d, a, h - 1, node[h].prevHeight)
  <2> DEFINE p == node[h].prevHeight
             g == h - 1
  <2>1. node[h].amount = AmountAt(c, a, h) /\ LastWrite(c, a, g, p)
    BY <1>1, <1>4, Zenon DEF Linked
  <2>2. g \in Nat /\ \A j \in 1 .. g : c[j] = d[j]
    OBVIOUS
  <2> HIDE DEF p, g
  <2>3. LastWrite(d, a, g, p)
    BY <2>1, <2>2, LastWriteSame
  <2>4. AmountAt(d, a, h) = AmountAt(c, a, h)
    BY DEF AmountAt
  <2> QED
    BY <2>1, <2>3, <2>4 DEF g, p
<1>5. ASSUME NEW h \in Heights, ~(h <= top /\ Staked(d, a, h)) PROVE node[h] = EmptyNode
  <2>1. ~(h <= top /\ Staked(c, a, h))
    <3>1. h <= top => h \in 1 .. top
      BY StakeAssumption DEF Heights
    <3> QED
      BY <1>1, <1>5, <3>1
  <2> QED
    BY <2>1, Zenon DEF Linked
<1> QED
  BY <1>3, <1>4, <1>5, Zenon DEF Linked

\* Whether a balance covers the stakes up to a height depends on the blocks up to
\* it only.
LEMMA BackedSame ==
  ASSUME NEW c, NEW d, NEW a, NEW h \in Nat \ {0}, \A j \in 1 .. h : c[j] = d[j], NEW amount, Backed(c, a, h, amount)
  PROVE  Backed(d, a, h, amount)
<1> DEFINE g == periodOf(h) - 1
<1>1. g \in Nat /\ g <= h
  BY InPeriod
<1>2. ASSUME NEW k \in 0 .. h, LastWrite(d, a, g, k) PROVE amount >= AmountAt(d, a, k)
  <2> HIDE DEF g
  <2>0. \A j \in 1 .. g : d[j] = c[j]
    BY <1>1
  <2>1. LastWrite(c, a, g, k) /\ AmountAt(c, a, k) = AmountAt(d, a, k)
    BY <1>1, <1>2, <2>0, LastWriteSame
  <2> QED
    BY <2>1 DEF Backed, g
<1>3. ASSUME NEW k \in 0 .. h, LastWrite(d, a, h, k) PROVE amount >= AmountAt(d, a, k)
  <2>1. LastWrite(c, a, h, k) /\ AmountAt(c, a, k) = AmountAt(d, a, k)
    BY <1>3, LastWriteSame
  <2> QED
    BY <2>1 DEF Backed
<1> QED
  BY <1>2, <1>3 DEF Backed

\* A block that sets the stake links a node.
LEMMA LinkedWrite ==
  ASSUME NEW c, NEW a, NEW top \in Nat, top + 1 <= MaxHeight,
         NEW stake, NEW node, Linked(stake, node, c, a, top),
         Staked(c, a, top + 1), AmountAt(c, a, top + 1) \in Nat
  PROVE  Linked([amount |-> AmountAt(c, a, top + 1), height |-> top + 1, prevHeight |-> stake.height],
                [node EXCEPT ![top + 1] = [amount |-> AmountAt(c, a, top + 1), prevHeight |-> stake.height]],
                c, a, top + 1)
<1> DEFINE h == top + 1
           x == AmountAt(c, a, h)
           new == [amount |-> x, height |-> h, prevHeight |-> stake.height]
           here == [amount |-> x, prevHeight |-> stake.height]
           nodes == [node EXCEPT ![h] = here]
<1>0. /\ stake \in [amount : Nat, height : Nat, prevHeight : Nat] /\ node \in [Heights -> StakeNode]
      /\ LastWrite(c, a, top, stake.height)
  BY DEF Linked
<1>1. stake.height \in 0 .. top /\ h \in Heights /\ h \in Nat \ {0} /\ top = h - 1
  BY <1>0, StakeAssumption DEF LastWrite, Heights
<1>2. here \in StakeNode
  BY <1>1 DEF StakeNode
<1>3. nodes \in [Heights -> StakeNode] /\ nodes[h] = here /\ \A j \in Heights : j # h => nodes[j] = node[j]
  <2> HIDE DEF here
  <2> QED
    BY <1>0, <1>1, <1>2
<1>4. LastWrite(c, a, h, h)
  BY <1>1, LastWriteHere
<1>5. new \in [amount : Nat, height : Nat, prevHeight : Nat] /\ new.height = h /\ new.amount = x /\ new.prevHeight = stake.height
  BY <1>1
<1>6. here.amount = x /\ here.prevHeight = stake.height
  OBVIOUS
<1> HIDE DEF h, x, new, here, nodes
<1>7. ASSUME NEW j \in 1 .. h, Staked(c, a, j)
      PROVE  nodes[j].amount = AmountAt(c, a, j) /\ LastWrite(c, a, j - 1, nodes[j].prevHeight)
  <2>1. CASE j = h
    BY <1>0, <1>1, <1>3, <1>6, <2>1 DEF x
  <2>2. CASE j # h
    <3>1. j \in 1 .. top /\ j \in Heights
      BY <1>1, <2>2, StakeAssumption DEF Heights
    <3>2. node[j].amount = AmountAt(c, a, j) /\ LastWrite(c, a, j - 1, node[j].prevHeight)
      BY <1>7, <3>1, Zenon DEF Linked
    <3> QED
      BY <1>3, <2>2, <3>1, <3>2
  <2> QED
    BY <2>1, <2>2
<1>8. ASSUME NEW j \in Heights, ~(j <= h /\ Staked(c, a, j)) PROVE nodes[j] = EmptyNode
  <2>1. Staked(c, a, h) /\ h <= h
    BY <1>1 DEF h
  <2>2. j # h
    BY <1>8, <2>1
  <2>3. ~(j <= top /\ Staked(c, a, j))
    BY <1>1, <1>8 DEF Heights
  <2>4. node[j] = EmptyNode
    BY <2>3, Zenon DEF Linked
  <2> QED
    BY <1>3, <2>2, <2>4
<1>9. Linked(new, nodes, c, a, h)
  BY <1>1, <1>3, <1>4, <1>5, <1>6, <1>7, <1>8, Zenon DEF Linked, x
<1> QED
  BY <1>9 DEF new, nodes, here, x, h

\* A block that does not leaves the links.
LEMMA LinkedKeep ==
  ASSUME NEW c, NEW a, NEW top \in Nat, NEW stake, NEW node, Linked(stake, node, c, a, top), ~Staked(c, a, top + 1)
  PROVE  Linked(stake, node, c, a, top + 1)
<1> DEFINE h == top + 1
           t == stake.height
<1>1. h \in Nat /\ top <= h
  OBVIOUS
<1>2. \A j \in top + 1 .. h : ~Staked(c, a, j)
  OBVIOUS
<1>3. LastWrite(c, a, h, t)
  <2>1. LastWrite(c, a, top, t)
    BY DEF Linked
  <2> HIDE DEF h, t
  <2> QED
    BY <1>1, <1>2, <2>1, LastWriteUp
<1>4. \A j \in 1 .. h : Staked(c, a, j) => j \in 1 .. top
  OBVIOUS
<1>5. \A j \in Heights : j <= top => j <= h
  BY DEF Heights
<1> HIDE DEF h
<1> QED
  BY <1>3, <1>4, <1>5, Zenon DEF Linked, h

\* Undoing the block at a height leads to the links below it.
LEMMA LinkedUndo ==
  ASSUME NEW c, NEW a, NEW top \in Nat \ {0}, top <= MaxHeight, NEW stake, NEW node, Linked(stake, node, c, a, top),
         NEW full, full = [g \in 0 .. MaxHeight |-> IF g = 0 THEN EmptyNode ELSE node[g]]
  PROVE  Linked(rollbackStake(stake, full, top),
                IF stake.height = top THEN [node EXCEPT ![top] = EmptyNode] ELSE node, c, a, top - 1)
<1> DEFINE low == top - 1
<1>0. /\ stake \in [amount : Nat, height : Nat, prevHeight : Nat] /\ node \in [Heights -> StakeNode]
      /\ LastWrite(c, a, top, stake.height) /\ stake.amount = AmountAt(c, a, stake.height)
      /\ stake.prevHeight = IF stake.height = 0 THEN 0 ELSE node[stake.height].prevHeight
  BY Zenon DEF Linked
<1>1. stake.height \in 0 .. top /\ low \in Nat /\ low <= top /\ top \in Heights /\ top \in 1 .. top
  BY <1>0, StakeAssumption DEF LastWrite, Heights
<1>2. CASE stake.height # top
  <2>1. stake.height <= low
    BY <1>1, <1>2
  <2>2. LastWrite(c, a, low, stake.height)
    <3> HIDE DEF low
    <3> QED
      BY <1>0, <1>1, <2>1, LastWriteDown
  <2>3. ~Staked(c, a, top)
    <3>1. top \in stake.height + 1 .. top
      BY <1>1, <1>2
    <3> QED
      BY <1>0, <3>1 DEF LastWrite
  <2>4. \A j \in 1 .. low : j \in 1 .. top
    OBVIOUS
  <2>5. \A j \in Heights : j <= top /\ Staked(c, a, j) => j <= low
    BY <2>3 DEF Heights
  <2>6. Linked(stake, node, c, a, low)
    <3> HIDE DEF low
    <3> QED
      BY <2>2, <2>4, <2>5, Zenon DEF Linked
  <2> QED
    BY <1>2, <2>6 DEF rollbackStake
<1>3. CASE stake.height = top
  <2> DEFINE p == node[top].prevHeight
             nodes == [node EXCEPT ![top] = EmptyNode]
             new == [amount |-> full[p].amount, height |-> p, prevHeight |-> full[p].prevHeight]
  <2>1. stake.prevHeight = p /\ Staked(c, a, top)
    BY <1>0, <1>3 DEF LastWrite
  <2>2. LastWrite(c, a, low, p)
    BY <1>1, <2>1, Zenon DEF Linked
  <2>3. p \in 0 .. low
    BY <2>2 DEF LastWrite
  <2>4. EmptyNode \in StakeNode
    BY DEF EmptyNode, StakeNode
  <2>5. nodes \in [Heights -> StakeNode] /\ nodes[top] = EmptyNode /\ \A j \in Heights : j # top => nodes[j] = node[j]
    BY <1>0, <1>1, <2>4
  <2> HIDE DEF nodes, p
  <2>6. p = 0 => full[p] = EmptyNode
    BY StakeAssumption
  <2>7. p # 0 => p \in Heights /\ p # top /\ p \in 1 .. low /\ p \in 1 .. top /\ full[p] = node[p] /\ Staked(c, a, p)
    <3> SUFFICES ASSUME p # 0
                 PROVE  p \in Heights /\ p # top /\ p \in 1 .. low /\ p \in 1 .. top /\ full[p] = node[p] /\ Staked(c, a, p)
      OBVIOUS
    <3>1. p \in Heights /\ p # top /\ p \in 1 .. low /\ p \in 1 .. top /\ p \in 0 .. MaxHeight
      BY <2>3, StakeAssumption DEF Heights
    <3> QED
      BY <2>2, <3>1 DEF LastWrite
  <2>8. full[p] \in StakeNode /\ full[p].amount = AmountAt(c, a, p)
    <3>1. CASE p = 0
      BY <2>4, <2>6, <3>1 DEF AmountAt, EmptyNode
    <3>2. CASE p # 0
      <4>1. node[p].amount = AmountAt(c, a, p)
        BY <2>7, <3>2, Zenon DEF Linked
      <4> QED
        BY <1>0, <2>7, <3>2, <4>1
    <3> QED
      BY <3>1, <3>2
  <2>9. new \in [amount : Nat, height : Nat, prevHeight : Nat] /\ new.height = p /\ new.amount = AmountAt(c, a, p) /\ new.prevHeight = full[p].prevHeight
    BY <2>3, <2>8 DEF StakeNode
  <2>10. new.prevHeight = IF p = 0 THEN 0 ELSE nodes[p].prevHeight
    <3>1. CASE p = 0
      BY <2>6, <2>9, <3>1 DEF EmptyNode
    <3>2. CASE p # 0
      BY <2>5, <2>7, <2>9, <3>2
    <3> QED
      BY <3>1, <3>2
  <2> HIDE DEF new
  <2>11. ASSUME NEW j \in 1 .. low, Staked(c, a, j)
         PROVE  nodes[j].amount = AmountAt(c, a, j) /\ LastWrite(c, a, j - 1, nodes[j].prevHeight)
    <3>1. j \in 1 .. top /\ j \in Heights /\ j # top
      BY StakeAssumption DEF Heights
    <3>2. node[j].amount = AmountAt(c, a, j) /\ LastWrite(c, a, j - 1, node[j].prevHeight)
      BY <2>11, <3>1, Zenon DEF Linked
    <3> QED
      BY <2>5, <3>1, <3>2
  <2>12. ASSUME NEW j \in Heights, ~(j <= low /\ Staked(c, a, j)) PROVE nodes[j] = EmptyNode
    <3>1. CASE j = top
      BY <2>5, <3>1
    <3>2. CASE j # top
      <4>1. ~(j <= top /\ Staked(c, a, j))
        BY <2>12, <3>2 DEF Heights
      <4>2. node[j] = EmptyNode
        BY <4>1, Zenon DEF Linked
      <4> QED
        BY <2>5, <3>2, <4>2
    <3> QED
      BY <3>1, <3>2
  <2> HIDE DEF low
  <2>13. Linked(new, nodes, c, a, low)
    BY <2>2, <2>5, <2>9, <2>10, <2>11, <2>12, Zenon DEF Linked
  <2>14. rollbackStake(stake, full, top) = new
    BY <1>3, <2>1 DEF rollbackStake, new
  <2> QED
    BY <1>3, <2>13, <2>14 DEF nodes, low
<1> QED
  BY <1>2, <1>3

-----------------------------------------------------------------------------
(* Undoing blocks                                                           *)

\* What doRollback starts from
StoreNow ==
  [height |-> height, stakeBalance |-> stakeBalance, stakeBalanceAt |-> stakeBalanceAt,
   activeStake |-> activeStake, stakingPayout |-> stakingPayout]

\* A function that says what the store is at each height while blocks are undone.
Undoes(u, target) ==
  u = [h \in target .. height |->
         IF h = height THEN StoreNow ELSE rollbackHeight(u[h + 1])]

\* doRollback as its recursive function.
LEMMA RollbackIs == \A target : doRollback(target) = (CHOOSE u : Undoes(u, target))[target]
BY DEF doRollback, Undoes, StoreNow

\* Such a function goes from block to block.
LEMMA UndoesAt ==
  ASSUME height \in Nat, NEW target \in Nat, NEW u, Undoes(u, target)
  PROVE  \A h \in target .. height :
           u[h] = IF h = height THEN StoreNow ELSE rollbackHeight(u[h + 1])
<1> DEFINE G(g) == [h \in target .. height |->
                      IF h = height THEN StoreNow ELSE rollbackHeight(g[h + 1])]
<1>1. u = G(u)
  BY DEF Undoes
<1>2. \A h \in target .. height :
        G(u)[h] = IF h = height THEN StoreNow ELSE rollbackHeight(u[h + 1])
  OBVIOUS
<1> HIDE DEF G
<1> QED
  BY <1>1, <1>2

\* There is one, down to any target.
LEMMA UndoesExist ==
  ASSUME height \in Nat, NEW target \in Nat, target <= height
  PROVE  \E u : Undoes(u, target)
<1> DEFINE Good(n) == \E u : Undoes(u, height - n)
           Bad == {n \in Nat : n <= height /\ ~Good(n)}
<1>1. Bad \in SUBSET Nat
  OBVIOUS
<1>2. Good(0)
  <2> DEFINE u == [h \in height .. height |-> StoreNow]
  <2>1. u = [h \in height .. height |-> IF h = height THEN StoreNow ELSE rollbackHeight(u[h + 1])]
    OBVIOUS
  <2>2. height - 0 = height
    OBVIOUS
  <2> HIDE DEF u
  <2>3. Undoes(u, height)
    BY <2>1 DEF Undoes
  <2> QED
    BY <2>2, <2>3
<1>3. ASSUME NEW n \in Nat, n # 0, n <= height, Good(n - 1) PROVE Good(n)
  <2> DEFINE t == height - n
             k == t + 1
  <2>1. t \in Nat /\ k \in Nat /\ t < height /\ k = height - (n - 1)
    BY <1>3
  <2>2. PICK u : Undoes(u, k)
    BY <1>3, <2>1
  <2> HIDE DEF t
  <2> DEFINE w == [h \in t .. height |-> IF h = t THEN rollbackHeight(u[k]) ELSE u[h]]
  <2>3. \A h \in k .. height : u[h] = IF h = height THEN StoreNow ELSE rollbackHeight(u[h + 1])
    <3> HIDE DEF k
    <3> QED
      BY <2>1, <2>2, UndoesAt
  <2>4. /\ w[t] = rollbackHeight(u[k])
        /\ \A h \in k .. height : w[h] = u[h]
        /\ w = [h \in t .. height |-> w[h]]
    BY <2>1
  <2> HIDE DEF w
  <2>5. ASSUME NEW h \in t .. height PROVE w[h] = IF h = height THEN StoreNow ELSE rollbackHeight(w[h + 1])
    <3>1. CASE h = t
      <4>1. h # height /\ h + 1 = k /\ k \in k .. height
        BY <2>1, <3>1
      <4> QED
        BY <2>4, <3>1, <4>1
    <3>2. CASE h # t
      <4>1. h \in k .. height /\ (h # height => h + 1 \in k .. height)
        BY <2>1, <3>2
      <4> QED
        BY <2>3, <2>4, <4>1, Zenon
    <3> QED
      BY <3>1, <3>2
  <2>6. Undoes(w, t)
    BY <2>4, <2>5, Zenon DEF Undoes
  <2> QED
    BY <2>6 DEF t
<1> HIDE DEF Good
<1>4. Bad = {}
  <2> SUFFICES ASSUME Bad # {} PROVE FALSE
    OBVIOUS
  <2>1. PICK n \in Bad : \A m \in Bad : n <= m
    <3> HIDE DEF Bad
    <3> QED
      BY <1>1, LeastNat
  <2>2. n \in Nat /\ n <= height /\ ~Good(n) /\ n # 0
    BY <1>2
  <2>3. n - 1 \in Nat /\ n - 1 \notin Bad /\ n - 1 <= height
    BY <2>1, <2>2
  <2> QED
    BY <1>3, <2>2, <2>3
<1> DEFINE n == height - target
<1>5. n \in Nat /\ n <= height /\ height - n = target
  OBVIOUS
<1>6. Good(n)
  BY <1>4, <1>5
<1> QED
  BY <1>5, <1>6 DEF Good


\* A store after the block at a height
StoreOK(db, c, top) ==
  db.height = top /\ \A a \in Addresses : Linked(db.stakeBalance[a], db.stakeBalanceAt[a], c, a, top)

\* Undoing a block leads to the store before it.
LEMMA UndoneBlock ==
  ASSUME NEW c, NEW top \in Nat \ {0}, top <= MaxHeight, NEW db, StoreOK(db, c, top)
  PROVE  StoreOK(rollbackHeight(db), c, top - 1)
<1> DEFINE was == rollbackHeight(db)
           full(a) == [g \in 0 .. MaxHeight |-> IF g = 0 THEN EmptyNode ELSE db.stakeBalanceAt[a][g]]
<1>0. db.height = top
  BY DEF StoreOK
<1>1. was.height = top - 1
  BY <1>0 DEF rollbackHeight
<1>2. ASSUME NEW a \in Addresses PROVE Linked(was.stakeBalance[a], was.stakeBalanceAt[a], c, a, top - 1)
  <2> DEFINE stake == db.stakeBalance[a]
             node == db.stakeBalanceAt[a]
             f == full(a)
  <2>1. was.stakeBalance[a] = rollbackStake(stake, f, top)
    BY <1>0, Zenon DEF rollbackHeight
  <2>2. was.stakeBalanceAt[a] = IF stake.height = top THEN [node EXCEPT ![top] = EmptyNode] ELSE node
    BY <1>0, Zenon DEF rollbackHeight
  <2>3. Linked(stake, node, c, a, top)
    BY DEF StoreOK
  <2>4. f = [g \in 0 .. MaxHeight |-> IF g = 0 THEN EmptyNode ELSE node[g]]
    OBVIOUS
  <2> HIDE DEF stake, node, f, full
  <2>5. Linked(rollbackStake(stake, f, top), IF stake.height = top THEN [node EXCEPT ![top] = EmptyNode] ELSE node,
               c, a, top - 1)
    BY <2>3, <2>4, LinkedUndo
  <2> QED
    BY <2>1, <2>2, <2>5
<1> QED
  BY <1>1, <1>2 DEF StoreOK

\* The store that a rollback leaves is the one after the target block.
LEMMA RollbackStore ==
  ASSUME NEW c, height \in Nat \ {0}, height <= MaxHeight, StoreOK(StoreNow, c, height),
         NEW target \in Nat \ {0}, target <= height
  PROVE  StoreOK(doRollback(target), c, target)
<1> DEFINE u == CHOOSE u : Undoes(u, target)
           Bad == {n \in Nat : n <= height - target /\ ~StoreOK(u[height - n], c, height - n)}
<1>1. \E w : Undoes(w, target)
  BY UndoesExist
<1>2. Undoes(u, target) /\ doRollback(target) = u[target]
  BY <1>1, RollbackIs
<1> HIDE DEF u
<1>3. \A h \in target .. height : u[h] = IF h = height THEN StoreNow ELSE rollbackHeight(u[h + 1])
  BY <1>2, UndoesAt
<1>4. Bad = {}
  <2> SUFFICES ASSUME Bad # {} PROVE FALSE
    OBVIOUS
  <2>0. Bad \in SUBSET Nat
    OBVIOUS
  <2>1. PICK n \in Bad : \A m \in Bad : n <= m
    <3> HIDE DEF Bad
    <3> QED
      BY <2>0, LeastNat
  <2> DEFINE h == height - n
             k == h + 1
  <2>2. n \in Nat /\ n <= height - target /\ ~StoreOK(u[h], c, h)
    OBVIOUS
  <2>3. h \in target .. height /\ h \in Nat
    BY <2>2
  <2>4. n # 0
    <3> SUFFICES ASSUME n = 0 PROVE FALSE
      OBVIOUS
    <3>1. h = height
      BY <2>2
    <3> HIDE DEF h
    <3> QED
      BY <1>3, <2>2, <2>3, <3>1
  <2>5. /\ n - 1 \in Nat /\ n - 1 <= height - target /\ k = height - (n - 1) /\ n - 1 \notin Bad
        /\ h # height /\ k \in Nat \ {0} /\ k <= MaxHeight /\ k - 1 = h
    BY <2>1, <2>2, <2>3, <2>4, StakeAssumption
  <2>6. StoreOK(u[k], c, k)
    BY <2>5
  <2>7. u[h] = rollbackHeight(u[k])
    BY <1>3, <2>3, <2>5
  <2> HIDE DEF h, k
  <2>8. StoreOK(rollbackHeight(u[k]), c, h)
    BY <2>5, <2>6, UndoneBlock
  <2> QED
    BY <2>2, <2>7, <2>8
<1> DEFINE n == height - target
<1>5. n \in Nat /\ n <= height - target /\ height - n = target
  OBVIOUS
<1>6. StoreOK(u[height - n], c, height - n)
  BY <1>4, <1>5
<1> QED
  BY <1>2, <1>5, <1>6

-----------------------------------------------------------------------------
(* What the invariant says of the reads                                     *)

\* The amount at a last write is a natural number.
LEMMA AmountIn ==
  ASSUME NEW c, NEW a, NEW top \in Nat, Course(c, top), NEW low \in Nat, low <= top, NEW k, LastWrite(c, a, low, k)
  PROVE  AmountAt(c, a, k) \in Nat /\ k \in 0 .. low /\ k \in 0 .. top
<1>1. k \in 0 .. low /\ k \in 0 .. top
  BY DEF LastWrite
<1>2. CASE k = 0
  BY <1>1, <1>2 DEF AmountAt
<1>3. CASE k # 0
  <2>1. k \in 1 .. top /\ Staked(c, a, k)
    BY <1>1, <1>3 DEF LastWrite
  <2>2. c[k] \in Seq(StakeCommitment)
    BY <2>1 DEF Course
  <2>3. LastAmount(c[k], a) \in Nat
    BY <2>1, <2>2, AmountNat DEF Staked
  <2> QED
    BY <1>1, <1>3, <2>3 DEF AmountAt
<1> QED
  BY <1>2, <1>3

\* Both reads of a stake agree, for every period.
LEMMA Answered ==
  ASSUME StakeInv, NEW a \in Addresses, NEW period \in Nat \ {0}, isPeriodStart(period)
  PROVE  stakeAt(a, period) = LastSet(a, period) /\ stakeAt(a, period) \in Nat
<1>0. ShapeOK /\ tipHeight \in Nat \ {0} /\ Linked(stakeBalance[a], stakeBalanceAt[a], Chain, a, height)
  BY Tips DEF StakeInv
<1>1. PICK low \in Nat : Below(period, tipHeight, low) /\ low <= tipHeight
  BY <1>0, BelowExists
<1>2. PICK k \in 0 .. low : LastWrite(Chain, a, low, k)
  BY LastWriteExists
<1>3. stakeAt(a, period) = AmountAt(Chain, a, k)
  BY <1>0, <1>1, <1>2, StakeAtIs
<1>4. LastSet(a, period) = AmountAt(Chain, a, k)
  BY <1>0, <1>1, <1>2, LastSetIs
<1>5. AmountAt(Chain, a, k) \in Nat
  <2>1. Course(Chain, tipHeight)
    BY <1>0 DEF ShapeOK
  <2> QED
    BY <1>0, <1>1, <1>2, <2>1, AmountIn
<1> QED
  BY <1>3, <1>4, <1>5

\* The stake in force at the tip is the last below its period, the one set for
\* the next period the last of all.
LEMMA ReadsAtTip ==
  ASSUME StakeInv, NEW a \in Addresses
  PROVE  /\ \A k : LastWrite(Chain, a, periodOf(tipHeight) - 1, k) => AmountAt(Chain, a, k) = stakeAt(a, periodOf(tipHeight))
         /\ \A k : LastWrite(Chain, a, tipHeight, k) => AmountAt(Chain, a, k) = stakeAt(a, nextPeriod(periodOf(tipHeight)))
<1> DEFINE p == periodOf(tipHeight)
           q == nextPeriod(p)
           low == p - 1
<1>0. ShapeOK /\ tipHeight \in Nat \ {0} /\ Linked(stakeBalance[a], stakeBalanceAt[a], Chain, a, height)
  BY Tips DEF StakeInv
<1>1. p \in Nat \ {0} /\ p <= tipHeight /\ q \in Nat \ {0} /\ tipHeight < q /\ isPeriodStart(p) /\ isPeriodStart(q)
  BY <1>0, InPeriod
<1>2. low \in Nat /\ Below(p, tipHeight, low) /\ Below(q, tipHeight, tipHeight)
  BY <1>0, <1>1 DEF Below
<1> HIDE DEF p, q, low
<1>3. \A k : LastWrite(Chain, a, low, k) => AmountAt(Chain, a, k) = stakeAt(a, p)
  BY <1>0, <1>1, <1>2, StakeAtIs
<1>4. \A k : LastWrite(Chain, a, tipHeight, k) => AmountAt(Chain, a, k) = stakeAt(a, q)
  BY <1>0, <1>1, <1>2, StakeAtIs
<1> QED
  BY <1>3, <1>4 DEF p, q, low

\* Blockchain.stakeAt answers what the chain set last.
LEMMA InvStakeAt == StakeInv => StakeAtIsLastSet
<1> SUFFICES ASSUME StakeInv, NEW a \in Addresses, NEW period \in Periods PROVE stakeAt(a, period) = LastSet(a, period)
  BY DEF StakeAtIsLastSet
<1>1. tipHeight \in Nat \ {0}
  BY Tips DEF StakeInv
<1>2. nextPeriod(periodOf(tipHeight)) \in Nat \ {0}
  BY <1>1, InPeriod
<1>3. period \in Nat \ {0} /\ isPeriodStart(period)
  BY <1>2 DEF Periods
<1> QED
  BY <1>3, Answered

\* The balance covers the stakes of this period and the next.
LEMMA InvBacked == StakeInv => StakeBacked
<1> SUFFICES ASSUME StakeInv, NEW a \in Addresses
             PROVE  /\ hearthOf(a) >= LastSet(a, periodOf(tipHeight))
                    /\ hearthOf(a) >= LastSet(a, nextPeriod(periodOf(tipHeight)))
  BY DEF StakeBacked
<1> DEFINE p == periodOf(tipHeight)
           q == nextPeriod(p)
           low == p - 1
<1>0. /\ ShapeOK /\ height \in Nat \ {0} /\ tipHeight \in Nat \ {0}
      /\ liquid = NoBlock => tipHeight = height
      /\ liquid # NoBlock => tipHeight = height + 1
  BY Tips DEF StakeInv
<1>1. p \in Nat \ {0} /\ p <= tipHeight /\ q \in Nat \ {0} /\ tipHeight < q /\ isPeriodStart(p) /\ isPeriodStart(q)
  BY <1>0, InPeriod
<1>2. low \in Nat /\ low <= tipHeight
  BY <1>0, <1>1
<1>3. hearthOf(a) = BalanceAt(tipHeight, a)
  BY <1>0 DEF hearthOf, BalanceAt
<1>4. tipHeight \in 1 .. tipHeight
  BY <1>0
<1>5. Backed(Chain, a, tipHeight, hearthOf(a))
  BY <1>3, <1>4 DEF StakeInv
<1>6. \A k \in 0 .. tipHeight : LastWrite(Chain, a, low, k) \/ LastWrite(Chain, a, tipHeight, k) => hearthOf(a) >= AmountAt(Chain, a, k)
  BY <1>5 DEF Backed
<1>7. stakeAt(a, p) = LastSet(a, p) /\ stakeAt(a, q) = LastSet(a, q)
  <2> HIDE DEF p, q
  <2> QED
    BY <1>1, Answered
<1>8. hearthOf(a) >= stakeAt(a, p)
  <2>1. PICK k \in 0 .. low : LastWrite(Chain, a, low, k)
    BY <1>2, LastWriteExists
  <2>2. k \in 0 .. tipHeight
    <3> HIDE DEF low
    <3> QED
      BY <1>0, <1>2
  <2>3. AmountAt(Chain, a, k) = stakeAt(a, p)
    BY <2>1, ReadsAtTip
  <2> HIDE DEF low, p
  <2> QED
    BY <1>6, <2>1, <2>2, <2>3
<1>9. hearthOf(a) >= stakeAt(a, q)
  <2>1. PICK k \in 0 .. tipHeight : LastWrite(Chain, a, tipHeight, k)
    BY <1>0, LastWriteExists
  <2>3. AmountAt(Chain, a, k) = stakeAt(a, q)
    BY <2>1, ReadsAtTip
  <2> HIDE DEF low, q
  <2> QED
    BY <1>6, <2>1, <2>3
<1> QED
  BY <1>7, <1>8, <1>9

\* Blockchain.stakes has stakes in force only, by the amount in force.
LEMMA InvPayout == StakeInv => PayoutOnlyOwed
<1> SUFFICES ASSUME StakeInv, NEW period \in Periods, NEW a \in DOMAIN stakes(period)
             PROVE  stakes(period)[a] > 0 /\ stakes(period)[a] = LastSet(a, period)
  BY DEF PayoutOnlyOwed
<1> DEFINE stored == loadStakes(period)
           restated == {b \in Addresses : restatements(b, period) # {}}
           staking == (DOMAIN stored \ restated) \cup {b \in restated : stakeAt(b, period) > 0}
<1>1. stakes(period) = [b \in staking |-> IF b \in restated THEN stakeAt(b, period) ELSE stored[b]]
  BY Zenon DEF stakes
<1>2. a \in staking /\ stakes(period)[a] = IF a \in restated THEN stakeAt(a, period) ELSE stored[a]
  <2> HIDE DEF stored, restated, staking
  <2> QED
    BY <1>1
<1>3. \A b \in DOMAIN stored : b \in Addresses /\ stored[b] = storedStakeAt(b, period) /\ storedStakeAt(b, period) > 0
  BY DEF loadStakes
<1>4. a \in Addresses
  BY <1>2, <1>3
<1>5. a \notin restated => stakeAt(a, period) = storedStakeAt(a, period)
  BY <1>4 DEF stakeAt
<1>6. stakes(period)[a] = stakeAt(a, period) /\ stakeAt(a, period) > 0
  BY <1>2, <1>3, <1>5
<1> QED
  BY <1>4, <1>6, InvStakeAt DEF StakeAtIsLastSet

-----------------------------------------------------------------------------
(* Steps                                                                    *)

\* The chain after a step
LEMMA NextTips ==
  ASSUME height' \in Nat \ {0}, liquid' # NoBlock => liquid'.height = height' + 1
  PROVE  /\ liquid' = NoBlock => tipHeight' = height'
         /\ liquid' # NoBlock => tipHeight' = height' + 1 /\ Chain'[height' + 1] = liquid'.nextStakes
         /\ \A h \in 1 .. height' : Chain'[h] = blocks'[h].nextStakes
<1>1. /\ liquid' = NoBlock => tipHeight' = height'
      /\ liquid' # NoBlock => tipHeight' = height' + 1
  BY DEF tipHeight
<1>2. tipHeight' \in Nat /\ height' <= tipHeight'
  BY <1>1
<1>3. \A h \in 1 .. tipHeight' :
        Chain'[h] = IF h <= height' THEN blocks'[h].nextStakes
                    ELSE IF h = liquid'.height THEN liquid'.nextStakes ELSE <<>>
  BY DEF Chain, commitmentsAt
<1>4. ASSUME NEW h \in 1 .. height' PROVE Chain'[h] = blocks'[h].nextStakes
  <2>1. h \in 1 .. tipHeight' /\ h <= height'
    BY <1>2
  <2> QED
    BY <1>3, <2>1
<1>5. ASSUME liquid' # NoBlock PROVE Chain'[height' + 1] = liquid'.nextStakes
  <2>1. height' + 1 \in 1 .. tipHeight' /\ ~(height' + 1 <= height') /\ height' + 1 = liquid'.height
    <3>1. tipHeight' = height' + 1 /\ liquid'.height = height' + 1
      BY <1>1, <1>5
    <3>2. height' + 1 \in 1 .. height' + 1 /\ ~(height' + 1 <= height')
      <4>1. \A n \in Nat \ {0} : n + 1 \in 1 .. n + 1 /\ ~(n + 1 <= n)
        OBVIOUS
      <4> QED
        BY <4>1
    <3> QED
      BY <3>1, <3>2
  <2> QED
    BY <1>3, <2>1
<1> QED
  BY <1>1, <1>4, <1>5

\* One more commitment of a block sets the amount of its address, of no other.
LEMMA AppendAmount ==
  ASSUME NEW s \in Seq(StakeCommitment), NEW x \in StakeCommitment
  PROVE  /\ LastAmount(Append(s, x), x.address) = x.amount
         /\ \E i \in DOMAIN Append(s, x) : Append(s, x)[i].address = x.address
         /\ \A b : b # x.address =>
              /\ (\E i \in DOMAIN Append(s, x) : Append(s, x)[i].address = b) <=> (\E i \in DOMAIN s : s[i].address = b)
              /\ (\E i \in DOMAIN s : s[i].address = b) => LastAmount(Append(s, x), b) = LastAmount(s, b)
<1> DEFINE t == Append(s, x)
           n == Len(s) + 1
           mine(b) == {i \in DOMAIN t : t[i].address = b}
<1>0. /\ t \in Seq(StakeCommitment) /\ n \in Nat \ {0} /\ DOMAIN s = 1 .. n - 1 /\ DOMAIN t = 1 .. n /\ t[n] = x
      /\ \A i \in 1 .. n - 1 : t[i] = s[i]
  OBVIOUS
<1> HIDE DEF t, n
<1>1. LastAmount(t, x.address) = x.amount /\ \E i \in DOMAIN t : t[i].address = x.address
  <2> DEFINE S == mine(x.address)
  <2>1. S \in SUBSET (0 .. n) /\ n \in S
    BY <1>0
  <2>2. Max(S) \in S /\ \A i \in S : i <= Max(S)
    <3> HIDE DEF S
    <3> QED
      BY <1>0, <2>1, MaxIsGreatest
  <2>3. Max(S) \in 0 .. n
    <3> HIDE DEF S
    <3> QED
      BY <2>1, <2>2
  <2>4. Max(S) = n
    <3> DEFINE m == Max(S)
    <3>1. m \in 0 .. n /\ n <= m
      BY <2>1, <2>2, <2>3
    <3> HIDE DEF m
    <3>2. m = n
      BY <1>0, <3>1
    <3> QED
      BY <3>2 DEF m
  <2> QED
    BY <1>0, <2>1, <2>4 DEF LastAmount
<1>2. ASSUME NEW b, b # x.address
      PROVE  /\ (\E i \in DOMAIN t : t[i].address = b) <=> (\E i \in DOMAIN s : s[i].address = b)
             /\ (\E i \in DOMAIN s : s[i].address = b) => LastAmount(t, b) = LastAmount(s, b)
  <2> DEFINE S == {i \in DOMAIN s : s[i].address = b}
  <2>1. mine(b) = S
    BY <1>0, <1>2
  <2>2. S # {} => Max(S) \in DOMAIN s
    <3>1. S \in SUBSET (0 .. n)
      BY <1>0
    <3>2. S # {} => Max(S) \in S
      <4> HIDE DEF S
      <4> QED
        BY <1>0, <3>1, MaxIsGreatest
    <3> QED
      BY <3>2
  <2>3. (\E i \in DOMAIN t : t[i].address = b) <=> S # {}
    BY <2>1
  <2>4. S # {} => t[Max(S)] = s[Max(S)]
    <3> HIDE DEF S
    <3> QED
      BY <1>0, <2>2
  <2> QED
    BY <2>1, <2>3, <2>4 DEF LastAmount
<1> QED
  BY <1>1, <1>2 DEF t

\* StakeTransaction
LEMMA StepStake ==
  ASSUME StakeInv, NEW a \in Addresses, NEW amount \in Amounts \cup {0}, StakeTransaction(a, amount)
  PROVE  StakeInv'
<1> DEFINE s == liquid.nextStakes
           p == periodOf(tipHeight)
           x == [address |-> a, periodStart |-> nextPeriod(p), amount |-> amount]
           low == p - 1
<1>0. /\ ShapeOK /\ MaxHeight \in Nat /\ height \in Nat \ {0} /\ tipHeight \in Nat \ {0} /\ height <= MaxHeight
      /\ liquid # NoBlock /\ tipHeight = height + 1 /\ liquid.height = height + 1
      /\ \A h \in 1 .. height : h \in 1 .. tipHeight /\ Chain[h] = blocks[h].nextStakes
      /\ Chain[tipHeight] = s
  BY Tips DEF StakeInv, StakeTransaction
<1>1. /\ height + 1 <= MaxHeight /\ liquid.hearth \in [Addresses -> Nat]
      /\ \A i \in DOMAIN s : s[i].periodStart = nextPeriod(periodOf(liquid.height))
      /\ liquid = [height |-> liquid.height, nextStakes |-> s, hearth |-> liquid.hearth, payout |-> liquid.payout]
      /\ Course(Chain, tipHeight)
  BY <1>0 DEF ShapeOK
<1>2. p \in Nat \ {0} /\ p <= tipHeight /\ nextPeriod(p) \in Nat \ {0} /\ low \in Nat /\ low <= height
  BY <1>0, InPeriod
<1>3. s \in Seq(StakeCommitment) /\ Len(s) < MaxStakes
  BY <1>0, <1>1 DEF Course, StakeTransaction
<1>4. x \in StakeCommitment /\ x.address = a /\ x.amount = amount /\ x.periodStart = nextPeriod(p)
  BY <1>2 DEF StakeCommitment
<1>5. /\ UNCHANGED <<height, hearth, stakeBalance, stakeBalanceAt, blocks>>
      /\ liquid' = [liquid EXCEPT !.nextStakes = Append(s, x)]
      /\ hearthOf(a) >= StakeLock(stakeAt(a, p), amount)
  BY Zenon DEF StakeTransaction, storeVars, coversStake
<1> DEFINE t == Append(s, x)
<1> HIDE DEF x
<1>6. /\ liquid'.height = liquid.height /\ liquid'.nextStakes = t /\ liquid'.hearth = liquid.hearth
      /\ liquid' = [height |-> liquid'.height, nextStakes |-> liquid'.nextStakes, hearth |-> liquid'.hearth, payout |-> liquid'.payout]
  BY <1>1, <1>5
<1>7. liquid' # NoBlock
  BY <1>0, <1>6 DEF NoBlock
<1>8. /\ tipHeight' = tipHeight /\ height' = height
      /\ Chain'[tipHeight] = t
      /\ \A h \in 1 .. height : Chain'[h] = Chain[h]
  BY <1>0, <1>5, <1>6, <1>7, NextTips
<1>9. t \in Seq(StakeCommitment) /\ Len(t) <= MaxStakes /\ t[Len(s) + 1] = x /\ Len(t) = Len(s) + 1
      /\ DOMAIN t = 1 .. Len(s) + 1 /\ \A i \in DOMAIN s : t[i] = s[i]
  BY <1>3, <1>4, StakeAssumption
<1>10. /\ LastAmount(t, a) = amount /\ \E i \in DOMAIN t : t[i].address = a
       /\ \A b : b # a =>
            /\ (\E i \in DOMAIN t : t[i].address = b) <=> (\E i \in DOMAIN s : s[i].address = b)
            /\ (\E i \in DOMAIN s : s[i].address = b) => LastAmount(t, b) = LastAmount(s, b)
  <2> HIDE DEF s
  <2>1. /\ LastAmount(t, x.address) = x.amount /\ \E i \in DOMAIN t : t[i].address = x.address
        /\ \A b : b # x.address =>
             /\ (\E i \in DOMAIN t : t[i].address = b) <=> (\E i \in DOMAIN s : s[i].address = b)
             /\ (\E i \in DOMAIN s : s[i].address = b) => LastAmount(t, b) = LastAmount(s, b)
    BY <1>3, <1>4, AppendAmount, Zenon
  <2> QED
    BY <1>4, <2>1, Zenon
<1>11. \A i \in DOMAIN t : t[i].periodStart = nextPeriod(periodOf(liquid.height))
  <2> SUFFICES ASSUME NEW i \in DOMAIN t PROVE t[i].periodStart = nextPeriod(periodOf(liquid.height))
    OBVIOUS
  <2>1. i \in DOMAIN s \/ i = Len(s) + 1
    BY <1>3, <1>9
  <2> QED
    BY <1>0, <1>1, <1>4, <1>9, <2>1
<1> HIDE DEF t, s
<1>12. Course(Chain, tipHeight)'
  <2> SUFFICES ASSUME NEW h \in 1 .. tipHeight PROVE Chain'[h] \in Seq(StakeCommitment) /\ Len(Chain'[h]) <= MaxStakes
    BY <1>8 DEF Course
  <2>1. h \in 1 .. height \/ h = tipHeight
    BY <1>0
  <2> QED
    BY <1>1, <1>8, <1>9, <2>1 DEF Course
<1>13. ShapeOK'
  BY <1>0, <1>1, <1>5, <1>6, <1>7, <1>11, <1>12 DEF ShapeOK
<1>14. ASSUME NEW b \in Addresses PROVE Linked(stakeBalance[b], stakeBalanceAt[b], Chain, b, height)'
  <2>1. Linked(stakeBalance[b], stakeBalanceAt[b], Chain, b, height)
    BY DEF StakeInv
  <2>2. Linked(stakeBalance[b], stakeBalanceAt[b], Chain', b, height)
    BY <1>0, <1>8, <2>1, LinkedSame
  <2> QED
    BY <1>5, <2>2
<1>15. ASSUME NEW h \in 1 .. tipHeight, NEW b \in Addresses PROVE Backed(Chain, b, h, BalanceAt(h, b))'
  <2>0. Backed(Chain, b, h, BalanceAt(h, b)) /\ BalanceAt(h, b)' = BalanceAt(h, b)
    BY <1>5, <1>6 DEF StakeInv, BalanceAt
  <2>1. CASE h \in 1 .. height
    <3>1. h \in Nat \ {0} /\ \A j \in 1 .. h : Chain[j] = Chain'[j]
      BY <1>0, <1>8, <2>1
    <3>2. Backed(Chain', b, h, BalanceAt(h, b))
      BY <2>0, <3>1, BackedSame
    <3> QED
      BY <2>0, <3>2
  <2>2. CASE h = tipHeight
    <3> DEFINE y == BalanceAt(tipHeight, b)
    <3>1. ASSUME NEW k \in 0 .. tipHeight, LastWrite(Chain', b, low, k) PROVE y >= AmountAt(Chain', b, k)
      <4>1. \A j \in 1 .. low : Chain'[j] = Chain[j]
        BY <1>0, <1>2, <1>8
      <4>2. LastWrite(Chain, b, low, k) /\ AmountAt(Chain, b, k) = AmountAt(Chain', b, k)
        <5> HIDE DEF low
        <5> QED
          BY <1>2, <3>1, <4>1, LastWriteSame
      <4> QED
        BY <2>0, <2>2, <4>2 DEF Backed
    <3>2. ASSUME NEW k \in 0 .. tipHeight, LastWrite(Chain', b, tipHeight, k) PROVE y >= AmountAt(Chain', b, k)
      <4>1. CASE b = a
        <5>1. Staked(Chain', a, tipHeight)
          BY <1>8, <1>10 DEF Staked
        <5>2. k = tipHeight
          BY <1>0, <3>2, <4>1, <5>1, LastWriteHere, LastWriteUnique
        <5>3. AmountAt(Chain', b, k) = amount
          BY <1>0, <1>8, <1>10, <4>1, <5>2 DEF AmountAt
        <5>4. y = hearthOf(a) /\ y \in Nat
          BY <1>0, <1>1, <4>1 DEF BalanceAt, hearthOf
        <5>5. stakeAt(a, p) \in Nat /\ amount \in Nat
          <6>1. isPeriodStart(p)
            BY <1>0, InPeriod
          <6> HIDE DEF p
          <6> QED
            BY <1>2, <6>1, Answered, StakeAssumption
        <5> HIDE DEF y
        <5>6. y >= amount
          BY <1>5, <5>4, <5>5 DEF StakeLock
        <5> QED
          BY <5>3, <5>6 DEF y
      <4>2. CASE b # a
        <5>1. Staked(Chain', b, tipHeight) <=> Staked(Chain, b, tipHeight)
          BY <1>0, <1>8, <1>10, <4>2 DEF Staked
        <5>2. CASE k = tipHeight
          <6>1. Staked(Chain, b, tipHeight)
            BY <1>0, <3>2, <5>1, <5>2 DEF LastWrite
          <6>2. LastWrite(Chain, b, tipHeight, k)
            BY <1>0, <5>2, <6>1, LastWriteHere
          <6>3. AmountAt(Chain', b, k) = AmountAt(Chain, b, k)
            BY <1>0, <1>8, <1>10, <4>2, <5>2, <6>1 DEF AmountAt, Staked
          <6> QED
            BY <2>0, <2>2, <6>2, <6>3 DEF Backed
        <5>3. CASE k # tipHeight
          <6>1. k <= height /\ height \in Nat /\ height <= tipHeight
            BY <1>0, <5>3
          <6>2. ~Staked(Chain', b, tipHeight)
            <7>1. tipHeight \in k + 1 .. tipHeight
              BY <1>0, <6>1
            <7> QED
              BY <3>2, <7>1 DEF LastWrite
          <6>3. LastWrite(Chain', b, height, k)
            BY <1>0, <3>2, <6>1, LastWriteDown
          <6>4. LastWrite(Chain, b, height, k) /\ AmountAt(Chain, b, k) = AmountAt(Chain', b, k)
            BY <1>8, <6>1, <6>3, LastWriteSame
          <6>5. \A j \in height + 1 .. tipHeight : ~Staked(Chain, b, j)
            BY <1>0, <5>1, <6>2
          <6>6. LastWrite(Chain, b, tipHeight, k)
            BY <1>0, <6>1, <6>4, <6>5, LastWriteUp
          <6> QED
            BY <2>0, <2>2, <6>4, <6>6 DEF Backed
        <5> QED
          BY <5>2, <5>3
      <4> QED
        BY <4>1, <4>2
    <3>3. Backed(Chain', b, tipHeight, y)
      <4> HIDE DEF y
      <4> QED
        BY <3>1, <3>2 DEF Backed
    <3> QED
      BY <2>0, <2>2, <3>3
  <2>3. h \in 1 .. height \/ h = tipHeight
    BY <1>0
  <2> QED
    BY <2>1, <2>2, <2>3
<1> QED
  BY <1>8, <1>13, <1>14, <1>15 DEF StakeInv

\* Transfer
LEMMA StepTransfer ==
  ASSUME StakeInv, NEW a \in Addresses, NEW b \in Addresses, NEW amount \in Amounts, Transfer(a, b, amount)
  PROVE  StakeInv'
<1> DEFINE p == periodOf(tipHeight)
           q == nextPeriod(p)
           low == p - 1
<1>0. /\ ShapeOK /\ MaxHeight \in Nat /\ height \in Nat \ {0} /\ tipHeight \in Nat \ {0} /\ height <= MaxHeight
      /\ liquid # NoBlock /\ tipHeight = height + 1 /\ liquid.height = height + 1
      /\ \A h \in 1 .. height : h \in 1 .. tipHeight /\ Chain[h] = blocks[h].nextStakes
      /\ Chain[tipHeight] = liquid.nextStakes
  BY Tips DEF StakeInv, Transfer
<1>1. /\ height + 1 <= MaxHeight /\ liquid.hearth \in [Addresses -> Nat]
      /\ \A i \in DOMAIN liquid.nextStakes : liquid.nextStakes[i].periodStart = nextPeriod(periodOf(liquid.height))
      /\ liquid = [height |-> liquid.height, nextStakes |-> liquid.nextStakes, hearth |-> liquid.hearth, payout |-> liquid.payout]
      /\ Course(Chain, tipHeight)
  BY <1>0 DEF ShapeOK
<1>2. p \in Nat \ {0} /\ isPeriodStart(p) /\ q \in Nat \ {0} /\ isPeriodStart(q)
  BY <1>0, InPeriod
<1>3. stakeAt(a, p) \in Nat /\ stakeAt(a, q) \in Nat
  <2> HIDE DEF p, q
  <2> QED
    BY <1>2, Answered
<1>4. amount \in Nat
  BY StakeAssumption
<1>5. /\ UNCHANGED <<height, hearth, stakeBalance, stakeBalanceAt, blocks>>
      /\ liquid' = [liquid EXCEPT !.hearth[a] = @ - amount, !.hearth[b] = @ + amount]
      /\ a # b
      /\ hearthOf(a) - amount >= StakeLock(stakeAt(a, p), stakeAt(a, q))
  BY Zenon DEF Transfer, storeVars, lockedStake
<1>6. hearthOf(a) = liquid.hearth[a]
  BY <1>0 DEF hearthOf
<1>7. /\ liquid.hearth[a] - amount \in Nat
      /\ liquid.hearth[a] - amount >= stakeAt(a, p) /\ liquid.hearth[a] - amount >= stakeAt(a, q)
  <2> DEFINE x == stakeAt(a, p)
             y == stakeAt(a, q)
  <2>0. liquid.hearth[a] \in Nat
    BY <1>1
  <2>1. x \in Nat /\ y \in Nat /\ liquid.hearth[a] - amount >= StakeLock(x, y)
    BY <1>3, <1>5, <1>6
  <2> HIDE DEF x, y
  <2>2. liquid.hearth[a] - amount \in Nat /\ liquid.hearth[a] - amount >= x /\ liquid.hearth[a] - amount >= y
    BY <1>4, <2>0, <2>1 DEF StakeLock
  <2> QED
    BY <2>2 DEF x, y
<1>8. /\ liquid'.height = liquid.height /\ liquid'.nextStakes = liquid.nextStakes
      /\ liquid'.hearth = [liquid.hearth EXCEPT ![a] = @ - amount, ![b] = @ + amount]
      /\ liquid' = [height |-> liquid'.height, nextStakes |-> liquid'.nextStakes, hearth |-> liquid'.hearth, payout |-> liquid'.payout]
  BY <1>1, <1>5
<1>9. /\ liquid'.hearth \in [Addresses -> Nat]
      /\ liquid'.hearth[a] = liquid.hearth[a] - amount
      /\ \A c \in Addresses : c # a => liquid'.hearth[c] >= liquid.hearth[c]
  BY <1>1, <1>4, <1>5, <1>7, <1>8
<1>10. liquid' # NoBlock
  BY <1>0, <1>8 DEF NoBlock
<1>11. tipHeight' = tipHeight /\ height' = height /\ Chain' = Chain
  <2>1. tipHeight' = tipHeight /\ height' = height
    BY <1>0, <1>5, <1>8, <1>10 DEF tipHeight
  <2>2. \A h : commitmentsAt(h)' = commitmentsAt(h)
    BY <1>5, <1>8 DEF commitmentsAt
  <2> QED
    BY <2>1, <2>2, Zenon DEF Chain
<1>12. ShapeOK'
  BY <1>0, <1>1, <1>5, <1>8, <1>9, <1>10, <1>11 DEF ShapeOK
<1>13. ASSUME NEW c \in Addresses PROVE Linked(stakeBalance[c], stakeBalanceAt[c], Chain, c, height)'
  BY <1>5, <1>11 DEF StakeInv
<1>14. ASSUME NEW h \in 1 .. tipHeight, NEW c \in Addresses PROVE Backed(Chain, c, h, BalanceAt(h, c))'
  <2>0. Backed(Chain, c, h, BalanceAt(h, c))
    BY DEF StakeInv
  <2>1. CASE h \in 1 .. height
    <3>1. BalanceAt(h, c)' = BalanceAt(h, c)
      BY <1>0, <1>5, <2>1 DEF BalanceAt
    <3> QED
      BY <1>11, <2>0, <3>1
  <2>2. CASE h = tipHeight
    <3>1. BalanceAt(tipHeight, c) = liquid.hearth[c] /\ BalanceAt(h, c)' = liquid'.hearth[c]
      BY <1>0, <1>5, <2>2 DEF BalanceAt
    <3>2. ASSUME NEW k \in 0 .. tipHeight, LastWrite(Chain, c, low, k) \/ LastWrite(Chain, c, tipHeight, k)
          PROVE  liquid'.hearth[c] >= AmountAt(Chain, c, k)
      <4>1. CASE c = a
        <5>1. AmountAt(Chain, a, k) = stakeAt(a, p) \/ AmountAt(Chain, a, k) = stakeAt(a, q)
          BY <3>2, <4>1, ReadsAtTip
        <5> HIDE DEF p, q, low
        <5> QED
          BY <1>7, <1>9, <4>1, <5>1
      <4>2. CASE c # a
        <5>1. liquid.hearth[c] >= AmountAt(Chain, c, k)
          BY <2>0, <2>2, <3>1, <3>2 DEF Backed
        <5>2. liquid.hearth[c] \in Nat /\ liquid'.hearth[c] \in Nat /\ liquid'.hearth[c] >= liquid.hearth[c]
          BY <1>1, <1>9, <4>2
        <5>3. AmountAt(Chain, c, k) \in Nat
          <6>1. low \in Nat /\ low <= tipHeight
            BY <1>0, <1>2, InPeriod
          <6> HIDE DEF low
          <6> QED
            BY <1>0, <1>1, <3>2, <6>1, AmountIn DEF low
        <5> QED
          BY <5>1, <5>2, <5>3
      <4> QED
        BY <4>1, <4>2
    <3>3. Backed(Chain, c, tipHeight, liquid'.hearth[c])
      BY <3>2 DEF Backed
    <3> QED
      BY <1>11, <2>2, <3>1, <3>3
  <2>3. h \in 1 .. height \/ h = tipHeight
    BY <1>0
  <2> QED
    BY <2>1, <2>2, <2>3
<1> QED
  BY <1>11, <1>12, <1>13, <1>14 DEF StakeInv

\* The liquid block is persisted: its stakes are linked.
LEMMA AppendStore ==
  ASSUME StakeInv, liquid # NoBlock, doAppend(liquid)
  PROVE  \A a \in Addresses : Linked(stakeBalance'[a], stakeBalanceAt'[a], Chain, a, height + 1)
<1> DEFINE h == height + 1
           s == liquid.nextStakes
<1>0. /\ ShapeOK /\ height \in Nat \ {0} /\ h <= MaxHeight /\ tipHeight = h /\ Chain[h] = s /\ h # 0
  <2>1. height \in Nat \ {0} /\ tipHeight = h /\ tipHeight <= MaxHeight /\ Chain[tipHeight] = s /\ ShapeOK
    BY Tips DEF StakeInv
  <2> QED
    BY <2>1
<1>1. s \in Seq(StakeCommitment)
  <2>1. h \in 1 .. tipHeight
    BY <1>0
  <2> QED
    BY <1>0, <2>1 DEF ShapeOK, Course
<1> SUFFICES ASSUME NEW a \in Addresses PROVE Linked(stakeBalance'[a], stakeBalanceAt'[a], Chain, a, h)
  OBVIOUS
<1>2. a \in stakedIn(liquid) <=> Staked(Chain, a, h)
  BY <1>0 DEF stakedIn, Staked
<1>3. Linked(stakeBalance[a], stakeBalanceAt[a], Chain, a, height)
  BY DEF StakeInv
<1>4. lastIn(liquid, a) = AmountAt(Chain, a, h)
  BY <1>0, Zenon DEF lastIn, AmountAt, LastAmount
<1> DEFINE x == lastIn(liquid, a)
           t == stakeBalance[a].height
<1>5. CASE a \in stakedIn(liquid)
  <2>1. /\ stakeBalance'[a] = [amount |-> x, height |-> h, prevHeight |-> t]
        /\ stakeBalanceAt'[a] = [stakeBalanceAt[a] EXCEPT ![h] = [amount |-> x, prevHeight |-> t]]
    BY <1>5 DEF doAppend, stakeNode
  <2>2. Staked(Chain, a, h)
    BY <1>2, <1>5
  <2>3. x \in Nat
    BY <1>0, <1>1, <1>4, <2>2, AmountNat DEF AmountAt, Staked
  <2> DEFINE stake == stakeBalance[a]
             node == stakeBalanceAt[a]
             y == AmountAt(Chain, a, h)
  <2>4. Linked([amount |-> y, height |-> h, prevHeight |-> stake.height],
               [node EXCEPT ![h] = [amount |-> y, prevHeight |-> stake.height]], Chain, a, h)
    <3>1. y \in Nat /\ Linked(stake, node, Chain, a, height)
      BY <1>3, <1>4, <2>3
    <3> HIDE DEF stake, node
    <3> QED
      BY <1>0, <2>2, <3>1, LinkedWrite
  <2> QED
    BY <1>4, <2>1, <2>4
<1>6. CASE a \notin stakedIn(liquid)
  <2>1. stakeBalance'[a] = stakeBalance[a] /\ stakeBalanceAt'[a] = stakeBalanceAt[a]
    BY <1>6 DEF doAppend
  <2>2. Linked(stakeBalance[a], stakeBalanceAt[a], Chain, a, h)
    BY <1>0, <1>2, <1>3, <1>6, LinkedKeep
  <2> QED
    BY <2>1, <2>2
<1> QED
  BY <1>5, <1>6

\* What the store holds before the new liquid block: the chain up to the old tip.
LEMMA PersistedTip ==
  ASSUME StakeInv, NEW work \in Works, KeyBlock(work)
  PROVE  /\ height' = tipHeight /\ tipHeight < MaxHeight
         /\ IsSeq(blocks') /\ Len(blocks') = tipHeight
         /\ \A h \in 1 .. tipHeight : blocks'[h].nextStakes = Chain[h]
         /\ hearth' \in Seq([Addresses -> Nat]) /\ Len(hearth') = tipHeight
         /\ \A h \in 1 .. tipHeight, a \in Addresses : hearth'[h][a] = BalanceAt(h, a)
         /\ \A a \in Addresses : Linked(stakeBalance'[a], stakeBalanceAt'[a], Chain, a, tipHeight)
<1>0. /\ ShapeOK /\ height \in Nat \ {0} /\ tipHeight \in Nat \ {0} /\ tipHeight < MaxHeight
      /\ liquid = NoBlock => tipHeight = height
      /\ liquid # NoBlock => tipHeight = height + 1 /\ Chain[tipHeight] = liquid.nextStakes
      /\ \A h \in 1 .. height : h \in 1 .. tipHeight /\ Chain[h] = blocks[h].nextStakes
  BY Tips DEF StakeInv, KeyBlock
<1>1. IsSeq(blocks) /\ Len(blocks) = height /\ hearth \in Seq([Addresses -> Nat]) /\ Len(hearth) = height
  BY <1>0 DEF ShapeOK
<1>2. CASE liquid = NoBlock
  <2>1. UNCHANGED <<height, hearth, stakeBalance, stakeBalanceAt, blocks>>
    BY <1>2, Zenon DEF KeyBlock, storeVars
  <2>2. \A h \in 1 .. tipHeight, a \in Addresses : hearth'[h][a] = BalanceAt(h, a)
    BY <1>0, <1>2, <2>1 DEF BalanceAt
  <2>3. \A a \in Addresses : Linked(stakeBalance'[a], stakeBalanceAt'[a], Chain, a, tipHeight)
    BY <1>0, <1>2, <2>1 DEF StakeInv
  <2> QED
    BY <1>0, <1>1, <1>2, <2>1, <2>2, <2>3
<1>3. CASE liquid # NoBlock
  <2> DEFINE x == [nextStakes |-> liquid.nextStakes, payout |-> liquid.payout]
  <2>1. doAppend(liquid)
    BY <1>3, Zenon DEF KeyBlock
  <2>2. height' = height + 1 /\ hearth' = Append(hearth, liquid.hearth) /\ blocks' = Append(blocks, x)
    BY <2>1, Zenon DEF doAppend
  <2>3. liquid.hearth \in [Addresses -> Nat]
    BY <1>0, <1>3 DEF ShapeOK
  <2>4. /\ hearth' \in Seq([Addresses -> Nat]) /\ Len(hearth') = height + 1
        /\ hearth'[height + 1] = liquid.hearth
        /\ \A h \in 1 .. height : hearth'[h] = hearth[h]
    BY <1>0, <1>1, <2>2, <2>3
  <2>5. x.nextStakes = liquid.nextStakes
    OBVIOUS
  <2> HIDE DEF x
  <2>6. /\ IsSeq(blocks') /\ Len(blocks') = height + 1 /\ blocks'[height + 1] = x
        /\ \A h \in 1 .. height : blocks'[h] = blocks[h]
    BY <1>1, <2>2, AppendAny
  <2>7. \A h \in 1 .. tipHeight : h \in 1 .. height \/ h = tipHeight
    BY <1>0, <1>3
  <2>8. ASSUME NEW h \in 1 .. tipHeight, NEW a \in Addresses PROVE hearth'[h][a] = BalanceAt(h, a)
    <3>1. CASE h \in 1 .. height
      BY <1>0, <2>4, <3>1 DEF BalanceAt
    <3>2. CASE h = tipHeight
      BY <1>0, <1>3, <2>4, <3>2 DEF BalanceAt
    <3> QED
      BY <2>7, <3>1, <3>2
  <2>9. ASSUME NEW h \in 1 .. tipHeight PROVE blocks'[h].nextStakes = Chain[h]
    <3>1. CASE h \in 1 .. height
      BY <1>0, <2>6, <3>1
    <3>2. CASE h = tipHeight
      BY <1>0, <1>3, <2>5, <2>6, <3>2
    <3> QED
      BY <2>7, <3>1, <3>2
  <2>10. \A a \in Addresses : Linked(stakeBalance'[a], stakeBalanceAt'[a], Chain, a, tipHeight)
    BY <1>0, <1>3, <2>1, AppendStore
  <2> QED
    BY <1>0, <1>3, <2>2, <2>4, <2>6, <2>8, <2>9, <2>10
<1> QED
  BY <1>2, <1>3

\* KeyBlock
LEMMA StepKeyBlock == ASSUME StakeInv, NEW work \in Works, KeyBlock(work) PROVE StakeInv'
<1> DEFINE top == tipHeight
           new == tipHeight + 1
<1>0. ShapeOK /\ MaxHeight \in Nat /\ height \in Nat \ {0} /\ top \in Nat \ {0}
      /\ (liquid = NoBlock => tipHeight = height) /\ (liquid # NoBlock => tipHeight = height + 1)
      /\ (liquid # NoBlock => liquid.hearth \in [Addresses -> Nat])
  BY Tips DEF StakeInv, ShapeOK
<1>1. /\ height' = top /\ top < MaxHeight
      /\ IsSeq(blocks') /\ Len(blocks') = top
      /\ \A h \in 1 .. top : blocks'[h].nextStakes = Chain[h]
      /\ hearth' \in Seq([Addresses -> Nat]) /\ Len(hearth') = top
      /\ \A h \in 1 .. top, a \in Addresses : hearth'[h][a] = BalanceAt(h, a)
      /\ \A a \in Addresses : Linked(stakeBalance'[a], stakeBalanceAt'[a], Chain, a, top)
  BY PersistedTip
<1>2. /\ liquid'.height = new /\ liquid'.nextStakes = <<>> /\ liquid'.hearth = [a \in Addresses |-> hearthOf(a)]
      /\ liquid' = [height |-> liquid'.height, nextStakes |-> liquid'.nextStakes, hearth |-> liquid'.hearth, payout |-> liquid'.payout]
  <2> DEFINE pay == payoutAt(tipHeight + 1, work)
             bal == [a \in Addresses |-> hearthOf(a)]
  <2>1. liquid' = [height |-> new, nextStakes |-> <<>>, hearth |-> bal, payout |-> pay]
    BY Zenon DEF KeyBlock
  <2> HIDE DEF pay, bal
  <2>2. liquid'.height = new /\ liquid'.nextStakes = <<>> /\ liquid'.hearth = bal /\ liquid'.payout = pay
    BY <2>1
  <2>3. liquid' = [height |-> liquid'.height, nextStakes |-> liquid'.nextStakes, hearth |-> liquid'.hearth, payout |-> liquid'.payout]
    BY <2>1, <2>2
  <2> QED
    BY <2>2, <2>3 DEF bal
<1>3. liquid' # NoBlock
  BY <1>0, <1>2 DEF NoBlock
<1>4. top \in Nat \ {0} /\ new \in Nat \ {0} /\ new <= MaxHeight /\ new = top + 1
  BY <1>0, <1>1
<1> HIDE DEF new
<1>5. tipHeight' = new /\ Chain'[new] = <<>> /\ \A h \in 1 .. top : Chain'[h] = Chain[h]
  BY <1>1, <1>2, <1>3, <1>4, NextTips
<1>6. \A a \in Addresses : hearthOf(a) = BalanceAt(top, a)
  BY <1>0 DEF hearthOf, BalanceAt
<1>7. \A a \in Addresses : hearthOf(a) \in Nat
  <2>1. hearth[height] \in [Addresses -> Nat]
    BY <1>0 DEF ShapeOK
  <2> QED
    BY <1>0, <2>1 DEF hearthOf
<1>8. liquid'.hearth \in [Addresses -> Nat] /\ \A a \in Addresses : liquid'.hearth[a] = BalanceAt(top, a)
  BY <1>2, <1>6, <1>7
<1>9. \A h \in 1 .. new : h \in 1 .. top \/ h = new
  BY <1>4
<1>10. Course(Chain, tipHeight)'
  <2> SUFFICES ASSUME NEW h \in 1 .. new PROVE Chain'[h] \in Seq(StakeCommitment) /\ Len(Chain'[h]) <= MaxStakes
    BY <1>5 DEF Course
  <2>1. CASE h \in 1 .. top
    <3>1. Chain[h] \in Seq(StakeCommitment) /\ Len(Chain[h]) <= MaxStakes
      BY <1>0, <2>1 DEF ShapeOK, Course
    <3> QED
      BY <1>5, <2>1, <3>1
  <2>2. CASE h = new
    <3>1. <<>> \in Seq(StakeCommitment) /\ Len(<<>>) <= MaxStakes
      BY StakeAssumption
    <3> QED
      BY <1>5, <2>2, <3>1
  <2> QED
    BY <1>9, <2>1, <2>2
<1>11. ShapeOK'
  <2>1. height' \in 1 .. MaxHeight /\ liquid'.height = height' + 1 /\ height' + 1 <= MaxHeight
    BY <1>0, <1>1, <1>2, <1>4
  <2>2. \A i \in DOMAIN liquid'.nextStakes : liquid'.nextStakes[i].periodStart = nextPeriod(periodOf(liquid'.height))
    BY <1>2
  <2>3. IsSeq(blocks') /\ Len(blocks') = height' /\ hearth' \in Seq([Addresses -> Nat]) /\ Len(hearth') = height'
    BY <1>1
  <2> QED
    BY <1>2, <1>8, <1>10, <2>1, <2>2, <2>3, Zenon DEF ShapeOK
<1>12. ASSUME NEW a \in Addresses PROVE Linked(stakeBalance[a], stakeBalanceAt[a], Chain, a, height)'
  <2>1. Linked(stakeBalance'[a], stakeBalanceAt'[a], Chain, a, top)
    BY <1>1
  <2>2. Linked(stakeBalance'[a], stakeBalanceAt'[a], Chain', a, top)
    BY <1>4, <1>5, <2>1, LinkedSame
  <2> QED
    BY <1>1, <2>2
<1>13. ASSUME NEW h \in 1 .. new, NEW a \in Addresses PROVE Backed(Chain, a, h, BalanceAt(h, a))'
  <2>1. CASE h \in 1 .. top
    <3>1. Backed(Chain, a, h, BalanceAt(h, a))
      BY <2>1 DEF StakeInv
    <3>2. BalanceAt(h, a)' = BalanceAt(h, a)
      <4>1. h <= height'
        BY <1>0, <1>1, <2>1
      <4> QED
        BY <1>1, <2>1, <4>1 DEF BalanceAt
    <3>3. h \in Nat \ {0} /\ \A j \in 1 .. h : Chain[j] = Chain'[j]
      BY <1>4, <1>5, <2>1
    <3>4. Backed(Chain', a, h, BalanceAt(h, a))
      BY <3>1, <3>3, BackedSame
    <3> QED
      BY <3>2, <3>4
  <2>2. CASE h = new
    <3> DEFINE y == BalanceAt(top, a)
               low == periodOf(new) - 1
               old == periodOf(top) - 1
    <3>1. BalanceAt(h, a)' = y
      <4>1. ~(h <= height')
        BY <1>1, <1>4, <2>2
      <4> QED
        BY <1>8, <4>1 DEF BalanceAt
    <3>2. Backed(Chain, a, top, y)
      <4>1. top \in 1 .. top
        BY <1>4
      <4> QED
        BY <4>1 DEF StakeInv
    <3>3. ~Staked(Chain', a, new)
      BY <1>5 DEF Staked
    <3>4. old \in Nat /\ old <= top
      BY <1>4, InPeriod
    <3>5. low = old \/ low = top
      <4>1. periodOf(top + 1) = periodOf(top) \/ periodOf(top + 1) = top + 1
        BY <1>4, NextHeight
      <4> QED
        BY <1>4, <4>1
    <3> HIDE DEF low, old, y
    <3>6. ASSUME NEW k, NEW g \in Nat, g = old \/ g = top, LastWrite(Chain', a, g, k) PROVE y >= AmountAt(Chain', a, k)
      <4>1. g <= top /\ k \in 0 .. g
        BY <1>4, <3>4, <3>6 DEF LastWrite
      <4>2. k \in 0 .. top /\ \A j \in 1 .. g : Chain'[j] = Chain[j]
        BY <1>4, <1>5, <4>1
      <4>3. LastWrite(Chain, a, g, k) /\ AmountAt(Chain, a, k) = AmountAt(Chain', a, k)
        BY <3>6, <4>2, LastWriteSame
      <4> QED
        BY <3>2, <3>6, <4>2, <4>3 DEF Backed, old
    <3>7. ASSUME NEW k \in 0 .. new, LastWrite(Chain', a, new, k) PROVE y >= AmountAt(Chain', a, k)
      <4>1. k # new
        BY <1>4, <3>3, <3>7 DEF LastWrite
      <4>2. k <= top /\ top <= new
        BY <1>4, <4>1
      <4>3. LastWrite(Chain', a, top, k)
        BY <1>4, <3>7, <4>2, LastWriteDown
      <4> QED
        BY <1>4, <3>6, <4>3
    <3>8. ASSUME NEW k \in 0 .. new, LastWrite(Chain', a, low, k) PROVE y >= AmountAt(Chain', a, k)
      BY <1>4, <3>4, <3>5, <3>6, <3>8
    <3>9. Backed(Chain', a, new, y)
      BY <3>7, <3>8 DEF Backed, low
    <3> QED
      BY <2>2, <3>1, <3>9
  <2> QED
    BY <1>9, <2>1, <2>2
<1> QED
  BY <1>5, <1>11, <1>12, <1>13 DEF StakeInv

\* removeAfter
LEMMA StepRemoveAfter == ASSUME StakeInv, NEW target \in 1 .. height, removeAfter(target) PROVE StakeInv'
<1>0. /\ ShapeOK /\ height \in Nat \ {0} /\ height <= MaxHeight /\ MaxHeight \in Nat
      /\ tipHeight \in Nat \ {0} /\ height <= tipHeight
      /\ \A h \in 1 .. height : h \in 1 .. tipHeight /\ Chain[h] = blocks[h].nextStakes
  <2>1. /\ ShapeOK /\ height \in Nat \ {0} /\ height <= MaxHeight /\ MaxHeight \in Nat /\ tipHeight \in Nat \ {0}
        /\ liquid = NoBlock => tipHeight = height
        /\ liquid # NoBlock => tipHeight = height + 1
        /\ \A h \in 1 .. height : h \in 1 .. tipHeight /\ Chain[h] = blocks[h].nextStakes
    BY Tips DEF StakeInv
  <2> QED
    BY <2>1
<1>1. IsSeq(blocks) /\ Len(blocks) = height /\ hearth \in Seq([Addresses -> Nat]) /\ Len(hearth) = height
  BY <1>0 DEF ShapeOK
<1>2. /\ height' = target /\ hearth' = SubSeq(hearth, 1, target) /\ blocks' = SubSeq(blocks, 1, target) /\ liquid' = NoBlock
      /\ stakeBalance' = doRollback(target).stakeBalance /\ stakeBalanceAt' = doRollback(target).stakeBalanceAt
  BY DEF removeAfter
<1>3. target \in Nat \ {0} /\ target <= height
  BY <1>0
<1>4. /\ IsSeq(blocks') /\ Len(blocks') = target /\ \A h \in 1 .. target : blocks'[h] = blocks[h]
  BY <1>1, <1>2, CutAny
<1>5. hearth' \in Seq([Addresses -> Nat]) /\ Len(hearth') = target /\ \A h \in 1 .. target : hearth'[h] = hearth[h]
  BY <1>1, <1>2, <1>3
<1>6. \A h \in 1 .. target : h \in 1 .. height
  BY <1>0, <1>3
<1>7. tipHeight' = target /\ \A h \in 1 .. target : Chain'[h] = Chain[h]
  <2>1. tipHeight' = target /\ \A h \in 1 .. target : Chain'[h] = blocks'[h].nextStakes
    BY <1>2, <1>3, NextTips
  <2> QED
    BY <1>0, <1>4, <1>6, <2>1
<1>8. Course(Chain, tipHeight)'
  <2>1. Course(Chain, tipHeight)
    BY <1>0 DEF ShapeOK
  <2> QED
    BY <1>0, <1>6, <1>7, <2>1 DEF Course
<1>9. ShapeOK'
  BY <1>0, <1>2, <1>3, <1>4, <1>5, <1>8 DEF ShapeOK
<1>10. StoreOK(doRollback(target), Chain, target)
  <2>1. StoreOK(StoreNow, Chain, height)
    BY DEF StoreOK, StoreNow, StakeInv
  <2> QED
    BY <1>0, <1>3, <2>1, RollbackStore
<1>11. ASSUME NEW a \in Addresses PROVE Linked(stakeBalance[a], stakeBalanceAt[a], Chain, a, height)'
  <2>1. Linked(stakeBalance'[a], stakeBalanceAt'[a], Chain, a, target)
    BY <1>2, <1>10 DEF StoreOK
  <2>2. Linked(stakeBalance'[a], stakeBalanceAt'[a], Chain', a, target)
    BY <1>3, <1>7, <2>1, LinkedSame
  <2> QED
    BY <1>2, <2>2
<1>12. ASSUME NEW h \in 1 .. target, NEW a \in Addresses PROVE Backed(Chain, a, h, BalanceAt(h, a))'
  <2>1. Backed(Chain, a, h, BalanceAt(h, a))
    BY <1>0, <1>6 DEF StakeInv
  <2>2. BalanceAt(h, a)' = BalanceAt(h, a)
    <3>1. h <= height /\ h <= height'
      BY <1>0, <1>2, <1>3
    <3> QED
      BY <1>5, <3>1 DEF BalanceAt
  <2>3. h \in Nat \ {0} /\ \A j \in 1 .. h : Chain[j] = Chain'[j]
    BY <1>3, <1>7
  <2>4. Backed(Chain', a, h, BalanceAt(h, a))
    BY <2>1, <2>3, BackedSame
  <2> QED
    BY <2>2, <2>4
<1> QED
  BY <1>7, <1>9, <1>11, <1>12 DEF StakeInv

\* The genesis block sets no stake.
LEMMA InitStake == ASSUME Init PROVE StakeInv
<1>0. MaxHeight \in Nat \ {0} /\ InitialBalance \in [Addresses -> Nat]
  BY StakeAssumption
<1> DEFINE x == [nextStakes |-> <<>>, payout |-> NoPayout]
<1>1. /\ height = 1 /\ hearth = <<InitialBalance>> /\ blocks = <<x>> /\ liquid = NoBlock
      /\ stakeBalance = [a \in Addresses |-> EmptyStake]
      /\ stakeBalanceAt = [a \in Addresses |-> [h \in Heights |-> EmptyNode]]
  BY DEF Init
<1>2. x.nextStakes = <<>>
  OBVIOUS
<1> HIDE DEF x
<1>3. tipHeight = 1
  BY <1>1 DEF tipHeight
<1>4. Chain[1] = <<>>
  BY <1>1, <1>2, <1>3 DEF Chain, commitmentsAt
<1>5. IsSeq(blocks) /\ Len(blocks) = 1
  <2>1. blocks \in Seq({x})
    BY <1>1
  <2> QED
    BY <1>1, <2>1 DEF IsSeq
<1>6. hearth \in Seq([Addresses -> Nat]) /\ Len(hearth) = 1 /\ hearth[1] = InitialBalance
  BY <1>0, <1>1
<1>7. Course(Chain, tipHeight)
  <2>1. <<>> \in Seq(StakeCommitment) /\ Len(<<>>) <= MaxStakes
    BY StakeAssumption
  <2> QED
    <3> SUFFICES ASSUME NEW h \in 1 .. 1 PROVE Chain[h] \in Seq(StakeCommitment) /\ Len(Chain[h]) <= MaxStakes
      BY <1>3 DEF Course
    <3>1. h = 1
      OBVIOUS
    <3> QED
      BY <1>4, <2>1, <3>1
<1>8. ShapeOK
  BY <1>0, <1>1, <1>5, <1>6, <1>7 DEF ShapeOK
<1>9. \A a : ~Staked(Chain, a, 1)
  BY <1>4 DEF Staked
<1>10. ASSUME NEW a \in Addresses PROVE Linked(stakeBalance[a], stakeBalanceAt[a], Chain, a, height)
  <2> DEFINE node == [h \in Heights |-> EmptyNode]
  <2>1. stakeBalance[a] = EmptyStake /\ stakeBalanceAt[a] = node
    BY <1>1
  <2>2. EmptyStake.height = 0 /\ EmptyStake.amount = 0 /\ EmptyStake.prevHeight = 0
        /\ EmptyStake \in [amount : Nat, height : Nat, prevHeight : Nat]
    BY DEF EmptyStake
  <2>3. EmptyNode \in StakeNode
    BY DEF EmptyNode, StakeNode
  <2>4. node \in [Heights -> StakeNode] /\ \A h \in Heights : node[h] = EmptyNode
    BY <2>3
  <2> HIDE DEF node
  <2>5. \A h \in 1 .. 1 : ~Staked(Chain, a, h)
    BY <1>9
  <2>6. LastWrite(Chain, a, 1, 0) /\ AmountAt(Chain, a, 0) = 0
    BY <2>5 DEF LastWrite, AmountAt
  <2>7. Linked(EmptyStake, node, Chain, a, 1)
    BY <2>2, <2>4, <2>5, <2>6 DEF Linked
  <2> QED
    BY <1>1, <2>1, <2>7
<1>11. ASSUME NEW h \in 1 .. tipHeight, NEW a \in Addresses PROVE Backed(Chain, a, h, BalanceAt(h, a))
  <2>1. h = 1 /\ BalanceAt(h, a) \in Nat
    BY <1>0, <1>1, <1>3, <1>6 DEF BalanceAt
  <2>2. ASSUME NEW k \in 0 .. h, NEW g, LastWrite(Chain, a, g, k) PROVE BalanceAt(h, a) >= AmountAt(Chain, a, k)
    <3>1. k = 0
      BY <1>9, <2>1, <2>2 DEF LastWrite
    <3> QED
      BY <2>1, <3>1 DEF AmountAt
  <2> QED
    BY <2>2 DEF Backed
<1> QED
  BY <1>8, <1>10, <1>11 DEF StakeInv

\* Every step keeps the invariant.
LEMMA NextStake == ASSUME StakeInv, [Next]_vars PROVE StakeInv'
<1>1. CASE Next
  BY <1>1, StepStake, StepTransfer, StepKeyBlock, StepRemoveAfter DEF Next
<1>2. CASE UNCHANGED vars
  <2>1. UNCHANGED <<height, hearth, stakeBalance, stakeBalanceAt, blocks, liquid>>
    BY <1>2 DEF vars, storeVars
  <2>2. tipHeight' = tipHeight /\ \A h : commitmentsAt(h)' = commitmentsAt(h)
    BY <2>1 DEF tipHeight, commitmentsAt
  <2>3. Chain' = Chain
    BY <2>2, Zenon DEF Chain
  <2>4. ShapeOK'
    BY <2>1, <2>2, <2>3 DEF StakeInv, ShapeOK
  <2>5. \A h, a : BalanceAt(h, a)' = BalanceAt(h, a)
    BY <2>1 DEF BalanceAt
  <2> QED
    BY <2>1, <2>2, <2>3, <2>4, <2>5 DEF StakeInv
<1> QED
  BY <1>1, <1>2

\* Blockchain.stakeAt answers the amount set last before a period began, along
\* every history of stakes, transfers, blocks and rollbacks.
THEOREM SpecStakeAtIsLastSet == Spec => []StakeAtIsLastSet
<1>1. Init => StakeInv
  BY InitStake
<1>2. StakeInv /\ [Next]_vars => StakeInv'
  BY NextStake
<1> QED
  BY <1>1, <1>2, InvStakeAt, PTL DEF Spec

\* A balance covers the stakes of this period and of the next.
THEOREM SpecStakeBacked == Spec => []StakeBacked
<1>1. Init => StakeInv
  BY InitStake
<1>2. StakeInv /\ [Next]_vars => StakeInv'
  BY NextStake
<1> QED
  BY <1>1, <1>2, InvBacked, PTL DEF Spec

\* A payout shares the issuance among stakes in force only.
THEOREM SpecPayoutOnlyOwed == Spec => []PayoutOnlyOwed
<1>1. Init => StakeInv
  BY InitStake
<1>2. StakeInv /\ [Next]_vars => StakeInv'
  BY NextStake
<1> QED
  BY <1>1, <1>2, InvPayout, PTL DEF Spec

-----------------------------------------------------------------------------
(***************************************************************************)
(* The book of commitments, CommitmentBook, which the node keeps for the   *)
(* same addresses and the same periods as the stakes.                      *)
(***************************************************************************)

CONSTANTS
  GenesisCommitted, \* the generators of the first period
  BookPeriods       \* starts of the periods the book has pages for

VARIABLE books  \* by height

Book == INSTANCE CommitmentBook WITH Periods <- BookPeriods

BookType == Seq([BookPeriods -> Seq(Addresses)])

-----------------------------------------------------------------------------
(* Periods *)

\* Periods do not go back as the height grows, and the next one is later.
LEMMA PeriodsGrow ==
  ASSUME NEW h \in Nat \ {0}, NEW k \in 1 .. h
  PROVE  Book!periodOf(k) \in Nat /\ Book!periodOf(h) \in Nat /\ Book!periodOf(k) <= Book!periodOf(h) /\ Book!periodOf(h) < Book!nextPeriod(Book!periodOf(h))
<1> DEFINE P == PeriodLength
           x == (k - 1) \div P
           y == (h - 1) \div P
<1>1. P \in Nat /\ P > 0
  BY PeriodAssumption
<1>2. x \in Nat /\ y \in Nat
  BY <1>1
<1>3. P * x <= k - 1 /\ k - 1 < P * x + P /\ P * y <= h - 1 /\ h - 1 < P * y + P
  BY <1>1
<1>4. Book!periodOf(k) = x * P + 1 /\ Book!periodOf(h) = y * P + 1
  BY DEF Book!periodOf
<1> HIDE DEF x, y
<1>5. x <= y
  <2> SUFFICES ASSUME x >= y + 1 PROVE FALSE
    BY <1>2
  <2>1. P * x >= P * (y + 1)
    BY <1>1, <1>2
  <2>2. P * (y + 1) = P * y + P
    BY <1>1, <1>2
  <2> QED
    BY <1>1, <1>2, <1>3, <2>1, <2>2
<1>6. x * P <= y * P /\ x * P \in Nat /\ y * P \in Nat
  BY <1>1, <1>2, <1>5
<1> QED
  BY <1>1, <1>4, <1>6 DEF Book!nextPeriod

-----------------------------------------------------------------------------
(* Steps, on values. *)

Once(bs) == \A h \in 1 .. Len(bs), p \in BookPeriods : Book!IsInjective(bs[h][p])

Closed(bs) == \A h \in 1 .. Len(bs) : \A k \in 1 .. h, p \in BookPeriods : p <= Book!periodOf(k) => bs[h][p] = bs[k][p]

Good(bs) == bs \in BookType /\ Len(bs) > 0 /\ Once(bs) /\ Closed(bs)

\* A page that may follow the books bs
Fits(page, bs) ==
  /\ page \in [BookPeriods -> Seq(Addresses)]
  /\ \A p \in BookPeriods : Book!IsInjective(page[p])
  /\ \A k \in 1 .. Len(bs), p \in BookPeriods : p <= Book!periodOf(k) => page[p] = bs[k][p]

\* Undoing blocks keeps good books good.
LEMMA UndoGood ==
  ASSUME NEW bs, Good(bs), NEW target \in 1 .. Len(bs)
  PROVE  Good(SubSeq(bs, 1, target))
<1> DEFINE new == SubSeq(bs, 1, target)
<1>1. bs \in Seq([BookPeriods -> Seq(Addresses)]) /\ Len(bs) \in Nat
  BY DEF Good, BookType
<1>2. new \in Seq([BookPeriods -> Seq(Addresses)])
  BY <1>1
<1>3. Len(new) = target /\ \A h \in 1 .. target : new[h] = bs[h]
  BY <1>1
<1> HIDE DEF new
<1>4. target \in Nat /\ target > 0 /\ \A h \in 1 .. target : h \in 1 .. Len(bs) /\ 1 .. h \subseteq 1 .. target
  BY <1>1
<1>5. Once(new)
  BY <1>3, <1>4 DEF Good, Once
<1>6. Closed(new)
  BY <1>3, <1>4 DEF Good, Closed
<1> QED
  BY <1>2, <1>3, <1>4, <1>5, <1>6 DEF Good, BookType, new

\* A page that fits makes good books when it is added.
LEMMA PageGood ==
  ASSUME NEW bs, Good(bs), NEW page, Fits(page, bs)
  PROVE  Good(Append(bs, page))
<1> DEFINE n == Len(bs) + 1
           new == Append(bs, page)
<1>1. bs \in Seq([BookPeriods -> Seq(Addresses)]) /\ Len(bs) \in Nat /\ n \in Nat \ {0}
  BY DEF Good, BookType
<1>2. new \in BookType /\ Len(new) = n /\ new[n] = page /\ \A h \in 1 .. Len(bs) : new[h] = bs[h]
  BY <1>1 DEF Fits, BookType
<1> HIDE DEF new
<1>3. Once(new)
  <2> SUFFICES ASSUME NEW h \in 1 .. n, NEW p \in BookPeriods PROVE Book!IsInjective(new[h][p])
    BY <1>2 DEF Once
  <2>1. CASE h = n
    BY <1>2, <2>1 DEF Fits
  <2>2. CASE h \in 1 .. Len(bs)
    BY <1>2, <2>2 DEF Good, Once
  <2> QED
    BY <1>1, <2>1, <2>2
<1>4. Closed(new)
  <2> SUFFICES ASSUME NEW h \in 1 .. n, NEW k \in 1 .. h, NEW p \in BookPeriods, p <= Book!periodOf(k)
               PROVE  new[h][p] = new[k][p]
    BY <1>2 DEF Closed
  <2>1. CASE h \in 1 .. Len(bs)
    <3>1. k \in 1 .. Len(bs)
      BY <1>1, <2>1
    <3> QED
      BY <1>2, <2>1, <3>1 DEF Good, Closed
  <2>2. CASE h = n /\ k = n
    BY <2>2
  <2>3. CASE h = n /\ k # n
    <3>1. k \in 1 .. Len(bs)
      BY <1>1, <2>3
    <3> QED
      BY <1>2, <2>3, <3>1 DEF Fits
  <2> QED
    BY <1>1, <2>1, <2>2, <2>3
<1> QED
  BY <1>1, <1>2, <1>3, <1>4 DEF Good, new

\* Fresh commitments of the block that the page is for keep a page fit.
LEMMA CommittedFits ==
  ASSUME NEW bs, Good(bs), NEW page, Fits(page, bs), NEW commits \in Seq(Addresses),
         BookPeriods \subseteq Nat, Book!Fresh(page, Len(bs) + 1, commits)
  PROVE  Fits(Book!Committed(page, Len(bs) + 1, commits), bs)
<1> DEFINE n == Len(bs) + 1
           next == Book!nextPeriod(Book!periodOf(n))
           new == Book!Committed(page, n, commits)
<1>1. Len(bs) \in Nat /\ n \in Nat \ {0}
  BY DEF Good, BookType
<1>2. next \in BookPeriods /\ Book!IsInjective(page[next] \o commits)
  BY DEF Book!Fresh
<1>3. new = [page EXCEPT ![next] = page[next] \o commits]
  BY Zenon DEF Book!Committed
<1> HIDE DEF new, next
<1>4. page[next] \o commits \in Seq(Addresses)
  <2>1. page[next] \in Seq(Addresses)
    BY <1>2 DEF Fits
  <2> QED
    BY <2>1
<1>5. new \in [BookPeriods -> Seq(Addresses)] /\ new[next] = page[next] \o commits
      /\ \A p \in BookPeriods : p # next => new[p] = page[p]
  BY <1>2, <1>3, <1>4 DEF Fits
<1>6. \A p \in BookPeriods : Book!IsInjective(new[p])
  BY <1>2, <1>5, Zenon DEF Fits
<1>7. ASSUME NEW k \in 1 .. Len(bs), NEW p \in BookPeriods, p <= Book!periodOf(k)
      PROVE  new[p] = bs[k][p]
  <2>1. k \in 1 .. n
    BY <1>1
  <2>2. Book!periodOf(k) \in Nat /\ Book!periodOf(n) \in Nat /\ Book!periodOf(k) <= Book!periodOf(n) /\ Book!periodOf(n) < next
    BY <1>1, <2>1, PeriodsGrow DEF next
  <2>3. p # next
    BY <1>2, <1>7, <2>2
  <2> QED
    BY <1>5, <1>7, <2>3 DEF Fits
<1> QED
  BY <1>5, <1>6, <1>7 DEF Fits, new

\* The last page fits on the books it ends, and on those before it.
LEMMA LastFits ==
  ASSUME NEW bs, Good(bs)
  PROVE  /\ Fits(Book!Last(bs), bs)
         /\ Len(bs) > 1 =>
              /\ Good(Book!Front(bs)) /\ Len(Book!Front(bs)) = Len(bs) - 1
              /\ Fits(Book!Last(bs), Book!Front(bs)) /\ Fits(bs[Len(bs) - 1], Book!Front(bs))
<1> DEFINE n == Len(bs)
<1>1. bs \in Seq([BookPeriods -> Seq(Addresses)]) /\ n \in Nat \ {0} /\ Book!Last(bs) = bs[n] /\ Book!Front(bs) = SubSeq(bs, 1, n - 1)
  BY DEF Good, BookType, Book!Last, Book!Front
<1>2. \A h \in 1 .. n : bs[h] \in [BookPeriods -> Seq(Addresses)]
  BY <1>1
<1>3. \A h \in 1 .. n : \A p \in BookPeriods : Book!IsInjective(bs[h][p])
  BY DEF Good, Once
<1>4. \A h \in 1 .. n : \A k \in 1 .. h, p \in BookPeriods : p <= Book!periodOf(k) => bs[h][p] = bs[k][p]
  BY DEF Good, Closed
<1>5. Fits(Book!Last(bs), bs)
  <2>1. n \in 1 .. n
    BY <1>1
  <2>2. \A k \in 1 .. n, p \in BookPeriods : p <= Book!periodOf(k) => bs[n][p] = bs[k][p]
    BY <1>4, <2>1
  <2> QED
    BY <1>1, <1>2, <1>3, <2>1, <2>2, Zenon DEF Fits
<1>6. ASSUME n > 1
      PROVE  /\ Good(Book!Front(bs)) /\ Len(Book!Front(bs)) = n - 1
             /\ Fits(Book!Last(bs), Book!Front(bs)) /\ Fits(bs[n - 1], Book!Front(bs))
  <2>1. n - 1 \in 1 .. n /\ n \in 1 .. n /\ 1 .. (n - 1) \subseteq 1 .. n
    BY <1>1, <1>6
  <2>2. Good(Book!Front(bs))
    BY <1>1, <2>1, UndoGood
  <2>3. Len(Book!Front(bs)) = n - 1 /\ \A h \in 1 .. n - 1 : Book!Front(bs)[h] = bs[h]
    BY <1>1, <2>1
  <2>4. ASSUME NEW h \in {n - 1, n} PROVE Fits(bs[h], Book!Front(bs))
    <3>1. h \in 1 .. n /\ 1 .. (n - 1) \subseteq 1 .. h
      BY <1>1, <1>6
    <3>2. \A k \in 1 .. n - 1, p \in BookPeriods : p <= Book!periodOf(k) => bs[h][p] = Book!Front(bs)[k][p]
      BY <1>4, <2>3, <3>1
    <3> QED
      BY <1>2, <1>3, <2>3, <3>1, <3>2 DEF Fits
  <2> QED
    BY <1>1, <2>2, <2>3, <2>4
<1> QED
  BY <1>5, <1>6

-----------------------------------------------------------------------------
(* The invariant *)

\* The book of the genesis block is good.
LEMMA InitGood ==
  ASSUME GenesisCommitted \in Seq(Addresses), Book!IsInjective(GenesisCommitted), Book!Init
  PROVE  Good(books)
<1> DEFINE page == [p \in BookPeriods |-> IF p = 1 THEN GenesisCommitted ELSE <<>>]
<1>1. books = <<page>>
  BY DEF Book!Init
<1>2. page \in [BookPeriods -> Seq(Addresses)]
  OBVIOUS
<1>3. \A p \in BookPeriods : Book!IsInjective(page[p])
  BY DEF Book!IsInjective
<1> HIDE DEF page
<1>4. books \in BookType /\ Len(books) = 1 /\ books[1] = page
  BY <1>1, <1>2 DEF BookType
<1>5. \A h \in 1 .. 1 : h = 1
  OBVIOUS
<1> QED
  BY <1>3, <1>4, <1>5 DEF Good, Once, Closed

\* Good books stay good, whatever is done to them.
LEMMA NextGood ==
  ASSUME BookPeriods \subseteq Nat, Good(books), [Book!Next]_books
  PROVE  Good(books')
<1>1. ASSUME Book!NewBlock(books, books') PROVE Good(books')
  <2>1. PICK commits \in Book!Lists :
          /\ Book!Fresh(Book!Last(books), Len(books) + 1, commits)
          /\ books' = Append(books, Book!Committed(Book!Last(books), Len(books) + 1, commits))
    BY <1>1 DEF Book!NewBlock
  <2>2. commits \in Seq(Addresses)
    BY DEF Book!Lists
  <2>3. Fits(Book!Committed(Book!Last(books), Len(books) + 1, commits), books)
    BY <2>1, <2>2, LastFits, CommittedFits
  <2> QED
    BY <2>1, <2>3, PageGood
<1>2. ASSUME Book!Commit(books, books') PROVE Good(books')
  <2>1. PICK a \in Addresses :
          /\ Len(books) > 1
          /\ Book!Fresh(Book!Last(books), Len(books), <<a>>)
          /\ books' = Append(Book!Front(books), Book!Committed(Book!Last(books), Len(books), <<a>>))
    BY <1>2 DEF Book!Commit
  <2>2. Good(Book!Front(books)) /\ Len(Book!Front(books)) + 1 = Len(books) /\ Fits(Book!Last(books), Book!Front(books))
    BY <2>1, LastFits DEF Good, BookType
  <2>3. Fits(Book!Committed(Book!Last(books), Len(books), <<a>>), Book!Front(books))
    <3> DEFINE base == Book!Front(books)
               page == Book!Last(books)
               n == Len(books)
    <3>1. Book!Fresh(page, Len(base) + 1, <<a>>) /\ Book!Committed(page, n, <<a>>) = Book!Committed(page, Len(base) + 1, <<a>>)
      BY <2>1, <2>2
    <3>2. <<a>> \in Seq(Addresses)
      OBVIOUS
    <3> HIDE DEF base, page, n
    <3>3. Fits(Book!Committed(page, Len(base) + 1, <<a>>), base)
      BY <2>2, <3>1, <3>2, CommittedFits, Zenon DEF base, page
    <3> QED
      BY <3>1, <3>3 DEF base, page, n
  <2> QED
    BY <2>1, <2>2, <2>3, PageGood
<1>3. ASSUME Book!Replace(books, books') PROVE Good(books')
  BY <1>3, LastFits, PageGood DEF Book!Replace
<1>4. ASSUME Book!Undo(books, books') PROVE Good(books')
  BY <1>4, UndoGood DEF Book!Undo
<1> QED
  BY <1>1, <1>2, <1>3, <1>4 DEF Book!Next

\* Whatever blocks are added, replaced and undone, an address is committed to a
\* period once (CommitToGenerationTransactionDiff).
THEOREM BookOncePerPeriod ==
  ASSUME BookPeriods \subseteq Nat, GenesisCommitted \in Seq(Addresses), Book!IsInjective(GenesisCommitted)
  PROVE  Book!Spec => []Book!OncePerPeriod
<1>1. Book!Init => Good(books)
  BY InitGood
<1>2. Good(books) /\ [Book!Next]_books => Good(books)'
  BY NextGood
<1>3. Good(books) => Book!OncePerPeriod
  BY Zenon DEF Good, Once, Book!OncePerPeriod
<1> QED
  BY <1>1, <1>2, <1>3, PTL DEF Book!Spec

\* The committee of a period is closed when the period begins, so the indexes in
\* votings and conflict reports keep their meaning (GenerationPeriod, SnapshotBlockchain).
THEOREM BookClosedWhenBegun ==
  ASSUME BookPeriods \subseteq Nat, GenesisCommitted \in Seq(Addresses), Book!IsInjective(GenesisCommitted)
  PROVE  Book!Spec => []Book!ClosedWhenBegun
<1>1. Book!Init => Good(books)
  BY InitGood
<1>2. Good(books) /\ [Book!Next]_books => Good(books)'
  BY NextGood
<1>3. Good(books) => Book!ClosedWhenBegun
  BY DEF Good, Closed, Book!ClosedWhenBegun
<1> QED
  BY <1>1, <1>2, <1>3, PTL DEF Book!Spec
=============================================================================
