------------------------- MODULE ReserveLedgerProofs -------------------------
(***************************************************************************)
(* The four properties of ReserveLedger, for any quantities, counters,     *)
(* periods and depth of rollbacks.  The invariant is ReserveInv: at every  *)
(* height the node can still return to, a keyed entry answers what the     *)
(* block at that height left, whatever was pruned since, and the index has *)
(* the payouts that are due after it.                                      *)
(***************************************************************************)
EXTENDS ReserveLedger, WellFoundedInduction, TLAPS

-----------------------------------------------------------------------------
(* Induction over data, by least counterexample *)

\* Every non-empty set of natural numbers has a least element.
LEMMA LeastNat == ASSUME NEW S \in SUBSET Nat, S # {} PROVE \E m \in S : \A n \in S : m <= n
<1> DEFINE R == {x \in Nat \X Nat : x[1] < x[2]}
<1>1. IsWellFoundedOn(R, Nat)
  BY NatLessThanWellFounded DEF OpToRel
<1>2. PICK x \in S : \A y \in S : ~(<<y, x>> \in R)
  <2> HIDE DEF R
  <2> QED
    BY <1>1, WFMin, Zenon
<1>3. ASSUME NEW y \in S PROVE x <= y
  <2>1. x \in Nat /\ y \in Nat
    OBVIOUS
  <2>2. ~(<<y, x>> \in R)
    BY <1>2
  <2> QED
    BY <2>1, <2>2
<1> QED
  BY <1>3

-----------------------------------------------------------------------------
(* KeepIn *)

\* f is what KeepIn computes for the first n elements of s
Keeps(f, s, S, n) ==
  f = [i \in 0 .. n |-> IF i = 0 THEN <<>> ELSE IF s[i] \in S THEN Append(f[i - 1], s[i]) ELSE f[i - 1]]

\* s[i] added to kept, if it is wanted
KeepNext(kept, s, S, i) == IF s[i] \in S THEN Append(kept, s[i]) ELSE kept

KeepSteps(f, s, S, n) == f[0] = <<>> /\ \A i \in 1 .. n : f[i] = KeepNext(f[i - 1], s, S, i)

\* KeepIn is the last value of the function it is defined with.
LEMMA KeepInIs == \A s, S : KeepIn(s, S) = (CHOOSE f : Keeps(f, s, S, Len(s)))[Len(s)]
BY DEF KeepIn, Keeps

\* Such a function starts with nothing and goes on element by element.
LEMMA KeepsAt ==
  ASSUME NEW s, NEW S, NEW n \in Nat, NEW f, Keeps(f, s, S, n)
  PROVE  KeepSteps(f, s, S, n)
<1> DEFINE G(g) == [i \in 0 .. n |-> IF i = 0 THEN <<>> ELSE IF s[i] \in S THEN Append(g[i - 1], s[i]) ELSE g[i - 1]]
<1>1. f = G(f)
  BY Zenon DEF Keeps
<1>2. \A i \in 0 .. n : G(f)[i] = IF i = 0 THEN <<>> ELSE IF s[i] \in S THEN Append(f[i - 1], s[i]) ELSE f[i - 1]
  OBVIOUS
<1> HIDE DEF G
<1>3. \A i \in 0 .. n : f[i] = IF i = 0 THEN <<>> ELSE IF s[i] \in S THEN Append(f[i - 1], s[i]) ELSE f[i - 1]
  BY <1>1, <1>2
<1> QED
  BY <1>3 DEF KeepNext, KeepSteps

\* It exists, for sequences.
LEMMA KeepsExist ==
  ASSUME NEW T, NEW s \in Seq(T), NEW S
  PROVE  \E f : Keeps(f, s, S, Len(s)) /\ \A i \in 0 .. Len(s) : f[i] \in Seq(T)
<1> DEFINE Good(n) == \E f : Keeps(f, s, S, n) /\ \A i \in 0 .. n : f[i] \in Seq(T)
           Bad == {n \in Nat : n <= Len(s) /\ ~Good(n)}
<1>1. Bad \in SUBSET Nat
  OBVIOUS
<1>2. Good(0)
  <2> DEFINE f == [i \in 0 .. 0 |-> <<>>]
  <2>1. Keeps(f, s, S, 0)
    BY DEF Keeps
  <2>2. \A i \in 0 .. 0 : f[i] \in Seq(T)
    OBVIOUS
  <2> QED
    BY <2>1, <2>2
<1>3. ASSUME NEW n \in Nat, n # 0, n <= Len(s), Good(n - 1) PROVE Good(n)
  <2>1. PICK f : Keeps(f, s, S, n - 1) /\ \A i \in 0 .. n - 1 : f[i] \in Seq(T)
    BY <1>3
  <2> DEFINE last == IF s[n] \in S THEN Append(f[n - 1], s[n]) ELSE f[n - 1]
             g == [i \in 0 .. n |-> IF i = n THEN last ELSE f[i]]
  <2>2. last \in Seq(T)
    BY <1>3, <2>1
  <2>3. \A i \in 0 .. n : g[i] \in Seq(T)
    BY <1>3, <2>1, <2>2
  <2>4. KeepSteps(f, s, S, n - 1)
    <3> DEFINE k == n - 1
    <3>1. k \in Nat
      BY <1>3
    <3> HIDE DEF k
    <3>2. Keeps(f, s, S, k)
      BY <2>1 DEF k
    <3>3. KeepSteps(f, s, S, k)
      BY <3>1, <3>2, KeepsAt
    <3> QED
      BY <3>3 DEF k
  <2>5. \A i \in 0 .. n : g[i] = IF i = 0 THEN <<>> ELSE IF s[i] \in S THEN Append(g[i - 1], s[i]) ELSE g[i - 1]
    BY <1>3, <2>4 DEF KeepNext, KeepSteps
  <2>6. Keeps(g, s, S, n)
    <3>1. g = [i \in 0 .. n |-> g[i]]
      OBVIOUS
    <3> HIDE DEF g
    <3> QED
      BY <2>5, <3>1 DEF Keeps
  <2> HIDE DEF g
  <2> QED
    BY <2>3, <2>6
<1> HIDE DEF Good
<1>4. Bad = {}
  <2> SUFFICES ASSUME Bad # {} PROVE FALSE
    OBVIOUS
  <2>1. PICK n \in Bad : \A m \in Bad : n <= m
    <3> HIDE DEF Bad
    <3> QED
      BY <1>1, LeastNat
  <2>2. n \in Nat /\ n <= Len(s) /\ ~Good(n) /\ n # 0
    BY <1>2
  <2>3. n - 1 \in Nat /\ n - 1 \notin Bad /\ n - 1 <= Len(s)
    BY <2>1, <2>2
  <2> QED
    BY <1>3, <2>2, <2>3
<1>5. Len(s) \in Nat
  OBVIOUS
<1>6. Good(Len(s))
  BY <1>4, <1>5
<1> QED
  BY <1>6 DEF Good

\* So KeepIn is the last value of some such function.
LEMMA KeepInFunction ==
  ASSUME NEW T, NEW s \in Seq(T), NEW S
  PROVE  \E f : Keeps(f, s, S, Len(s)) /\ KeepIn(s, S) = f[Len(s)]
<1> DEFINE f == CHOOSE f : Keeps(f, s, S, Len(s))
<1>1. \E g : Keeps(g, s, S, Len(s))
  BY KeepsExist, Zenon
<1>2. Keeps(f, s, S, Len(s))
  BY <1>1
<1>3. KeepIn(s, S) = f[Len(s)]
  BY KeepInIs
<1> QED
  BY <1>2, <1>3, Zenon

\* Where the wanted elements are the first ones they are kept ...
LEMMA KeepFirst ==
  ASSUME NEW T, NEW s \in Seq(T), NEW S, NEW k \in 0 .. Len(s),
         \A i \in 1 .. k : s[i] \in S, \A i \in k + 1 .. Len(s) : s[i] \notin S
  PROVE  KeepIn(s, S) = SubSeq(s, 1, k)
<1>1. PICK f : Keeps(f, s, S, Len(s)) /\ KeepIn(s, S) = f[Len(s)]
  BY KeepInFunction
<1>2. f[0] = <<>> /\ \A i \in 1 .. Len(s) : f[i] = KeepNext(f[i - 1], s, S, i)
  <2>1. Len(s) \in Nat
    OBVIOUS
  <2>2. KeepSteps(f, s, S, Len(s))
    BY <1>1, <2>1, KeepsAt
  <2> QED
    BY <2>2 DEF KeepSteps
<1> DEFINE upTo(n) == SubSeq(s, 1, IF n <= k THEN n ELSE k)
           Bad == {n \in Nat : n <= Len(s) /\ f[n] # upTo(n)}
<1>3. Bad = {}
  <2> SUFFICES ASSUME Bad # {} PROVE FALSE
    OBVIOUS
  <2>1. PICK n \in Bad : \A m \in Bad : n <= m
    <3>1. Bad \in SUBSET Nat
      OBVIOUS
    <3> HIDE DEF Bad
    <3> QED
      BY <3>1, LeastNat
  <2>2. n \in Nat /\ n <= Len(s) /\ f[n] # upTo(n)
    OBVIOUS
  <2>3. n # 0
    <3>1. upTo(0) = <<>>
      OBVIOUS
    <3> HIDE DEF upTo
    <3> QED
      BY <1>2, <2>2, <3>1
  <2>4. n - 1 \in Nat /\ n - 1 \notin Bad /\ n - 1 <= Len(s) /\ n \in 1 .. Len(s)
    BY <2>1, <2>2, <2>3
  <2>5. f[n - 1] = upTo(n - 1)
    BY <2>4
  <2>6. CASE n <= k
    <3>0. s[n] \in S /\ f[n] = KeepNext(f[n - 1], s, S, n)
      BY <1>2, <2>4, <2>6
    <3>1. f[n] = Append(f[n - 1], s[n])
      BY <3>0 DEF KeepNext
    <3>2. Append(SubSeq(s, 1, n - 1), s[n]) = SubSeq(s, 1, n)
      BY <2>4
    <3> QED
      BY <2>2, <2>4, <2>5, <2>6, <3>1, <3>2
  <2>7. CASE n > k
    <3>1. f[n] = f[n - 1]
      BY <1>2, <2>4, <2>7 DEF KeepNext
    <3>2. upTo(n) = upTo(n - 1)
      BY <2>4, <2>7
    <3> QED
      BY <2>2, <2>5, <3>1, <3>2
  <2> QED
    BY <2>2, <2>6, <2>7
<1>4. Len(s) \in Nat /\ Len(s) \notin Bad
  BY <1>3
<1> QED
  BY <1>1, <1>4

\* ... and so they are where they are the last ones.
LEMMA KeepRest ==
  ASSUME NEW T, NEW s \in Seq(T), NEW S, NEW k \in 0 .. Len(s),
         \A i \in 1 .. k : s[i] \notin S, \A i \in k + 1 .. Len(s) : s[i] \in S
  PROVE  KeepIn(s, S) = SubSeq(s, k + 1, Len(s))
<1>1. PICK f : Keeps(f, s, S, Len(s)) /\ KeepIn(s, S) = f[Len(s)]
  BY KeepInFunction
<1>2. f[0] = <<>> /\ \A i \in 1 .. Len(s) : f[i] = KeepNext(f[i - 1], s, S, i)
  <2>1. Len(s) \in Nat
    OBVIOUS
  <2>2. KeepSteps(f, s, S, Len(s))
    BY <1>1, <2>1, KeepsAt
  <2> QED
    BY <2>2 DEF KeepSteps
<1> DEFINE Bad == {n \in Nat : n <= Len(s) /\ f[n] # SubSeq(s, k + 1, n)}
<1>3. Bad = {}
  <2> SUFFICES ASSUME Bad # {} PROVE FALSE
    OBVIOUS
  <2>1. PICK n \in Bad : \A m \in Bad : n <= m
    <3>1. Bad \in SUBSET Nat
      OBVIOUS
    <3> HIDE DEF Bad
    <3> QED
      BY <3>1, LeastNat
  <2>2. n \in Nat /\ n <= Len(s) /\ f[n] # SubSeq(s, k + 1, n)
    OBVIOUS
  <2>3. n # 0
    <3>1. SubSeq(s, k + 1, 0) = <<>>
      OBVIOUS
    <3> QED
      BY <1>2, <2>2, <3>1, Zenon
  <2>4. n - 1 \in Nat /\ n - 1 \notin Bad /\ n - 1 <= Len(s) /\ n \in 1 .. Len(s)
    BY <2>1, <2>2, <2>3
  <2>5. f[n - 1] = SubSeq(s, k + 1, n - 1)
    BY <2>4
  <2>6. CASE n <= k
    <3>1. f[n] = f[n - 1]
      BY <1>2, <2>4, <2>6, SMTT(30) DEF KeepNext
    <3> QED
      BY <2>2, <2>4, <2>5, <2>6, <3>1
  <2>7. CASE n > k
    <3>0. s[n] \in S /\ f[n] = KeepNext(f[n - 1], s, S, n)
      BY <1>2, <2>4, <2>7
    <3>1. f[n] = Append(f[n - 1], s[n])
      BY <3>0 DEF KeepNext
    <3>2. Append(SubSeq(s, k + 1, n - 1), s[n]) = SubSeq(s, k + 1, n)
      BY <2>4, <2>7, SMTT(30)
    <3> QED
      BY <2>2, <2>5, <3>1, <3>2
  <2> QED
    BY <2>2, <2>6, <2>7
<1>4. Len(s) \in Nat /\ Len(s) \notin Bad
  BY <1>3
<1> QED
  BY <1>1, <1>4

\* Nothing is lost where everything is wanted.
LEMMA KeepAll ==
  ASSUME NEW T, NEW s \in Seq(T), NEW S, \A i \in 1 .. Len(s) : s[i] \in S
  PROVE  KeepIn(s, S) = s
<1>1. Len(s) \in 0 .. Len(s) /\ \A i \in Len(s) + 1 .. Len(s) : s[i] \notin S
  OBVIOUS
<1>2. KeepIn(s, S) = SubSeq(s, 1, Len(s))
  BY <1>1, KeepFirst
<1> QED
  BY <1>2


-----------------------------------------------------------------------------
(* Histories *)

\* A history has its heights newest first.
Descending(s) == \A i, j \in 1 .. Len(s) : i < j => s[i] > s[j]

\* A read of the entry as it stood after the block at height h answers v: the
\* newest height in its history that is not above h has v, or there is none.
Answers(entry, h, missing, v) ==
  /\ \A i \in 1 .. Len(entry.history) :
       entry.history[i] <= h /\ (i = 1 \/ entry.history[i - 1] > h) => entry.value[entry.history[i]] = v
  /\ (\A i \in 1 .. Len(entry.history) : entry.history[i] > h) => v = missing

\* It has heights of the chain only.
HistoryOK(s, top) == s \in Seq(Nat) /\ Descending(s) /\ \A i \in 1 .. Len(s) : s[i] \in 1 .. top

\* The range of a list, by index.
LEMMA InRange ==
  ASSUME NEW s \in Seq(Nat)
  PROVE  /\ \A i \in 1 .. Len(s) : s[i] \in Range(s)
         /\ \A d \in Range(s) : \E i \in 1 .. Len(s) : d = s[i]
<1>1. DOMAIN s = 1 .. Len(s)
  OBVIOUS
<1> QED
  BY <1>1, Zenon DEF Range

\* What two lists make, one after the other.
LEMMA Joined ==
  ASSUME NEW T, NEW s \in Seq(T), NEW r \in Seq(T)
  PROVE  /\ s \o r \in Seq(T) /\ Len(s \o r) = Len(s) + Len(r)
         /\ \A i \in 1 .. Len(s) + Len(r) : (s \o r)[i] = IF i <= Len(s) THEN s[i] ELSE r[i - Len(s)]
<1>1. s \o r \in Seq(T) /\ Len(s \o r) = Len(s) + Len(r)
  OBVIOUS
<1>2. ASSUME NEW i \in 1 .. Len(s) + Len(r) PROVE (s \o r)[i] = IF i <= Len(s) THEN s[i] ELSE r[i - Len(s)]
  OBVIOUS
<1> QED
  BY <1>1, <1>2

\* What a part of a list is.
LEMMA Part ==
  ASSUME NEW T, NEW s \in Seq(T), NEW a \in Nat, NEW b \in 0 .. Len(s), 1 <= a, a <= b + 1
  PROVE  /\ SubSeq(s, a, b) \in Seq(T)
         /\ Len(SubSeq(s, a, b)) = b - a + 1
         /\ \A i \in 1 .. b - a + 1 : SubSeq(s, a, b)[i] = s[i + a - 1]
<1> DEFINE r == SubSeq(s, a, b)
<1>1. Len(s) \in Nat /\ a \in Int /\ b \in Int /\ \A i \in a .. b : s[i] \in T
  OBVIOUS
<1>2. /\ r \in Seq(T)
      /\ Len(r) = IF a <= b THEN b - a + 1 ELSE 0
      /\ \A i \in 1 .. b - a + 1 : r[i] = s[a + i - 1]
  BY <1>1, SMTT(30)
<1> HIDE DEF r
<1>3. Len(r) = b - a + 1
  BY <1>1, <1>2
<1>4. \A i \in 1 .. b - a + 1 : r[i] = s[i + a - 1]
  BY <1>1, <1>2
<1> QED
  BY <1>2, <1>3, <1>4 DEF r

\* A part that goes on to the end starts with the element after those left out.
LEMMA PartHead ==
  ASSUME NEW s \in Seq(Nat), NEW k \in Nat, k < Len(s)
  PROVE  SubSeq(s, k + 1, Len(s)) # <<>> /\ Head(SubSeq(s, k + 1, Len(s))) = s[k + 1]
<1> DEFINE a == k + 1
           r == SubSeq(s, a, Len(s))
<1>1. a \in Nat /\ Len(s) \in 0 .. Len(s) /\ 1 <= a /\ a <= Len(s) /\ a <= Len(s) + 1
  OBVIOUS
<1>2. r \in Seq(Nat) /\ Len(r) = Len(s) - a + 1 /\ \A i \in 1 .. Len(s) - a + 1 : r[i] = s[i + a - 1]
  <2> HIDE DEF a
  <2> QED
    BY <1>1, Part
<1> HIDE DEF r, a
<1>3. Len(r) # 0 /\ r[1] = s[a]
  BY <1>1, <1>2
<1>4. r # <<>>
  BY <1>2, <1>3
<1>5. Head(r) = r[1]
  BY <1>2, <1>4
<1> QED
  BY <1>3, <1>4, <1>5 DEF r, a

\* Of a descending list, those at or above the threshold come first.
LEMMA Threshold ==
  ASSUME NEW s \in Seq(Nat), Descending(s), NEW t \in Int
  PROVE  \E k \in 0 .. Len(s) : /\ \A i \in 1 .. k : s[i] >= t
                                /\ \A i \in k + 1 .. Len(s) : s[i] < t
<1> DEFINE Below == {i \in Nat : i \in 1 .. Len(s) /\ s[i] < t}
<1>0. Len(s) \in Nat /\ \A i \in 1 .. Len(s) : s[i] \in Nat
  OBVIOUS
<1>1. CASE Below = {}
  <2>1. \A i \in 1 .. Len(s) : s[i] >= t
    BY <1>0, <1>1
  <2> QED
    BY <1>0, <2>1
<1>2. CASE Below # {}
  <2>1. PICK m \in Below : \A n \in Below : m <= n
    BY <1>2, LeastNat, Zenon
  <2> DEFINE k == m - 1
  <2>2. m \in 1 .. Len(s) /\ s[m] < t
    BY <2>1
  <2>3. k \in 0 .. Len(s)
    BY <1>0, <2>2
  <2>4. ASSUME NEW i \in 1 .. k PROVE s[i] >= t
    <3>1. i \in 1 .. Len(s) /\ i < m
      BY <1>0, <2>2
    <3> QED
      BY <1>0, <2>1, <3>1
  <2>5. ASSUME NEW i \in k + 1 .. Len(s) PROVE s[i] < t
    <3>1. i \in 1 .. Len(s) /\ (i = m \/ m < i)
      BY <1>0, <2>2
    <3> QED
      BY <1>0, <2>2, <3>1 DEF Descending
  <2> QED
    BY <2>3, <2>4, <2>5, Zenon
<1> QED
  BY <1>1, <1>2

\* What a write keeps of the history: a first part of it, up to and with the
\* newest height below the threshold.
LEMMA KeptIsFirst ==
  ASSUME NEW s \in Seq(Nat), Descending(s), NEW t \in Int
  PROVE  \E m \in 0 .. Len(s) : /\ keptHistory(s, t) = SubSeq(s, 1, m)
                                /\ \A i \in 1 .. Len(s) : i <= m <=> (i = 1 \/ s[i - 1] >= t)
<1>0. Len(s) \in Nat /\ \A i \in 1 .. Len(s) : s[i] \in Nat
  OBVIOUS
<1>1. PICK k \in 0 .. Len(s) : (\A i \in 1 .. k : s[i] >= t) /\ (\A i \in k + 1 .. Len(s) : s[i] < t)
  BY Threshold, Zenon
<1> DEFINE A == {h \in Range(s) : h >= t}
           B == {h \in Range(s) : h < t}
<1>2. \A i \in 1 .. Len(s) : s[i] \in Range(s)
  BY <1>0 DEF Range
<1>3. \A i \in 1 .. k : s[i] \in A /\ s[i] \notin B
  BY <1>0, <1>1, <1>2
<1>4. \A i \in k + 1 .. Len(s) : s[i] \in B /\ s[i] \notin A
  BY <1>0, <1>1, <1>2
<1>5. KeepIn(s, A) = SubSeq(s, 1, k)
  <2> HIDE DEF A, B
  <2> QED
    BY <1>3, <1>4, KeepFirst, Zenon
<1>6. KeepIn(s, B) = SubSeq(s, k + 1, Len(s))
  <2> HIDE DEF A, B
  <2> QED
    BY <1>3, <1>4, KeepRest
<1>7. keptHistory(s, t) = SubSeq(s, 1, k) \o (IF SubSeq(s, k + 1, Len(s)) = <<>> THEN <<>> ELSE <<Head(SubSeq(s, k + 1, Len(s)))>>)
  BY <1>5, <1>6, Zenon DEF keptHistory
<1> HIDE DEF A, B
<1>8. CASE k = Len(s)
  <2>1. SubSeq(s, k + 1, Len(s)) = <<>>
    BY <1>0, <1>8
  <2>2. keptHistory(s, t) = SubSeq(s, 1, k)
    BY <1>0, <1>7, <2>1
  <2>3. \A i \in 1 .. Len(s) : i <= k <=> (i = 1 \/ s[i - 1] >= t)
    BY <1>0, <1>1, <1>8
  <2> QED
    BY <2>2, <2>3
<1>9. CASE k # Len(s)
  <2> DEFINE rest == SubSeq(s, k + 1, Len(s))
  <2>1. rest # <<>> /\ Head(rest) = s[k + 1]
    <3>1. k \in Nat /\ k < Len(s)
      BY <1>0, <1>9
    <3> QED
      BY <3>1, PartHead
  <2>2. keptHistory(s, t) = SubSeq(s, 1, k) \o <<s[k + 1]>>
    BY <1>7, <2>1
  <2>3. k + 1 \in 0 .. Len(s)
    BY <1>0, <1>9
  <2>4. SubSeq(s, 1, k) \o <<s[k + 1]>> = SubSeq(s, 1, k + 1)
    BY <1>0, <2>3
  <2>5. \A i \in 1 .. Len(s) : i <= k + 1 <=> (i = 1 \/ s[i - 1] >= t)
    <3> SUFFICES ASSUME NEW i \in 1 .. Len(s) PROVE i <= k + 1 <=> (i = 1 \/ s[i - 1] >= t)
      OBVIOUS
    <3>1. CASE i = 1
      BY <3>1
    <3>2. CASE i # 1 /\ i <= k + 1
      <4>1. i - 1 \in 1 .. k
        BY <1>0, <3>2
      <4> QED
        BY <1>1, <3>2, <4>1
    <3>3. CASE i # 1 /\ i > k + 1
      <4>1. i - 1 \in k + 1 .. Len(s) /\ i - 1 \in 1 .. Len(s)
        BY <1>0, <3>3
      <4>2. s[i - 1] < t /\ s[i - 1] \in Nat
        BY <1>0, <1>1, <4>1
      <4> QED
        BY <3>3, <4>2
    <3> QED
      BY <3>1, <3>2, <3>3
  <2> QED
    BY <2>2, <2>3, <2>4, <2>5, Zenon
<1> QED
  BY <1>8, <1>9, Zenon

\* What undoing a block leaves of the history: all but the block's own height,
\* which is the newest if it is there at all.
LEMMA UndoneHistory ==
  ASSUME NEW top \in Nat, NEW s, HistoryOK(s, top + 1)
  PROVE  \/ /\ s # <<>> /\ s[1] = top + 1
            /\ KeepIn(s, Range(s) \ {top + 1}) = SubSeq(s, 2, Len(s))
            /\ HistoryOK(SubSeq(s, 2, Len(s)), top)
         \/ /\ top + 1 \notin Range(s)
            /\ KeepIn(s, Range(s) \ {top + 1}) = s
            /\ HistoryOK(s, top)
<1> DEFINE S == Range(s) \ {top + 1}
<1>0. s \in Seq(Nat) /\ Len(s) \in Nat /\ \A i \in 1 .. Len(s) : s[i] \in Nat
  BY DEF HistoryOK
<1>1. \A i \in 1 .. Len(s) : s[i] \in Range(s)
  BY <1>0 DEF Range
<1>2. CASE s # <<>> /\ s[1] = top + 1
  <2>1. \A i \in 2 .. Len(s) : s[i] < top + 1
    BY <1>0, <1>2 DEF HistoryOK, Descending
  <2>2. 1 \in 0 .. Len(s)
    BY <1>0, <1>2
  <2>3. \A i \in 1 .. 1 : s[i] \notin S
    BY <1>2
  <2>4. \A i \in 1 + 1 .. Len(s) : s[i] \in S
    BY <1>0, <1>1, <2>1
  <2>5. KeepIn(s, S) = SubSeq(s, 1 + 1, Len(s))
    <3> HIDE DEF S
    <3> QED
      BY <1>0, <2>2, <2>3, <2>4, KeepRest
  <2>6. HistoryOK(SubSeq(s, 2, Len(s)), top)
    <3> DEFINE r == SubSeq(s, 2, Len(s))
    <3>1. r \in Seq(Nat) /\ Len(r) = Len(s) - 1 /\ \A i \in 1 .. Len(r) : r[i] = s[i + 1]
      <4> DEFINE a == 2
      <4>1. a \in Nat /\ Len(s) \in 0 .. Len(s) /\ 1 <= a /\ a <= Len(s) + 1
        BY <1>0, <1>2
      <4>2. /\ SubSeq(s, a, Len(s)) \in Seq(Nat) /\ Len(SubSeq(s, a, Len(s))) = Len(s) - a + 1
            /\ \A i \in 1 .. Len(s) - a + 1 : SubSeq(s, a, Len(s))[i] = s[i + a - 1]
        <5> HIDE DEF a
        <5> QED
          BY <1>0, <4>1, Part
      <4>3. /\ r \in Seq(Nat) /\ Len(r) = Len(s) - 2 + 1
            /\ \A i \in 1 .. Len(s) - 2 + 1 : r[i] = s[i + 2 - 1]
        BY <4>2
      <4> HIDE DEF r, a
      <4> QED
        BY <1>0, <4>3
    <3>2. \A i \in 1 .. Len(r) : r[i] \in 1 .. top
      <4> SUFFICES ASSUME NEW i \in 1 .. Len(r) PROVE r[i] \in 1 .. top
        OBVIOUS
      <4>1. i + 1 \in 2 .. Len(s) /\ i + 1 \in 1 .. Len(s)
        BY <1>0, <3>1
      <4>2. s[i + 1] \in 1 .. top + 1 /\ s[i + 1] < top + 1
        BY <2>1, <4>1 DEF HistoryOK
      <4> QED
        BY <3>1, <4>2
    <3>3. Descending(r)
      <4> SUFFICES ASSUME NEW i \in 1 .. Len(r), NEW j \in 1 .. Len(r), i < j PROVE r[i] > r[j]
        BY DEF Descending
      <4>1. i + 1 \in 1 .. Len(s) /\ j + 1 \in 1 .. Len(s) /\ i + 1 < j + 1
        BY <1>0, <3>1
      <4>2. s[i + 1] > s[j + 1]
        BY <4>1 DEF HistoryOK, Descending
      <4> QED
        BY <3>1, <4>2
    <3> HIDE DEF r
    <3> QED
      BY <3>1, <3>2, <3>3 DEF HistoryOK, r
  <2>7. KeepIn(s, S) = SubSeq(s, 2, Len(s))
    <3>1. 1 + 1 = 2
      OBVIOUS
    <3> QED
      BY <2>5, <3>1, Zenon
  <2> QED
    BY <1>2, <2>6, <2>7, Zenon
<1>3. CASE ~(s # <<>> /\ s[1] = top + 1)
  <2>1. \A i \in 1 .. Len(s) : s[i] < top + 1
    <3> SUFFICES ASSUME NEW i \in 1 .. Len(s) PROVE s[i] < top + 1
      OBVIOUS
    <3>1. s # <<>> /\ 1 \in 1 .. Len(s) /\ s[1] < top + 1
      BY <1>0, <1>3 DEF HistoryOK
    <3>2. i = 1 \/ s[1] > s[i]
      BY <3>1 DEF HistoryOK, Descending
    <3> QED
      BY <1>0, <3>1, <3>2
  <2>2. top + 1 \notin Range(s)
    BY <1>0, <2>1 DEF Range
  <2>3. \A i \in 1 .. Len(s) : s[i] \in S
    BY <1>1, <2>1
  <2>4. KeepIn(s, S) = s
    <3> HIDE DEF S
    <3> QED
      BY <1>0, <2>3, KeepAll
  <2>5. HistoryOK(s, top)
    BY <1>0, <2>1 DEF HistoryOK
  <2> QED
    BY <2>2, <2>4, <2>5
<1> QED
  BY <1>2, <1>3, Zenon

-----------------------------------------------------------------------------
(* Keyed entries: reading and writing *)

\* The entry as it stands after the block at height top: it answers V[h] for every
\* height h the node can still return to.
KeyedOK(entry, V, top, lo, missing) ==
  /\ HistoryOK(entry.history, top)
  /\ DOMAIN entry.value = Range(entry.history)
  /\ \A h \in lo .. top : Answers(entry, h, missing, V[h])

\* A read answers for the last block.
LEMMA ReadKeyed ==
  ASSUME NEW top \in Nat, NEW lo \in Nat, lo <= top, NEW entry, NEW V, NEW missing, KeyedOK(entry, V, top, lo, missing)
  PROVE  fromHistory(entry, missing) = V[top]
<1> DEFINE s == entry.history
<1>1. s \in Seq(Nat) /\ Len(s) \in Nat /\ \A i \in 1 .. Len(s) : s[i] \in 1 .. top
  BY DEF KeyedOK, HistoryOK
<1>2. Answers(entry, top, missing, V[top])
  BY DEF KeyedOK
<1>3. CASE s = <<>>
  BY <1>2, <1>3 DEF Answers, fromHistory
<1>4. CASE s # <<>>
  <2>1. 1 \in 1 .. Len(s) /\ Head(s) = s[1]
    BY <1>1, <1>4
  <2>2. entry.value[s[1]] = V[top]
    BY <1>1, <1>2, <2>1 DEF Answers
  <2> QED
    BY <1>4, <2>1, <2>2 DEF fromHistory
<1> QED
  BY <1>3, <1>4

\* A block that does not write the entry: it answers for the new block what it
\* answered for the last.
LEMMA SkipKeyed ==
  ASSUME NEW top \in Nat, NEW lo \in Nat, lo <= top, NEW entry, NEW V, NEW missing, KeyedOK(entry, V, top, lo, missing),
         NEW low \in Nat, lo <= low,
         NEW W, \A h \in lo .. top : W[h] = V[h], W[top + 1] = V[top]
  PROVE  KeyedOK(entry, W, top + 1, low, missing)
<1> DEFINE s == entry.history
<1>1. s \in Seq(Nat) /\ Len(s) \in Nat /\ \A i \in 1 .. Len(s) : s[i] \in 1 .. top
  BY DEF KeyedOK, HistoryOK
<1>2. HistoryOK(s, top + 1)
  BY <1>1 DEF KeyedOK, HistoryOK
<1>3. ASSUME NEW h \in low .. top + 1 PROVE Answers(entry, h, missing, W[h])
  <2>1. CASE h \in lo .. top
    BY <2>1 DEF KeyedOK
  <2>2. CASE h = top + 1
    <3>1. Answers(entry, top, missing, V[top])
      BY DEF KeyedOK
    <3>2. \A i \in 1 .. Len(s) : s[i] <= top /\ s[i] <= h /\ ~(s[i] > top) /\ ~(s[i] > h)
      BY <1>1, <2>2
    <3>3. \A i \in 1 .. Len(s) : i # 1 => i - 1 \in 1 .. Len(s)
      BY <1>1
    <3>4. ASSUME NEW i \in 1 .. Len(s), i = 1 \/ s[i - 1] > h PROVE entry.value[s[i]] = V[top]
      <4>1. i = 1
        BY <3>2, <3>3, <3>4
      <4> QED
        BY <3>1, <3>2, <4>1 DEF Answers
    <3>5. ASSUME \A i \in 1 .. Len(s) : s[i] > h PROVE V[top] = missing
      <4>1. \A i \in 1 .. Len(s) : s[i] > top
        BY <3>2, <3>5
      <4> QED
        BY <3>1, <4>1 DEF Answers
    <3> QED
      BY <2>2, <3>4, <3>5 DEF Answers
  <2> QED
    BY <2>1, <2>2
<1> QED
  BY <1>2, <1>3 DEF KeyedOK

\* A write at height top + 1, with threshold t, that leaves low the lowest height to return to.
WriteFits(entry, V, W, top, lo, low, t, missing) ==
  /\ top \in Nat /\ lo \in Nat /\ lo <= top /\ KeyedOK(entry, V, top, lo, missing)
  /\ t \in Int /\ low \in Nat /\ lo <= low /\ t <= low
  /\ \A h \in lo .. top : W[h] = V[h]

\* A block that writes the entry.
LEMMA WriteKeyed ==
  ASSUME NEW top, NEW lo, NEW entry, NEW V, NEW W, NEW missing, NEW t, NEW low,
         WriteFits(entry, V, W, top, lo, low, t, missing)
  PROVE  /\ KeyedOK(writeKeyed(entry, top + 1, t, W[top + 1]), W, top + 1, low, missing)
         /\ top + 1 \in Range(writeKeyed(entry, top + 1, t, W[top + 1]).history)
         /\ \A d \in 1 .. top :
              d >= t => (d \in Range(writeKeyed(entry, top + 1, t, W[top + 1]).history) <=> d \in Range(entry.history))
<1> DEFINE s == entry.history
           n == updateHistory(s, top + 1, t)
           new == writeKeyed(entry, top + 1, t, W[top + 1])
<1> top \in Nat /\ lo \in Nat /\ lo <= top /\ t \in Int /\ low \in Nat /\ lo <= low /\ t <= low
  BY DEF WriteFits
<1>0. KeyedOK(entry, V, top, lo, missing) /\ \A h \in lo .. top : W[h] = V[h]
  BY DEF WriteFits
<1>1. s \in Seq(Nat) /\ Len(s) \in Nat /\ Descending(s) /\ \A i \in 1 .. Len(s) : s[i] \in 1 .. top
  BY <1>0 DEF KeyedOK, HistoryOK
<1>2. PICK m \in 0 .. Len(s) : /\ keptHistory(s, t) = SubSeq(s, 1, m)
                               /\ \A i \in 1 .. Len(s) : i <= m <=> (i = 1 \/ s[i - 1] >= t)
  BY <1>1, KeptIsFirst, Zenon
<1>3. n \in Seq(Nat) /\ Len(n) = m + 1 /\ n[1] = top + 1 /\ \A i \in 2 .. m + 1 : n[i] = s[i - 1]
  <2> DEFINE r == SubSeq(s, 1, m)
  <2>1. r \in Seq(Nat) /\ Len(r) = m /\ \A i \in 1 .. m : r[i] = s[i]
    BY <1>1
  <2>2. n = <<top + 1>> \o r
    BY <1>2 DEF updateHistory
  <2> HIDE DEF r, n
  <2> DEFINE one == <<top + 1>>
  <2>3. one \in Seq(Nat) /\ Len(one) = 1 /\ one[1] = top + 1
    OBVIOUS
  <2> HIDE DEF one
  <2>4. n = one \o r
    BY <2>2 DEF one
  <2>5. /\ n \in Seq(Nat) /\ Len(n) = Len(one) + Len(r)
        /\ \A i \in 1 .. Len(one) + Len(r) : n[i] = IF i <= Len(one) THEN one[i] ELSE r[i - Len(one)]
    BY <2>1, <2>3, <2>4, Joined, Zenon
  <2>6. \A i \in 1 .. 1 + m : n[i] = IF i <= 1 THEN one[i] ELSE r[i - 1]
    BY <2>1, <2>3, <2>5
  <2>7. n[1] = top + 1
    BY <1>1, <2>3, <2>6
  <2>8. ASSUME NEW i \in 2 .. m + 1 PROVE n[i] = s[i - 1]
    <3>1. i \in 1 .. 1 + m /\ ~(i <= 1) /\ i - 1 \in 1 .. m
      BY <1>1
    <3> QED
      BY <2>1, <2>6, <3>1
  <2>9. Len(n) = m + 1
    BY <1>1, <2>1, <2>3, <2>5
  <2> QED
    BY <2>5, <2>7, <2>8, <2>9, SMTT(30)
<1>4. /\ new.history = n
      /\ new.value = [h \in Range(n) |-> IF h = top + 1 THEN W[top + 1] ELSE entry.value[h]]
  BY DEF writeKeyed
<1> HIDE DEF new, n
<1>5. DOMAIN new.value = Range(new.history)
  BY <1>4
<1>6. \A i \in 1 .. m : i \in 1 .. Len(s) /\ i + 1 \in 1 .. Len(n) /\ n[i + 1] = s[i] /\ s[i] \in 1 .. top
  <2> SUFFICES ASSUME NEW i \in 1 .. m PROVE i \in 1 .. Len(s) /\ i + 1 \in 1 .. Len(n) /\ n[i + 1] = s[i] /\ s[i] \in 1 .. top
    OBVIOUS
  <2>1. i \in 1 .. Len(s) /\ i + 1 \in 1 .. Len(n) /\ i + 1 \in 2 .. m + 1 /\ (i + 1) - 1 = i
    BY <1>1, <1>3
  <2> QED
    BY <1>1, <1>3, <2>1
<1>7. \A i \in 1 .. Len(n) : i = 1 \/ \E k \in 1 .. m : i = k + 1
  <2> SUFFICES ASSUME NEW i \in 1 .. Len(n), i # 1 PROVE \E k \in 1 .. m : i = k + 1
    OBVIOUS
  <2>1. i - 1 \in 1 .. m /\ i = (i - 1) + 1
    BY <1>1, <1>3
  <2> QED
    BY <2>1
<1>8. HistoryOK(n, top + 1)
  <2>1. ASSUME NEW i \in 1 .. Len(n) PROVE n[i] \in 1 .. top + 1
    <3>1. CASE i = 1
      BY <1>3, <3>1
    <3>2. CASE i # 1
      <4>1. PICK k \in 1 .. m : i = k + 1
        BY <1>7, <3>2
      <4>2. n[i] \in 1 .. top
        BY <1>6, <4>1, Zenon
      <4> QED
        BY <4>2
    <3> QED
      BY <3>1, <3>2
  <2>2. ASSUME NEW i \in 1 .. Len(n), NEW j \in 1 .. Len(n), i < j PROVE n[i] > n[j]
    <3>1. PICK b \in 1 .. m : j = b + 1
      BY <1>7, <2>2
    <3>2. n[j] = s[b] /\ s[b] \in 1 .. top /\ b \in 1 .. Len(s)
      BY <1>6, <3>1
    <3>3. CASE i = 1
      <4>1. n[i] = top + 1 /\ n[j] \in 1 .. top
        BY <1>3, <3>2, <3>3
      <4> QED
        BY <4>1
    <3>4. CASE i # 1
      <4>1. PICK a \in 1 .. m : i = a + 1
        BY <1>7, <3>4
      <4>2. n[i] = s[a] /\ a \in 1 .. Len(s) /\ a < b
        BY <1>6, <2>2, <3>1, <4>1
      <4> QED
        BY <1>1, <3>2, <4>2 DEF Descending
    <3> QED
      BY <3>3, <3>4
  <2> QED
    BY <1>3, <2>1, <2>2 DEF HistoryOK, Descending
<1>9. \A i \in 1 .. Len(n) : n[i] \in Range(n)
  BY <1>3, InRange, Zenon
<1>10. top + 1 \in Range(n)
  BY <1>1, <1>3, <1>9
<1>11. new.value[top + 1] = W[top + 1]
  BY <1>4, <1>10
<1>12. \A i \in 1 .. m : new.value[s[i]] = entry.value[s[i]]
  <2> SUFFICES ASSUME NEW i \in 1 .. m PROVE new.value[s[i]] = entry.value[s[i]]
    OBVIOUS
  <2>1. s[i] \in Range(n) /\ s[i] \in 1 .. top
    BY <1>6, <1>9, Zenon
  <2> QED
    BY <1>4, <2>1
<1>13. ASSUME NEW h \in low .. top + 1 PROVE Answers(new, h, missing, W[h])
  <2>1. CASE h = top + 1
    <3>1. ASSUME NEW i \in 1 .. Len(n), i = 1 \/ n[i - 1] > h PROVE new.value[n[i]] = W[h]
      <4>1. i = 1
        <5> SUFFICES ASSUME i # 1 PROVE FALSE
          OBVIOUS
        <5>1. i - 1 \in 1 .. Len(n)
          BY <1>3
        <5>2. n[i - 1] \in 1 .. top + 1
          BY <1>8, <5>1 DEF HistoryOK
        <5> QED
          BY <2>1, <3>1, <5>2
      <4> QED
        BY <1>3, <1>11, <2>1, <4>1
    <3>2. ~(\A i \in 1 .. Len(n) : n[i] > h)
      <4>1. 1 \in 1 .. Len(n) /\ ~(n[1] > h)
        BY <1>1, <1>3, <2>1
      <4> QED
        BY <4>1
    <3> QED
      BY <1>4, <3>1, <3>2 DEF Answers
  <2>2. CASE h \in low .. top
    <3>1. h \in lo .. top /\ h >= t /\ W[h] = V[h] /\ Answers(entry, h, missing, V[h])
      BY <1>0, <2>2 DEF KeyedOK
    <3>2. ASSUME NEW i \in 1 .. Len(n), n[i] <= h, i = 1 \/ n[i - 1] > h PROVE new.value[n[i]] = W[h]
      <4>1. i # 1
        BY <1>3, <2>2, <3>2
      <4>2. PICK k \in 1 .. m : i = k + 1
        BY <1>7, <4>1
      <4>3. n[i] = s[k] /\ k \in 1 .. Len(s) /\ s[k] <= h
        BY <1>6, <3>2, <4>2
      <4>4. k = 1 \/ s[k - 1] > h
        <5> SUFFICES ASSUME k # 1 PROVE s[k - 1] > h
          OBVIOUS
        <5>1. k - 1 \in 1 .. m /\ i - 1 = (k - 1) + 1
          BY <1>1, <4>2
        <5>2. n[i - 1] = s[k - 1]
          BY <1>6, <5>1
        <5> QED
          BY <3>2, <4>1, <5>2
      <4>5. entry.value[s[k]] = V[h]
        BY <3>1, <4>3, <4>4 DEF Answers
      <4> QED
        BY <1>12, <3>1, <4>3, <4>5
    <3>3. ASSUME \A i \in 1 .. Len(n) : n[i] > h PROVE W[h] = missing
      <4>1. ASSUME NEW i \in 1 .. Len(s) PROVE s[i] > h
        <5>1. CASE i <= m
          <6>1. i \in 1 .. m
            BY <5>1
          <6>2. i + 1 \in 1 .. Len(n) /\ n[i + 1] = s[i]
            BY <1>6, <6>1
          <6> QED
            BY <3>3, <6>2
        <5>2. CASE i > m
          <6>1. i # 1 /\ ~(s[i - 1] >= t)
            BY <1>2, <5>2
          <6>2. m \in 1 .. Len(s)
            <7>1. 1 \in 1 .. Len(s) /\ 1 <= m
              BY <1>1, <1>2
            <7> QED
              BY <1>1, <7>1
          <6>3. m \in 1 .. m /\ m + 1 \in 1 .. Len(n) /\ n[m + 1] = s[m] /\ s[m] > h
            <7>1. m \in 1 .. m
              BY <6>2
            <7> QED
              BY <1>6, <3>3, <7>1
          <6>4. m + 1 \in 1 .. Len(s) /\ ~(m + 1 <= m) /\ (m + 1) - 1 = m
            BY <1>1, <5>2, <6>2
          <6>5. ~(s[m] >= t)
            BY <1>2, <6>4
          <6> QED
            <7>1. s[m] \in 1 .. top
              BY <1>1, <6>2
            <7> QED
              BY <3>1, <6>3, <6>5, <7>1
        <5> QED
          BY <1>1, <5>1, <5>2
      <4> QED
        BY <3>1, <4>1 DEF Answers
    <3> QED
      BY <1>4, <3>2, <3>3 DEF Answers
  <2> QED
    BY <2>1, <2>2
<1>14. ASSUME NEW d \in 1 .. top, d >= t PROVE d \in Range(n) <=> d \in Range(s)
  <2>1. ASSUME d \in Range(n) PROVE d \in Range(s)
    <3>1. PICK i \in 1 .. Len(n) : d = n[i]
      BY <1>3, <2>1, InRange
    <3>2. i # 1
      BY <1>3, <3>1
    <3>3. PICK k \in 1 .. m : i = k + 1
      BY <1>7, <3>2
    <3>4. d = s[k] /\ k \in 1 .. Len(s)
      BY <1>6, <3>1, <3>3
    <3> QED
      BY <1>1, <3>4, InRange
  <2>2. ASSUME d \in Range(s) PROVE d \in Range(n)
    <3>1. PICK i \in 1 .. Len(s) : d = s[i]
      BY <1>1, <2>2, InRange, Zenon
    <3>2. i <= m
      <4> SUFFICES ASSUME i # 1 PROVE s[i - 1] >= t
        BY <1>2
      <4>1. i - 1 \in 1 .. Len(s) /\ i - 1 < i
        BY <1>1
      <4>2. s[i - 1] > s[i] /\ s[i - 1] \in Nat /\ s[i] \in Nat
        <5>1. s[i - 1] \in 1 .. top /\ s[i] \in 1 .. top
          BY <1>1, <4>1
        <5>2. s[i - 1] > s[i]
          BY <1>1, <4>1, Zenon DEF Descending
        <5> QED
          BY <5>1, <5>2
      <4> QED
        BY <1>14, <3>1, <4>2
    <3>3. i \in 1 .. m
      BY <3>2
    <3> QED
      BY <1>6, <1>9, <3>1, <3>3, Zenon
  <2> QED
    BY <2>1, <2>2
<1> QED
  <2>1. KeyedOK(new, W, top + 1, low, missing)
    BY <1>4, <1>5, <1>8, <1>13 DEF KeyedOK
  <2>2. top + 1 \in Range(new.history) /\ \A d \in 1 .. top : d >= t => (d \in Range(new.history) <=> d \in Range(s))
    BY <1>4, <1>10, <1>14
  <2> QED
    BY <2>1, <2>2 DEF new

-----------------------------------------------------------------------------
(* Keyed entries: undoing a block *)

\* Undoing a block: the entry answers for the blocks below it as before.  If the
\* block wrote the entry, what it wrote can still be read; if not, it changed nothing.
LEMMA UndoKeyed ==
  ASSUME NEW top \in Nat, NEW lo \in Nat, lo <= top, NEW entry, NEW V, NEW missing, KeyedOK(entry, V, top + 1, lo, missing)
  PROVE  LET new == rollbackKeyed(entry, top + 1)
         IN  /\ KeyedOK(new, V, top, lo, missing)
             /\ top + 1 \in DOMAIN entry.value => entry.value[top + 1] = V[top + 1]
             /\ top + 1 \notin DOMAIN entry.value => V[top + 1] = V[top]
             /\ \A d \in 1 .. top : d \in Range(new.history) <=> d \in Range(entry.history)
<1> DEFINE s == entry.history
           n == KeepIn(s, Range(s) \ {top + 1})
           new == rollbackKeyed(entry, top + 1)
<1>1. HistoryOK(s, top + 1) /\ DOMAIN entry.value = Range(s)
  BY DEF KeyedOK
<1>2. s \in Seq(Nat) /\ Len(s) \in Nat /\ Descending(s) /\ \A i \in 1 .. Len(s) : s[i] \in 1 .. top + 1
  BY <1>1 DEF HistoryOK
<1>3. new.history = n /\ new.value = [h \in Range(n) |-> entry.value[h]]
  BY DEF rollbackKeyed
<1>4. \A h \in lo .. top + 1 : Answers(entry, h, missing, V[h])
  BY DEF KeyedOK
<1>5. Answers(entry, top + 1, missing, V[top + 1]) /\ Answers(entry, top, missing, V[top])
  BY <1>4
<1>6. CASE s # <<>> /\ s[1] = top + 1
  <2>1. n = SubSeq(s, 2, Len(s)) /\ HistoryOK(n, top)
    <3>1. top + 1 \in Range(s)
      <4>1. 1 \in 1 .. Len(s)
        BY <1>2, <1>6
      <4> QED
        BY <1>2, <1>6, <4>1, InRange
    <3> QED
      BY <1>1, <3>1, UndoneHistory, Zenon
  <2>2. 1 \in 1 .. Len(s)
    BY <1>2, <1>6
  <2>3. n \in Seq(Nat) /\ Len(n) = Len(s) - 1 /\ \A i \in 1 .. Len(n) : n[i] = s[i + 1]
    <3> DEFINE a == 2
    <3>1. a \in Nat /\ Len(s) \in 0 .. Len(s) /\ 1 <= a /\ a <= Len(s) + 1
      BY <1>2, <2>2
    <3>2. /\ SubSeq(s, a, Len(s)) \in Seq(Nat) /\ Len(SubSeq(s, a, Len(s))) = Len(s) - a + 1
          /\ \A i \in 1 .. Len(s) - a + 1 : SubSeq(s, a, Len(s))[i] = s[i + a - 1]
      <4> HIDE DEF a
      <4> QED
        BY <1>2, <3>1, Part
    <3> HIDE DEF n
    <3>3. n \in Seq(Nat) /\ Len(n) = Len(s) - 2 + 1 /\ \A i \in 1 .. Len(s) - 2 + 1 : n[i] = s[i + 2 - 1]
      BY <2>1, <3>2
    <3> QED
      BY <1>2, <3>3
  <2> HIDE DEF n, new
  <2>4. \A i \in 1 .. Len(n) : i + 1 \in 1 .. Len(s) /\ n[i] = s[i + 1] /\ n[i] \in 1 .. top /\ n[i] \in Range(n)
    <3>1. \A i \in 1 .. Len(n) : i + 1 \in 1 .. Len(s)
      BY <1>2, <2>3
    <3>2. \A i \in 1 .. Len(n) : n[i] \in 1 .. top
      BY <2>1 DEF HistoryOK
    <3> QED
      BY <2>3, <3>1, <3>2, InRange
  <2>5. ASSUME NEW h \in lo .. top PROVE Answers(new, h, missing, V[h])
    <3>1. Answers(entry, h, missing, V[h])
      BY <1>4
    <3>2. ASSUME NEW i \in 1 .. Len(n), n[i] <= h, i = 1 \/ n[i - 1] > h PROVE new.value[n[i]] = V[h]
      <4>1. i + 1 \in 1 .. Len(s) /\ n[i] = s[i + 1] /\ (i + 1) - 1 = i
        BY <2>4
      <4>2. s[i] > h
        <5>1. CASE i = 1
          BY <1>6, <5>1
        <5>2. CASE i # 1
          <6>1. i - 1 \in 1 .. Len(n) /\ (i - 1) + 1 = i
            BY <2>3, <5>2
          <6> QED
            BY <2>4, <3>2, <5>2, <6>1
        <5> QED
          BY <5>1, <5>2
      <4>3. entry.value[s[i + 1]] = V[h]
        BY <3>1, <3>2, <4>1, <4>2 DEF Answers
      <4> QED
        BY <1>3, <2>4, <4>1, <4>3
    <3>3. ASSUME \A i \in 1 .. Len(n) : n[i] > h PROVE V[h] = missing
      <4>1. ASSUME NEW i \in 1 .. Len(s) PROVE s[i] > h
        <5>1. CASE i = 1
          BY <1>6, <5>1
        <5>2. CASE i # 1
          <6>1. i - 1 \in 1 .. Len(n) /\ (i - 1) + 1 = i
            BY <1>2, <2>3, <5>2
          <6> QED
            BY <2>4, <3>3, <6>1, Zenon
        <5> QED
          BY <5>1, <5>2
      <4> QED
        BY <3>1, <4>1 DEF Answers
    <3> QED
      BY <1>3, <3>2, <3>3 DEF Answers
  <2>6. KeyedOK(new, V, top, lo, missing)
    BY <1>3, <2>1, <2>5 DEF KeyedOK
  <2>7. entry.value[top + 1] = V[top + 1] /\ top + 1 \in Range(s)
    <3>1. top + 1 \in Range(s)
      BY <1>2, <1>6, <2>2, InRange
    <3>2. s[1] <= top + 1
      BY <1>2, <2>2
    <3> QED
      BY <1>5, <1>6, <2>2, <3>1, <3>2 DEF Answers
  <2>8. ASSUME NEW d \in 1 .. top PROVE d \in Range(n) <=> d \in Range(s)
    <3>1. ASSUME d \in Range(n) PROVE d \in Range(s)
      <4>1. PICK i \in 1 .. Len(n) : d = n[i]
        BY <2>3, <3>1, InRange
      <4>2. i + 1 \in 1 .. Len(s) /\ d = s[i + 1]
        BY <2>4, <4>1
      <4> QED
        BY <1>2, <4>2, InRange
    <3>2. ASSUME d \in Range(s) PROVE d \in Range(n)
      <4>1. PICK i \in 1 .. Len(s) : d = s[i]
        BY <1>2, <3>2, InRange, Zenon
      <4>2. i # 1
        BY <1>6, <4>1
      <4>3. i - 1 \in 1 .. Len(n) /\ (i - 1) + 1 = i
        BY <1>2, <2>3, <4>2
      <4> QED
        BY <2>4, <4>1, <4>3, Zenon
    <3> QED
      BY <3>1, <3>2
  <2> QED
    BY <1>1, <1>3, <2>6, <2>7, <2>8 DEF new
<1>7. CASE ~(s # <<>> /\ s[1] = top + 1)
  <2>1. top + 1 \notin Range(s) /\ n = s /\ HistoryOK(s, top)
    BY <1>1, <1>7, UndoneHistory, Zenon
  <2>2. new.history = s /\ new.value = [h \in Range(s) |-> entry.value[h]]
    BY <1>3, <2>1
  <2> HIDE DEF new
  <2>3. \A i \in 1 .. Len(s) : s[i] \in 1 .. top /\ new.value[s[i]] = entry.value[s[i]]
    BY <1>2, <2>1, <2>2, InRange DEF HistoryOK
  <2>4. ASSUME NEW h \in lo .. top PROVE Answers(new, h, missing, V[h])
    <3>1. Answers(entry, h, missing, V[h])
      BY <1>4
    <3> QED
      BY <2>2, <2>3, <3>1 DEF Answers
  <2>5. KeyedOK(new, V, top, lo, missing)
    BY <2>1, <2>2, <2>4 DEF KeyedOK
  <2>6. V[top + 1] = V[top]
    <3>1. CASE s = <<>>
      BY <1>5, <3>1 DEF Answers
    <3>2. CASE s # <<>>
      <4>1. 1 \in 1 .. Len(s) /\ s[1] <= top /\ s[1] <= top + 1
        <5>1. 1 \in 1 .. Len(s)
          BY <1>2, <3>2
        <5> QED
          BY <2>3, <5>1
      <4> QED
        BY <1>5, <4>1 DEF Answers
    <3> QED
      BY <3>1, <3>2
  <2> QED
    BY <1>1, <2>1, <2>2, <2>5, <2>6 DEF new
<1> QED
  BY <1>6, <1>7

-----------------------------------------------------------------------------
(* Views of a block and the index of payouts *)

\* What the ledgers and balances may be
Views ==
  [client : Nat, miner : Nat, work : Nat, reserved : Nat, settled : Nat, withdrawn : Nat,
   pending : [amount : Nat, payoutAt : Nat]]

\* ReservationCovered and SharesBounded, of a view
Covered(v) == v.settled + v.withdrawn <= v.reserved /\ v.client + v.reserved - v.withdrawn = Quantity

Bounded(v) ==
  v.miner <= floorOf(ServingNodeCredPart, v.settled) /\ v.work <= floorOf(BurnedWorkPart, v.settled)

\* What a view may be after the block at height h.
ViewOK(v, h) ==
  /\ v \in Views /\ Covered(v) /\ Bounded(v)
  /\ v.pending # NoPending => v.pending.payoutAt > h /\ isPeriodStart(v.pending.payoutAt)

\* What the block at height h, if it writes the request, may make of it: it pays
\* the one that is due at h, and takes a new one when there is none left.
PendingStep(old, new, h) == old.payoutAt = h \/ (old = NoPending /\ new # NoPending)

\* The index after the block at height top.  Above top it has the height of the
\* request; below, heights whose request was paid and followed by another in one block.
DueOK(due, entry, c, top, lo) ==
  /\ \A d \in Nat : d > top => (d \in due <=> c[top].pending.payoutAt = d)
  /\ \A d \in lo + 1 .. top :
       d \in due <=> d \in Range(entry.history) /\ c[d].pending # NoPending /\ c[d - 1].pending.payoutAt = d
  /\ \A d \in lo + 1 .. top : d \in Range(entry.history) => PendingStep(c[d - 1].pending, c[d].pending, d)

\* The index follows the undoing of a block.
LEMMA UndoDue ==
  ASSUME NEW top \in Nat \ {0}, NEW lo \in Nat, lo <= top, NEW c,
         \A h \in {top, top + 1} : ViewOK(c[h], h),
         NEW entry, NEW due, DueOK(due, entry, c, top + 1, lo),
         DOMAIN entry.value = Range(entry.history),
         top + 1 \in DOMAIN entry.value => entry.value[top + 1] = c[top + 1].pending,
         top + 1 \notin DOMAIN entry.value => c[top + 1].pending = c[top].pending,
         NEW new, \A d \in 1 .. top : d \in Range(new.history) <=> d \in Range(entry.history)
  PROVE  DueOK(unindexed(due, entry, top + 1), new, c, top, lo)
<1> DEFINE h == top + 1
           before == c[top].pending
           after == c[h].pending
           left == unindexed(due, entry, h)
           R == Range(entry.history)
<1>1. /\ before.payoutAt \in Nat /\ after.payoutAt \in Nat
      /\ before # NoPending => before.payoutAt > top
      /\ after # NoPending => after.payoutAt > h
  BY DEF ViewOK, Views
<1>2. /\ h \in Nat /\ h > top /\ h \in lo + 1 .. h /\ h - 1 = top
      /\ \A d \in lo + 1 .. top : d \in lo + 1 .. h /\ d \in 1 .. top /\ d < h
  OBVIOUS
<1>3. /\ \A d \in Nat : d > h => (d \in due <=> after.payoutAt = d)
      /\ h \in due <=> h \in R /\ after # NoPending /\ before.payoutAt = h
      /\ h \in R => before.payoutAt = h \/ (before = NoPending /\ after # NoPending)
  BY <1>2 DEF DueOK, PendingStep
<1>4. /\ \A d \in lo + 1 .. top :
           d \in due <=> d \in R /\ c[d].pending # NoPending /\ c[d - 1].pending.payoutAt = d
      /\ \A d \in lo + 1 .. top : d \in R => PendingStep(c[d - 1].pending, c[d].pending, d)
  BY <1>2 DEF DueOK
<1>5. NoPending.payoutAt = 0
  BY DEF NoPending
<1>6. left = IF h \notin R THEN due ELSE IF after = NoPending THEN due \cup {h} ELSE due \ {after.payoutAt}
  BY DEF unindexed
<1> HIDE DEF before, after, left, h, R
<1>7. \A d \in Nat : d > top => (d \in left <=> before.payoutAt = d)
  <2> SUFFICES ASSUME NEW d \in Nat, d > top PROVE d \in left <=> before.payoutAt = d
    OBVIOUS
  <2>1. d = h \/ d > h
    BY DEF h
  <2>2. CASE h \notin R
    <3>1. after = before
      BY <2>2 DEF h, R, after, before
    <3> QED
      BY <1>1, <1>2, <1>3, <1>5, <1>6, <2>1, <2>2, <3>1
  <2>3. CASE h \in R /\ after = NoPending
    BY <1>1, <1>2, <1>3, <1>5, <1>6, <2>1, <2>3
  <2>4. CASE h \in R /\ after # NoPending
    BY <1>1, <1>2, <1>3, <1>5, <1>6, <2>1, <2>4
  <2> QED
    BY <2>2, <2>3, <2>4
<1>8. \A d \in lo + 1 .. top : d \in left <=> d \in due
  BY <1>1, <1>2, <1>6
<1>9. \A d \in lo + 1 .. top : d \in Range(new.history) <=> d \in R
  BY <1>2 DEF R
<1>10. \A d \in lo + 1 .. top :
         d \in left <=> d \in Range(new.history) /\ c[d].pending # NoPending /\ c[d - 1].pending.payoutAt = d
  BY <1>4, <1>8, <1>9
<1>11. \A d \in lo + 1 .. top : d \in Range(new.history) => PendingStep(c[d - 1].pending, c[d].pending, d)
  BY <1>4, <1>9
<1> QED
  BY <1>7, <1>10, <1>11 DEF DueOK, left, h, before

\* The index follows a new block.
LEMMA AppendDue ==
  ASSUME NEW top \in Nat \ {0}, NEW lo \in Nat, lo <= top, NEW c,
         \A h \in {top, top + 1} : ViewOK(c[h], h),
         NEW entry, NEW due, DueOK(due, entry, c, top, lo),
         \A d \in Range(entry.history) : d \in 1 .. top,
         NEW block, block.height = top + 1, block.view = c[top + 1],
         "pending" \in block.writes => PendingStep(c[top].pending, c[top + 1].pending, top + 1),
         "pending" \notin block.writes => c[top + 1].pending = c[top].pending,
         NEW low \in Nat, lo <= low,
         NEW new,
         "pending" \notin block.writes => new = entry,
         "pending" \in block.writes => top + 1 \in Range(new.history),
         \A d \in low + 1 .. top : d \in Range(new.history) <=> d \in Range(entry.history)
  PROVE  DueOK(indexed(due, block), new, c, top + 1, low)
<1> DEFINE h == top + 1
           before == c[top].pending
           after == c[h].pending
           next == indexed(due, block)
           R == Range(entry.history)
           N == Range(new.history)
           written == "pending" \in block.writes
<1>1. /\ before.payoutAt \in Nat /\ after.payoutAt \in Nat
      /\ before # NoPending => before.payoutAt > top
      /\ after # NoPending => after.payoutAt > h
  BY DEF ViewOK, Views
<1>2. /\ h \in Nat /\ h > top /\ h - 1 = top
      /\ \A d \in low + 1 .. h : d = h \/ (d \in low + 1 .. top /\ d \in lo + 1 .. top /\ d \in 1 .. top /\ d < h)
  OBVIOUS
<1>3. /\ \A d \in Nat : d > top => (d \in due <=> before.payoutAt = d)
      /\ written => before.payoutAt = h \/ (before = NoPending /\ after # NoPending)
      /\ ~written => after = before
  BY DEF DueOK, PendingStep
<1>4. /\ \A d \in lo + 1 .. top :
           d \in due <=> d \in R /\ c[d].pending # NoPending /\ c[d - 1].pending.payoutAt = d
      /\ \A d \in lo + 1 .. top : d \in R => PendingStep(c[d - 1].pending, c[d].pending, d)
  BY DEF DueOK
<1>5. NoPending.payoutAt = 0
  BY DEF NoPending
<1>6. next = IF ~written THEN due ELSE IF after = NoPending THEN due \ {h} ELSE due \cup {after.payoutAt}
  BY DEF indexed
<1>7. h \in N <=> written
  BY DEF h
<1>8. \A d \in low + 1 .. top : d \in N <=> d \in R
  OBVIOUS
<1> HIDE DEF before, after, next, h, R, N, written
<1>9. \A d \in Nat : d > h => (d \in next <=> after.payoutAt = d)
  <2> SUFFICES ASSUME NEW d \in Nat, d > h PROVE d \in next <=> after.payoutAt = d
    OBVIOUS
  <2>1. d > top /\ d # h /\ (d \in due <=> before.payoutAt = d)
    BY <1>2, <1>3
  <2>2. CASE ~written
    BY <1>3, <1>6, <2>1, <2>2
  <2>3. CASE written /\ after = NoPending
    BY <1>3, <1>5, <1>6, <2>1, <2>3
  <2>4. CASE written /\ after # NoPending
    BY <1>3, <1>5, <1>6, <2>1, <2>4
  <2> QED
    BY <2>2, <2>3, <2>4
<1>10. h \in next <=> h \in N /\ after # NoPending /\ before.payoutAt = h
  <2>1. h \in due <=> before.payoutAt = h
    BY <1>2, <1>3
  <2>2. CASE ~written
    BY <1>1, <1>2, <1>3, <1>5, <1>6, <1>7, <2>1, <2>2
  <2>3. CASE written /\ after = NoPending
    BY <1>6, <1>7, <2>3
  <2>4. CASE written /\ after # NoPending
    BY <1>1, <1>2, <1>6, <1>7, <2>1, <2>4
  <2> QED
    BY <2>2, <2>3, <2>4
<1>11. ASSUME NEW d \in low + 1 .. h
       PROVE  d \in next <=> d \in N /\ c[d].pending # NoPending /\ c[d - 1].pending.payoutAt = d
  <2>1. CASE d = h
    BY <1>2, <1>10, <2>1 DEF before, after
  <2>2. CASE d # h
    <3>1. d \in low + 1 .. top /\ d \in lo + 1 .. top /\ d < h
      BY <1>2, <2>2
    <3>2. d \in next <=> d \in due
      BY <1>1, <1>2, <1>6, <3>1
    <3> QED
      BY <1>4, <1>8, <3>1, <3>2
  <2> QED
    BY <2>1, <2>2
<1>12. ASSUME NEW d \in low + 1 .. h, d \in N PROVE PendingStep(c[d - 1].pending, c[d].pending, d)
  <2>1. CASE d = h
    <3>1. PendingStep(before, after, h)
      BY <1>3, <1>7, <1>12, <2>1 DEF PendingStep
    <3> QED
      BY <1>2, <2>1, <3>1 DEF before, after
  <2>2. CASE d # h
    BY <1>2, <1>4, <1>8, <1>12, <2>2, SMTT(30)
  <2> QED
    BY <2>1, <2>2
<1> QED
  BY <1>9, <1>11, <1>12, SMTT(30) DEF DueOK, next, N, h, after

-----------------------------------------------------------------------------
(* The store of a block *)

\* The values of a family along a chain.
Course(c, f) == [h \in 1 .. Len(c) |-> c[h][f]]

\* The store after the block at height top: the four entries and the index.
StoreOK(led, due, c, top, lo) ==
  /\ \A f \in Families : KeyedOK(led[f], Course(c, f), top, lo, default(f))
  /\ DueOK(due, led["pending"], c, top, lo)

\* Undoing a block of the store.
LEMMA UndoStore ==
  ASSUME NEW top \in Nat \ {0}, NEW lo \in Nat \ {0}, lo <= top, NEW c \in Seq(Views), top + 1 <= Len(c),
         \A h \in 1 .. Len(c) : ViewOK(c[h], h),
         NEW led, NEW due, StoreOK(led, due, c, top + 1, lo)
  PROVE  StoreOK([f \in Families |-> rollbackKeyed(led[f], top + 1)], unindexed(due, led["pending"], top + 1), c, top, lo)
<1> DEFINE new == [f \in Families |-> rollbackKeyed(led[f], top + 1)]
           left == unindexed(due, led["pending"], top + 1)
<1>1. ASSUME NEW f \in Families
      PROVE  /\ KeyedOK(new[f], Course(c, f), top, lo, default(f))
             /\ top + 1 \in DOMAIN led[f].value => led[f].value[top + 1] = Course(c, f)[top + 1]
             /\ top + 1 \notin DOMAIN led[f].value => Course(c, f)[top + 1] = Course(c, f)[top]
             /\ \A d \in 1 .. top : d \in Range(new[f].history) <=> d \in Range(led[f].history)
  <2>1. KeyedOK(led[f], Course(c, f), top + 1, lo, default(f))
    BY DEF StoreOK
  <2>2. new[f] = rollbackKeyed(led[f], top + 1)
    OBVIOUS
  <2> HIDE DEF new
  <2> QED
    BY <2>1, <2>2, UndoKeyed
<1>2. "pending" \in Families
  BY DEF Families
<1>3. Course(c, "pending")[top] = c[top].pending /\ Course(c, "pending")[top + 1] = c[top + 1].pending
  <2>1. top \in 1 .. Len(c) /\ top + 1 \in 1 .. Len(c)
    OBVIOUS
  <2> QED
    BY <2>1 DEF Course
<1>4. \A h \in {top, top + 1} : ViewOK(c[h], h)
  OBVIOUS
<1>5. DueOK(due, led["pending"], c, top + 1, lo) /\ DOMAIN led["pending"].value = Range(led["pending"].history)
  BY <1>2, SMTT(30) DEF StoreOK, KeyedOK
<1> HIDE DEF new
<1> DEFINE was == led["pending"]
           now == new["pending"]
<1>6. /\ top + 1 \in DOMAIN was.value => was.value[top + 1] = c[top + 1].pending
      /\ top + 1 \notin DOMAIN was.value => c[top + 1].pending = c[top].pending
      /\ \A d \in 1 .. top : d \in Range(now.history) <=> d \in Range(was.history)
  BY <1>1, <1>2, <1>3
<1>7. DueOK(left, now, c, top, lo)
  <2>1. DueOK(due, was, c, top + 1, lo) /\ DOMAIN was.value = Range(was.history)
    BY <1>5, SMTT(30)
  <2> HIDE DEF was, now
  <2>2. DueOK(unindexed(due, was, top + 1), now, c, top, lo)
    BY <1>4, <1>6, <2>1, UndoDue, SMTT(30)
  <2> QED
    BY <2>2 DEF was
<1> QED
  BY <1>1, <1>7, SMTT(30) DEF StoreOK, new

\* What the liquid block, at height h, may have made of the view old.
LiquidOK(block, old, h) ==
  /\ block \in [height : Nat, view : Views, writes : SUBSET Families]
  /\ block.height = h
  /\ ViewOK(block.view, h)
  /\ \A f \in Families \ block.writes : block.view[f] = old[f]
  /\ "pending" \in block.writes => PendingStep(old.pending, block.view.pending, h)

\* Persisting a block in the store.
LEMMA AppendStore ==
  ASSUME NEW top \in Nat \ {0}, NEW lo \in Nat \ {0}, lo <= top, NEW c \in Seq(Views), Len(c) = top,
         \A h \in 1 .. top : ViewOK(c[h], h),
         NEW led, NEW due, StoreOK(led, due, c, top, lo),
         NEW block, LiquidOK(block, c[top], top + 1),
         NEW t \in Int, NEW low \in Nat, lo <= low, t <= low
  PROVE  StoreOK([f \in Families |-> IF f \in block.writes THEN writeKeyed(led[f], top + 1, t, block.view[f]) ELSE led[f]],
                 indexed(due, block), Append(c, block.view), top + 1, low)
<1> DEFINE new == [f \in Families |-> IF f \in block.writes THEN writeKeyed(led[f], top + 1, t, block.view[f]) ELSE led[f]]
           b == Append(c, block.view)
<1>1. /\ b \in Seq(Views) /\ Len(b) = top + 1 /\ b[top + 1] = block.view
      /\ \A h \in 1 .. top : b[h] = c[h]
  <2>1. block.view \in Views
    BY DEF LiquidOK
  <2> QED
    BY <2>1, SMTT(30)
<1>2. \A h \in 1 .. top + 1 : ViewOK(b[h], h)
  <2> HIDE DEF b
  <2>1. ViewOK(b[top + 1], top + 1)
    BY <1>1, SMTT(30) DEF LiquidOK
  <2> QED
    BY <1>1, <2>1
<1> HIDE DEF b
<1>3. ASSUME NEW f \in Families
      PROVE  /\ \A h \in lo .. top : Course(b, f)[h] = Course(c, f)[h]
             /\ Course(b, f)[top + 1] = block.view[f]
             /\ f \notin block.writes => Course(b, f)[top + 1] = Course(c, f)[top]
  <2>1. \A h \in 1 .. top : Course(b, f)[h] = c[h][f] /\ Course(c, f)[h] = c[h][f]
    BY <1>1 DEF Course
  <2>2. Course(b, f)[top + 1] = block.view[f]
    BY <1>1 DEF Course
  <2>3. f \notin block.writes => block.view[f] = c[top][f]
    BY DEF LiquidOK
  <2> QED
    BY <2>1, <2>2, <2>3
<1>4. ASSUME NEW f \in Families
      PROVE  /\ KeyedOK(new[f], Course(b, f), top + 1, low, default(f))
             /\ f \in block.writes => top + 1 \in Range(new[f].history)
             /\ \A d \in low + 1 .. top : d \in Range(new[f].history) <=> d \in Range(led[f].history)
  <2>1. KeyedOK(led[f], Course(c, f), top, lo, default(f))
    BY DEF StoreOK
  <2>2. CASE f \notin block.writes
    <3>1. new[f] = led[f]
      BY <2>2, SMTT(30)
    <3> HIDE DEF new
    <3>2. KeyedOK(led[f], Course(b, f), top + 1, low, default(f))
      BY <1>3, <2>1, <2>2, SkipKeyed, SMTT(30)
    <3> QED
      BY <2>2, <3>1, <3>2
  <2>3. CASE f \in block.writes
    <3>1. new[f] = writeKeyed(led[f], top + 1, t, Course(b, f)[top + 1])
      BY <1>3, <2>3
    <3> HIDE DEF new
    <3>2. /\ KeyedOK(new[f], Course(b, f), top + 1, low, default(f))
          /\ top + 1 \in Range(new[f].history)
          /\ \A d \in 1 .. top : d >= t => (d \in Range(new[f].history) <=> d \in Range(led[f].history))
      <4> DEFINE W == Course(b, f)
                 V == Course(c, f)
                 entry == led[f]
                 missing == default(f)
      <4>1. KeyedOK(entry, V, top, lo, missing) /\ \A h \in lo .. top : W[h] = V[h]
        BY <1>3, <2>1
      <4>2. new[f] = writeKeyed(entry, top + 1, t, W[top + 1])
        BY <3>1, SMTT(30)
      <4> HIDE DEF W, V, entry, missing
      <4>3. /\ KeyedOK(new[f], W, top + 1, low, missing)
            /\ top + 1 \in Range(new[f].history)
            /\ \A d \in 1 .. top : d >= t => (d \in Range(new[f].history) <=> d \in Range(entry.history))
        <5>1. /\ KeyedOK(writeKeyed(entry, top + 1, t, W[top + 1]), W, top + 1, low, missing)
              /\ top + 1 \in Range(writeKeyed(entry, top + 1, t, W[top + 1]).history)
              /\ \A d \in 1 .. top :
                   d >= t => (d \in Range(writeKeyed(entry, top + 1, t, W[top + 1]).history) <=> d \in Range(entry.history))
          <6>1. WriteFits(entry, V, W, top, lo, low, t, missing)
            BY <4>1 DEF WriteFits
          <6> QED
            BY <6>1, WriteKeyed
        <5> QED
          BY <4>2, <5>1, SMTT(30)
      <4> QED
        BY <4>3, SMTT(30) DEF W, entry, missing
    <3>3. \A d \in low + 1 .. top : d \in 1 .. top /\ d >= t
      OBVIOUS
    <3> QED
      BY <3>2, <3>3
  <2> QED
    BY <2>2, <2>3, Zenon
<1>5. "pending" \in Families
  BY DEF Families
<1> DEFINE was == led["pending"]
           now == new["pending"]
<1>6. \A d \in Range(was.history) : d \in 1 .. top
  <2>1. HistoryOK(was.history, top)
    BY <1>5, SMTT(30) DEF StoreOK, KeyedOK
  <2>2. was.history \in Seq(Nat) /\ \A i \in 1 .. Len(was.history) : was.history[i] \in 1 .. top
    BY <2>1 DEF HistoryOK
  <2> HIDE DEF was
  <2> QED
    BY <2>2, InRange
<1>7. DueOK(indexed(due, block), now, b, top + 1, low)
  <2>1. DueOK(due, was, c, top, lo)
    BY SMTT(30) DEF StoreOK
  <2>2. DueOK(due, was, b, top, lo)
    <3> HIDE DEF was
    <3>1. \A d \in lo + 1 .. top : b[d] = c[d] /\ b[d - 1] = c[d - 1]
      BY <1>1
    <3>2. b[top] = c[top]
      BY <1>1
    <3> QED
      BY <2>1, <3>1, <3>2, Zenon DEF DueOK
  <2>3. /\ "pending" \notin block.writes => now = was
        /\ "pending" \in block.writes => top + 1 \in Range(now.history)
        /\ \A d \in low + 1 .. top : d \in Range(now.history) <=> d \in Range(was.history)
    BY <1>4, <1>5, Zenon
  <2>4. /\ block.height = top + 1
        /\ block.view = b[top + 1]
        /\ "pending" \in block.writes => PendingStep(b[top].pending, b[top + 1].pending, top + 1)
        /\ "pending" \notin block.writes => b[top + 1].pending = b[top].pending
    <3>1. b[top] = c[top]
      BY <1>1
    <3> QED
      BY <1>1, <1>5, <3>1 DEF LiquidOK
  <2>5. \A h \in {top, top + 1} : ViewOK(b[h], h)
    BY <1>2
  <2> HIDE DEF was, now
  <2> QED
    BY <1>6, <2>2, <2>3, <2>4, <2>5, AppendDue, Zenon
<1> QED
  BY <1>4, <1>7 DEF StoreOK, b, new

-----------------------------------------------------------------------------
(* doRollback *)

\* What the undoing of the block at height h makes of a store.
UndoneBlock(store, h) ==
  [ledger |-> [f \in Families |-> rollbackKeyed(store.ledger[f], h)],
   due    |-> unindexed(store.due, store.ledger["pending"], h)]

\* A function that says what the store is at each height while blocks are undone.
Undoes(u, target) ==
  u = [h \in target .. height |->
         IF h = height THEN [ledger |-> ledger, due |-> withdrawalDue] ELSE UndoneBlock(u[h + 1], h + 1)]

\* doRollback as its recursive function.
LEMMA RollbackIs == \A target : doRollback(target) = (CHOOSE u : Undoes(u, target))[target]
BY DEF doRollback, Undoes, UndoneBlock

\* Such a function goes from block to block.
LEMMA UndoesAt ==
  ASSUME height \in Nat, NEW target \in Nat, NEW u, Undoes(u, target)
  PROVE  \A h \in target .. height :
           u[h] = IF h = height THEN [ledger |-> ledger, due |-> withdrawalDue] ELSE UndoneBlock(u[h + 1], h + 1)
<1> DEFINE G(g) == [h \in target .. height |->
                      IF h = height THEN [ledger |-> ledger, due |-> withdrawalDue] ELSE UndoneBlock(g[h + 1], h + 1)]
<1>1. u = G(u)
  BY DEF Undoes
<1>2. \A h \in target .. height :
        G(u)[h] = IF h = height THEN [ledger |-> ledger, due |-> withdrawalDue] ELSE UndoneBlock(u[h + 1], h + 1)
  OBVIOUS
<1> HIDE DEF G
<1> QED
  BY <1>1, <1>2

\* There is one, down to any target.
LEMMA UndoesExist ==
  ASSUME height \in Nat, NEW target \in Nat, target <= height
  PROVE  \E u : Undoes(u, target)
<1> DEFINE Good(n) == \E u : Undoes(u, height - n)
           Bad == {n \in Nat : n <= height /\ ~Good(n)}
           start == [ledger |-> ledger, due |-> withdrawalDue]
<1>1. Bad \in SUBSET Nat
  OBVIOUS
<1>2. Good(0)
  <2> DEFINE u == [h \in height .. height |-> start]
  <2>1. u = [h \in height .. height |-> IF h = height THEN start ELSE UndoneBlock(u[h + 1], h + 1)]
    OBVIOUS
  <2>2. height - 0 = height
    OBVIOUS
  <2> HIDE DEF u
  <2>3. Undoes(u, height)
    BY <2>1 DEF Undoes
  <2> QED
    BY <2>2, <2>3
<1>3. ASSUME NEW n \in Nat, n # 0, n <= height, Good(n - 1) PROVE Good(n)
  <2> DEFINE t == height - n
             k == t + 1
  <2>1. t \in Nat /\ k \in Nat /\ t < height /\ k = height - (n - 1)
    BY <1>3
  <2>2. PICK u : Undoes(u, k)
    BY <1>3, <2>1
  <2> HIDE DEF t
  <2> DEFINE w == [h \in t .. height |-> IF h = t THEN UndoneBlock(u[k], k) ELSE u[h]]
  <2>3. \A h \in k .. height : u[h] = IF h = height THEN start ELSE UndoneBlock(u[h + 1], h + 1)
    <3> HIDE DEF k
    <3> QED
      BY <2>1, <2>2, UndoesAt
  <2>4. /\ w[t] = UndoneBlock(u[k], k)
        /\ \A h \in k .. height : w[h] = u[h]
        /\ w = [h \in t .. height |-> w[h]]
    BY <2>1
  <2> HIDE DEF w
  <2>5. ASSUME NEW h \in t .. height PROVE w[h] = IF h = height THEN start ELSE UndoneBlock(w[h + 1], h + 1)
    <3>1. CASE h = t
      <4>1. h # height /\ h + 1 = k /\ k \in k .. height
        BY <2>1, <3>1
      <4> QED
        BY <2>4, <3>1, <4>1
    <3>2. CASE h # t
      <4>1. h \in k .. height /\ (h # height => h + 1 \in k .. height)
        BY <2>1, <3>2
      <4> QED
        BY <2>3, <2>4, <4>1, Zenon
    <3> QED
      BY <3>1, <3>2
  <2>6. Undoes(w, t)
    BY <2>4, <2>5, Zenon DEF Undoes
  <2> QED
    BY <2>6 DEF t
<1> HIDE DEF Good
<1>4. Bad = {}
  <2> SUFFICES ASSUME Bad # {} PROVE FALSE
    OBVIOUS
  <2>1. PICK n \in Bad : \A m \in Bad : n <= m
    <3> HIDE DEF Bad
    <3> QED
      BY <1>1, LeastNat
  <2>2. n \in Nat /\ n <= height /\ ~Good(n) /\ n # 0
    BY <1>2
  <2>3. n - 1 \in Nat /\ n - 1 \notin Bad /\ n - 1 <= height
    BY <2>1, <2>2
  <2> QED
    BY <1>3, <2>2, <2>3
<1> DEFINE n == height - target
<1>5. n \in Nat /\ n <= height /\ height - n = target
  OBVIOUS
<1>6. Good(n)
  BY <1>4, <1>5
<1> QED
  BY <1>5, <1>6 DEF Good

ChainOK ==
  /\ height \in Nat \ {0} /\ safeRollbackHeight \in Nat \ {0} /\ safeRollbackHeight <= height
  /\ chain \in Seq(Views) /\ Len(chain) = height
  /\ \A h \in 1 .. height : ViewOK(chain[h], h)

\* The store that a rollback leaves is the one after the target block.
LEMMA RollbackStore ==
  ASSUME ChainOK, StoreOK(ledger, withdrawalDue, chain, height, safeRollbackHeight),
         NEW target \in Nat, safeRollbackHeight <= target, target <= height
  PROVE  StoreOK(doRollback(target).ledger, doRollback(target).due, chain, target, safeRollbackHeight)
<1> DEFINE u == CHOOSE u : Undoes(u, target)
           lo == safeRollbackHeight
           Good(n) == StoreOK(u[height - n].ledger, u[height - n].due, chain, height - n, lo)
           Bad == {n \in Nat : n <= height - target /\ ~Good(n)}
<1>0. height \in Nat \ {0} /\ lo \in Nat \ {0} /\ chain \in Seq(Views) /\ Len(chain) = height
  BY DEF ChainOK
<1>1. \E w : Undoes(w, target)
  BY <1>0, UndoesExist
<1>2. Undoes(u, target) /\ doRollback(target) = u[target]
  BY <1>1, RollbackIs
<1>3. \A h \in target .. height :
        u[h] = IF h = height THEN [ledger |-> ledger, due |-> withdrawalDue] ELSE UndoneBlock(u[h + 1], h + 1)
  BY <1>0, <1>2, UndoesAt
<1> HIDE DEF u
<1>4. Bad \in SUBSET Nat
  OBVIOUS
<1>5. Good(0)
  <2>1. height - 0 = height /\ height \in target .. height
    BY <1>0
  <2>2. u[height].ledger = ledger /\ u[height].due = withdrawalDue
    BY <1>3, <2>1
  <2> QED
    BY <2>1, <2>2
<1>6. ASSUME NEW n \in Nat, n # 0, n <= height - target, Good(n - 1) PROVE Good(n)
  <2> DEFINE top == height - n
             led == u[top + 1].ledger
             due == u[top + 1].due
  <2>1. top \in Nat \ {0} /\ lo <= top /\ top + 1 <= Len(chain) /\ top \in target .. height /\ top # height /\ height - (n - 1) = top + 1
    BY <1>0, <1>6
  <2>2. StoreOK(led, due, chain, top + 1, lo)
    BY <1>6, <2>1
  <2>3. u[top] = UndoneBlock(u[top + 1], top + 1)
    BY <1>3, <2>1
  <2> HIDE DEF top
  <2>4. /\ u[top].ledger = [f \in Families |-> rollbackKeyed(led[f], top + 1)]
        /\ u[top].due = unindexed(due, led["pending"], top + 1)
    BY <2>3 DEF UndoneBlock
  <2> HIDE DEF led, due, lo
  <2>5. \A h \in 1 .. Len(chain) : ViewOK(chain[h], h)
    BY <1>0 DEF ChainOK
  <2>6. StoreOK(u[top].ledger, u[top].due, chain, top, lo)
    BY <1>0, <2>1, <2>2, <2>4, <2>5, UndoStore, SMTT(30)
  <2> QED
    BY <2>6 DEF top
<1> HIDE DEF Good
<1>7. Bad = {}
  <2> SUFFICES ASSUME Bad # {} PROVE FALSE
    OBVIOUS
  <2>1. PICK n \in Bad : \A m \in Bad : n <= m
    <3> HIDE DEF Bad
    <3> QED
      BY <1>4, LeastNat
  <2>2. n \in Nat /\ n <= height - target /\ ~Good(n) /\ n # 0
    BY <1>5
  <2>3. n - 1 \in Nat /\ n - 1 \notin Bad /\ n - 1 <= height - target
    BY <1>0, <2>1, <2>2
  <2> QED
    BY <1>6, <2>2, <2>3
<1> DEFINE n == height - target
<1>8. n \in Nat /\ n <= height - target /\ height - n = target
  BY <1>0
<1>9. Good(n)
  BY <1>7, <1>8
<1> QED
  BY <1>2, <1>8, <1>9 DEF Good

\* The inductive invariant: the chain, the store at every height it can return to,
\* and the liquid block, which the next key block persists
ReserveInv ==
  /\ ChainOK
  /\ StoreOK(ledger, withdrawalDue, chain, height, safeRollbackHeight)
  /\ liquid # NoBlock => LiquidOK(liquid, chain[height], height + 1)

-----------------------------------------------------------------------------
(* Arithmetic *)

\* The payout of a request made at height h is due later, at the start of a period.
LEMMA PayoutLater ==
  ASSUME NEW h \in Nat \ {0}
  PROVE  LET p == nextPeriod(nextPeriod(periodOf(h)))
         IN  p \in Nat /\ p > h /\ isPeriodStart(p)
<1> DEFINE P == PeriodLength
           x == (h - 1) \div P
           y == x + 2
           p == nextPeriod(nextPeriod(periodOf(h)))
<1>1. P \in Nat /\ P > 0
  BY PeriodAssumption
<1>2. x \in Nat
  BY <1>1
<1>3. h - 1 < P * x + P
  BY <1>1
<1>4. p = x * P + 1 + P + P
  BY DEF nextPeriod, periodOf
<1> HIDE DEF x, p
<1>5. p = y * P + 1 /\ y \in Nat
  BY <1>1, <1>2, <1>4
<1> HIDE DEF y
<1>6. y * P \in Nat /\ (y * P) \div P = y
  BY <1>1, <1>5
<1>7. periodOf(p) = p
  <2>1. p - 1 = y * P
    BY <1>5, <1>6
  <2> QED
    BY <1>5, <1>6, <2>1 DEF periodOf
<1>8. p > h
  BY <1>1, <1>2, <1>3, <1>4
<1> QED
  BY <1>5, <1>6, <1>7, <1>8 DEF isPeriodStart, p

\* The share of a settlement keeps the sum within the share of the counter.
LEMMA ShareBounded ==
  ASSUME NEW k \in {3, 6}, NEW exact \in BOOLEAN, NEW old \in Nat, NEW new \in Nat, old <= new,
         NEW m \in Nat, m <= floorOf(<<k, 10>>, old)
  PROVE  /\ m + share(<<k, 10>>, exact, old, new) \in Nat
         /\ m + share(<<k, 10>>, exact, old, new) <= floorOf(<<k, 10>>, new)
<1> DEFINE a == (old * k) \div 10
           b == (new * k) \div 10
           d == new - old
           q == d \div 10
<1>1. floorOf(<<k, 10>>, old) = a /\ floorOf(<<k, 10>>, new) = b /\ Fraction(<<k, 10>>, d) = q * k
  BY DEF floorOf, Fraction
<1>2. share(<<k, 10>>, exact, old, new) = IF exact THEN b - a ELSE q * k
  BY <1>1 DEF share
<1>3. /\ a \in Nat /\ 10 * a <= old * k /\ old * k < 10 * a + 10
      /\ b \in Nat /\ 10 * b <= new * k /\ new * k < 10 * b + 10
      /\ q \in Nat /\ 10 * q <= d
  OBVIOUS
<1> HIDE DEF a, b, q
<1>4. a <= b /\ a + q * k <= b
  <2>1. CASE k = 3
    BY <1>3, <2>1
  <2>2. CASE k = 6
    BY <1>3, <2>2
  <2> QED
    BY <2>1, <2>2
<1>5. q * k \in Nat
  BY <1>3
<1> QED
  BY <1>1, <1>2, <1>3, <1>4, <1>5

-----------------------------------------------------------------------------
(* Reads *)

\* A view read from the store is the last one of the chain.
LEMMA StoredIsLast ==
  ASSUME ReserveInv
  PROVE  storedView = chain[height]
<1>1. /\ height \in Nat \ {0} /\ safeRollbackHeight \in Nat /\ safeRollbackHeight <= height
      /\ Len(chain) = height /\ chain[height] \in Views
  BY SMTT(30) DEF ReserveInv, ChainOK, ViewOK
<1>2. ASSUME NEW f \in Families PROVE fromHistory(ledger[f], default(f)) = chain[height][f]
  <2>1. KeyedOK(ledger[f], Course(chain, f), height, safeRollbackHeight, default(f))
    BY DEF ReserveInv, StoreOK
  <2>2. fromHistory(ledger[f], default(f)) = Course(chain, f)[height]
    BY <1>1, <2>1, ReadKeyed
  <2>3. Course(chain, f)[height] = chain[height][f]
    BY <1>1 DEF Course
  <2> QED
    BY <2>2, <2>3
<1>3. storedView = [f \in DOMAIN EmptyView |-> chain[height][f]]
  BY <1>2 DEF storedView
<1> DEFINE v == chain[height]
<1>4. v = [f \in DOMAIN EmptyView |-> v[f]]
  <2> HIDE DEF v
  <2>1. v \in Views
    BY <1>1 DEF v
  <2>2. DOMAIN v = DOMAIN EmptyView /\ v = [f \in DOMAIN v |-> v[f]]
    BY <2>1 DEF Views, EmptyView
  <2> QED
    BY <2>2
<1> QED
  BY <1>3, <1>4, SMTT(30)

\* The view transactions and payouts start from, and its height.
LEMMA TipView ==
  ASSUME ReserveInv
  PROVE  /\ liquid = NoBlock => tip = chain[height] /\ tipHeight = height
         /\ liquid # NoBlock => tip = liquid.view /\ tipHeight = height + 1
         /\ tipHeight \in Nat \ {0}
         /\ ViewOK(tip, tipHeight)
<1>1. height \in Nat \ {0} /\ ViewOK(chain[height], height)
  BY DEF ReserveInv, ChainOK
<1>2. CASE liquid = NoBlock
  BY <1>1, <1>2, StoredIsLast DEF tip, tipHeight
<1>3. CASE liquid # NoBlock
  <2>1. liquid.height = height + 1 /\ ViewOK(liquid.view, height + 1)
    BY <1>3 DEF ReserveInv, LiquidOK
  <2> QED
    BY <1>1, <1>3, <2>1 DEF tip, tipHeight
<1> QED
  BY <1>2, <1>3

\* A request due at the next height is found there.
LEMMA DueFound ==
  ASSUME ReserveInv, tip.pending.payoutAt = tipHeight + 1
  PROVE  isPeriodStart(tipHeight + 1) /\ isWithdrawalDue(tipHeight + 1)
<1> DEFINE h == tipHeight + 1
<1>1. tipHeight \in Nat \ {0} /\ h \in Nat /\ ViewOK(tip, tipHeight) /\ height \in Nat \ {0}
  BY TipView DEF ReserveInv, ChainOK
<1>2. tip.pending # NoPending
  BY <1>1 DEF NoPending
<1>3. isPeriodStart(h)
  BY <1>1, <1>2 DEF ViewOK
<1>4. \A d \in Nat : d > height => (d \in withdrawalDue <=> chain[height].pending.payoutAt = d)
  BY DEF ReserveInv, StoreOK, DueOK
<1>5. CASE liquid = NoBlock
  <2>1. tip = chain[height] /\ h = height + 1
    BY <1>5, TipView
  <2>2. h \in withdrawalDue
    BY <1>1, <1>4, <2>1
  <2>3. liquid.writes = {}
    BY <1>5 DEF NoBlock
  <2> QED
    BY <1>3, <2>2, <2>3 DEF isWithdrawalDue
<1>6. CASE liquid # NoBlock
  <2>1. tip = liquid.view /\ h = height + 2
    BY <1>1, <1>6, TipView
  <2>2. CASE "pending" \in liquid.writes
    BY <1>3, <2>1, <2>2 DEF isWithdrawalDue
  <2>3. CASE "pending" \notin liquid.writes
    <3>1. liquid.view.pending = chain[height].pending
      BY <1>6, <2>3 DEF ReserveInv, LiquidOK, Families
    <3>2. h \in withdrawalDue
      BY <1>1, <1>4, <2>1, <3>1
    <3> QED
      BY <1>3, <2>3, <3>2 DEF isWithdrawalDue
  <2> QED
    BY <2>2, <2>3
<1> QED
  BY <1>5, <1>6

\* The block that starts at the next height pays what is due there, and no request
\* stays behind.
LEMMA PaidOut ==
  ASSUME ReserveInv
  PROVE  LiquidOK(paidOut(tipHeight + 1), tip, tipHeight + 1)
<1> DEFINE h == tipHeight + 1
           v == tip
           block == paidOut(h)
<1>1. tipHeight \in Nat \ {0} /\ h \in Nat /\ h = tipHeight + 1
  BY TipView
<1>2. v \in Views /\ Covered(v) /\ Bounded(v)
  BY TipView DEF ViewOK
<1>3. v.pending # NoPending => v.pending.payoutAt > tipHeight /\ isPeriodStart(v.pending.payoutAt)
  BY TipView DEF ViewOK
<1>4. v.pending.payoutAt = h => isPeriodStart(h) /\ isWithdrawalDue(h)
  BY DueFound
<1>5. CASE isPeriodStart(h) /\ isWithdrawalDue(h) /\ v.pending.payoutAt = h
  <2> DEFINE p == payable(v)
             w == [v EXCEPT !.client = @ + p, !.withdrawn = @ + p, !.pending = NoPending]
             W == {"pending"} \cup (IF p > 0 THEN {"withdrawn"} ELSE {})
  <2>1. block = [height |-> h, view |-> w, writes |-> W]
    BY <1>5 DEF paidOut
  <2>2. p \in Nat /\ p <= unsettledAmount(v) /\ unsettledAmount(v) \in Int
    BY <1>2 DEF payable, MinOf, unsettledAmount, settleableAmount, Views, Covered
  <2> HIDE DEF p, v, h, block
  <2>3. /\ w \in Views
        /\ w.client = v.client + p /\ w.withdrawn = v.withdrawn + p /\ w.pending = NoPending
        /\ w.reserved = v.reserved /\ w.settled = v.settled /\ w.miner = v.miner /\ w.work = v.work
    <3>1. NoPending \in [amount : Nat, payoutAt : Nat]
      BY DEF NoPending
    <3> HIDE DEF NoPending
    <3>2. v.client + p \in Nat /\ v.withdrawn + p \in Nat
      BY <1>2, <2>2 DEF Views
    <3>3. w \in Views
      BY <1>2, <3>1, <3>2, Zenon DEF Views
    <3> QED
      BY <1>2, <3>3 DEF Views
  <2>4. Covered(w)
    <3> HIDE DEF w
    <3> QED
      BY <1>2, <2>2, <2>3 DEF Covered, unsettledAmount, settleableAmount, Views
  <2>5. Bounded(w)
    <3> HIDE DEF w
    <3> QED
      BY <1>2, <2>3 DEF Bounded
  <2>6. ViewOK(w, h)
    <3> HIDE DEF w
    <3> QED
      BY <2>3, <2>4, <2>5 DEF ViewOK
  <2>7. ASSUME NEW f \in Families \ W PROVE w[f] = v[f]
    <3>1. f = "reserved" \/ f = "settled" \/ (f = "withdrawn" /\ p = 0)
      BY <2>2 DEF Families
    <3> HIDE DEF w
    <3>2. CASE f = "reserved"
      BY <2>3, <3>2
    <3>3. CASE f = "settled"
      BY <2>3, <3>3
    <3>4. CASE f = "withdrawn" /\ p = 0
      <4>1. v.withdrawn \in Nat
        BY <1>2 DEF Views
      <4> QED
        BY <2>3, <3>4, <4>1
    <3> QED
      BY <3>1, <3>2, <3>3, <3>4
  <2>8. PendingStep(v.pending, w.pending, h)
    BY <1>5 DEF PendingStep
  <2>9. W \subseteq Families
    BY DEF Families
  <2> HIDE DEF w, W
  <2>10. block \in [height : Nat, view : Views, writes : SUBSET Families]
    BY <1>1, <2>1, <2>3, <2>9
  <2> QED
    BY <2>1, <2>6, <2>7, <2>8, <2>10 DEF LiquidOK, block, v, h
<1>6. CASE ~(isPeriodStart(h) /\ isWithdrawalDue(h) /\ v.pending.payoutAt = h)
  <2>1. block = [height |-> h, view |-> v, writes |-> {}]
    BY <1>6 DEF paidOut
  <2>2. v.pending.payoutAt \in Nat
    BY <1>2 DEF Views
  <2> HIDE DEF v, h, block
  <2>3. ViewOK(v, h)
    BY <1>1, <1>2, <1>3, <1>4, <1>6, <2>2, SMTT(30) DEF ViewOK
  <2> QED
    BY <1>1, <1>2, <2>1, <2>3 DEF LiquidOK, block, v, h
<1> QED
  BY <1>5, <1>6

-----------------------------------------------------------------------------
(* Steps *)

\* A transaction that changes some families of the liquid block.
LEMMA ApplyInv ==
  ASSUME ReserveInv, liquid # NoBlock, NEW view, NEW families \in SUBSET Families, Apply(view, families),
         ViewOK(view, height + 1),
         \A f \in Families \ families : view[f] = liquid.view[f],
         "pending" \in families => liquid.view.pending = NoPending /\ view.pending # NoPending
  PROVE  ReserveInv'
<1> DEFINE old == chain[height]
           h == height + 1
<1>1. LiquidOK(liquid, old, h)
  BY DEF ReserveInv
<1>2. liquid' = [liquid EXCEPT !.view = view, !.writes = @ \cup families] /\ UNCHANGED storeVars
  BY SMTT(30) DEF Apply
<1>3. liquid \in [height : Nat, view : Views, writes : SUBSET Families] /\ view \in Views
  BY <1>1 DEF LiquidOK, ViewOK
<1>4. /\ liquid' \in [height : Nat, view : Views, writes : SUBSET Families]
      /\ liquid'.height = liquid.height /\ liquid'.view = view /\ liquid'.writes = liquid.writes \cup families
  <2> HIDE DEF Views, Families
  <2> QED
    BY <1>2, <1>3, Zenon
<1>5. \A f \in Families \ liquid'.writes : view[f] = old[f]
  BY <1>1, <1>4, SMTT(30) DEF LiquidOK
<1>6. ASSUME "pending" \in liquid'.writes PROVE PendingStep(old.pending, view.pending, h)
  <2>1. CASE "pending" \in families
    <3>1. CASE "pending" \in liquid.writes
      BY <1>1, <2>1, <3>1, SMTT(30) DEF LiquidOK, PendingStep
    <3>2. CASE "pending" \notin liquid.writes
      <4>1. liquid.view.pending = old.pending
        BY <1>1, <3>2 DEF LiquidOK, Families
      <4> QED
        BY <2>1, <4>1 DEF PendingStep
    <3> QED
      BY <3>1, <3>2, SMTT(30)
  <2>2. CASE "pending" \notin families
    <3>1. "pending" \in liquid.writes
      BY <1>4, <1>6, <2>2
    <3>2. view.pending = liquid.view.pending
      BY <2>2, SMTT(30) DEF Families
    <3> QED
      BY <1>1, <3>1, <3>2 DEF LiquidOK
  <2> QED
    BY <2>1, <2>2
<1> HIDE DEF old, h
<1>7. LiquidOK(liquid', old, h)
  BY <1>1, <1>4, <1>5, <1>6 DEF LiquidOK, h
<1>8. UNCHANGED <<height, safeRollbackHeight, chain, ledger, withdrawalDue>>
  BY <1>2 DEF storeVars
<1>9. ChainOK' /\ StoreOK(ledger, withdrawalDue, chain, height, safeRollbackHeight)'
  BY <1>8, Zenon DEF ReserveInv, ChainOK, StoreOK
<1>10. LiquidOK(liquid', chain'[height'], height' + 1)
  BY <1>7, <1>8, SMTT(30) DEF old, h
<1> QED
  BY <1>9, <1>10 DEF ReserveInv, LiquidOK

\* Reserve moves an amount from the client to the reservation.
LEMMA ReserveStep == ASSUME ReserveInv, NEW amount \in Amounts, Reserve(amount) PROVE ReserveInv'
<1> DEFINE v == tip
           w == [v EXCEPT !.client = @ - amount, !.reserved = @ + amount]
<1>1. liquid # NoBlock /\ amount <= v.client /\ Apply(w, {"reserved"})
  BY DEF Reserve
<1>2. ViewOK(v, height + 1) /\ v = liquid.view
  BY <1>1, TipView
<1>3. amount \in Nat
  BY ReserveAssumption
<1> HIDE DEF v
<1>4. v \in Views
  BY <1>2 DEF ViewOK
<1>5. v.client - amount \in Nat /\ v.reserved + amount \in Nat
  BY <1>1, <1>3, <1>4 DEF Views
<1>6. w \in Views
  BY <1>4, <1>5, Zenon DEF Views
<1>7. /\ w.client = v.client - amount /\ w.reserved = v.reserved + amount
      /\ w.settled = v.settled /\ w.withdrawn = v.withdrawn /\ w.pending = v.pending
      /\ w.miner = v.miner /\ w.work = v.work
  BY <1>4 DEF Views
<1> HIDE DEF w
<1>8. ViewOK(w, height + 1)
  <2>1. Covered(w)
    BY <1>2, <1>3, <1>4, <1>7 DEF ViewOK, Covered, Views
  <2> QED
    BY <1>2, <1>6, <1>7, <2>1 DEF ViewOK, Bounded
<1>9. \A f \in Families \ {"reserved"} : w[f] = liquid.view[f]
  BY <1>2, <1>7 DEF Families
<1>10. {"reserved"} \in SUBSET Families
  BY DEF Families
<1> QED
  BY <1>1, <1>8, <1>9, <1>10, ApplyInv

\* Withdraw takes a request for the period after next.
LEMMA WithdrawStep == ASSUME ReserveInv, NEW amount \in Amounts, Withdraw(amount) PROVE ReserveInv'
<1> DEFINE v == tip
           at == nextPeriod(nextPeriod(periodOf(tipHeight)))
           request == [amount |-> amount, payoutAt |-> at]
           w == [v EXCEPT !.pending = request]
<1>1. liquid # NoBlock /\ v.pending = NoPending /\ Apply(w, {"pending"})
  BY DEF Withdraw
<1>2. ViewOK(v, height + 1) /\ v = liquid.view /\ tipHeight = height + 1 /\ tipHeight \in Nat \ {0}
  BY <1>1, TipView
<1>3. amount \in Nat
  BY ReserveAssumption
<1>4. at \in Nat /\ at > height + 1 /\ isPeriodStart(at)
  BY <1>2, PayoutLater
<1> HIDE DEF v, at
<1>5. request \in [amount : Nat, payoutAt : Nat] /\ request.payoutAt = at
  BY <1>3, <1>4
<1>6. request # NoPending
  BY <1>2, <1>4, <1>5 DEF NoPending
<1> HIDE DEF request
<1>7. v \in Views
  BY <1>2 DEF ViewOK
<1>8. w \in Views
  BY <1>5, <1>7 DEF Views
<1>9. /\ w.client = v.client /\ w.reserved = v.reserved
      /\ w.settled = v.settled /\ w.withdrawn = v.withdrawn /\ w.pending = request
      /\ w.miner = v.miner /\ w.work = v.work
  BY <1>7, SMTT(30) DEF Views
<1> HIDE DEF w
<1>10. ViewOK(w, height + 1)
  BY <1>2, <1>4, <1>5, <1>8, <1>9, SMTT(30) DEF ViewOK, Covered, Bounded
<1>11. \A f \in Families \ {"pending"} : w[f] = liquid.view[f]
  BY <1>2, <1>9 DEF Families
<1>12. {"pending"} \in SUBSET Families
  BY DEF Families
<1> QED
  BY <1>1, <1>2, <1>6, <1>9, <1>10, <1>11, <1>12, ApplyInv

\* Settle raises the counter and pays the shares of it.
LEMMA SettleStep == ASSUME ReserveInv, NEW counter \in Counters, Settle(counter) PROVE ReserveInv'
<1> DEFINE v == tip
           exact == tipHeight >= exactSettleSplitHeight
           toMiner == share(ServingNodeCredPart, exact, v.settled, counter)
           toWork == share(BurnedWorkPart, exact, v.settled, counter)
           w == [v EXCEPT !.settled = counter, !.miner = @ + toMiner, !.work = @ + toWork]
<1>1. liquid # NoBlock /\ counter >= v.settled /\ counter <= settleableAmount(v) /\ Apply(w, {"settled"})
  BY DEF Settle
<1>2. ViewOK(v, height + 1) /\ v = liquid.view
  BY <1>1, TipView
<1>3. counter \in Nat
  BY ReserveAssumption
<1>4. exact \in BOOLEAN
  OBVIOUS
<1> HIDE DEF v, exact
<1>5. v \in Views /\ Covered(v) /\ Bounded(v)
  BY <1>2 DEF ViewOK
<1>6. v.settled \in Nat /\ v.miner \in Nat /\ v.work \in Nat /\ v.settled <= counter
  BY <1>1, <1>3, <1>5 DEF Views
<1>7. v.miner + toMiner \in Nat /\ v.miner + toMiner <= floorOf(ServingNodeCredPart, counter)
  BY <1>3, <1>4, <1>5, <1>6, ShareBounded DEF Bounded, ServingNodeCredPart
<1>8. v.work + toWork \in Nat /\ v.work + toWork <= floorOf(BurnedWorkPart, counter)
  BY <1>3, <1>4, <1>5, <1>6, ShareBounded DEF Bounded, BurnedWorkPart
<1> HIDE DEF toMiner, toWork
<1>9. w \in Views
  BY <1>3, <1>5, <1>7, <1>8, Zenon DEF Views
<1>10. /\ w.client = v.client /\ w.reserved = v.reserved
       /\ w.settled = counter /\ w.withdrawn = v.withdrawn /\ w.pending = v.pending
       /\ w.miner = v.miner + toMiner /\ w.work = v.work + toWork
  BY <1>5 DEF Views
<1> HIDE DEF w
<1>11. ViewOK(w, height + 1)
  <2>1. Covered(w)
    BY <1>1, <1>3, <1>5, <1>10, SMTT(30) DEF Covered, settleableAmount, Views
  <2>2. Bounded(w)
    BY <1>7, <1>8, <1>10, SMTT(30) DEF Bounded
  <2> QED
    BY <1>2, <1>9, <1>10, <2>1, <2>2 DEF ViewOK
<1>12. \A f \in Families \ {"settled"} : w[f] = liquid.view[f]
  BY <1>2, <1>10 DEF Families
<1>13. {"settled"} \in SUBSET Families
  BY DEF Families
<1> QED
  BY <1>1, <1>11, <1>12, <1>13, ApplyInv

\* A key block persists the liquid block, if there is one, and starts the next.
LEMMA KeyBlockStep == ASSUME ReserveInv, KeyBlock PROVE ReserveInv'
<1>1. LiquidOK(liquid', tip, tipHeight + 1)
  BY PaidOut DEF KeyBlock
<1>2. /\ height \in Nat \ {0} /\ safeRollbackHeight \in Nat \ {0} /\ safeRollbackHeight <= height
      /\ chain \in Seq(Views) /\ Len(chain) = height /\ \A h \in 1 .. height : ViewOK(chain[h], h)
  BY DEF ReserveInv, ChainOK
<1>3. StoreOK(ledger, withdrawalDue, chain, height, safeRollbackHeight)
  BY SMTT(30) DEF ReserveInv
<1>4. CASE liquid = NoBlock
  <2>1. UNCHANGED <<height, safeRollbackHeight, chain, ledger, withdrawalDue>>
    BY <1>4 DEF KeyBlock, storeVars
  <2>2. ChainOK' /\ StoreOK(ledger, withdrawalDue, chain, height, safeRollbackHeight)'
    BY <1>2, <1>3, <2>1 DEF ChainOK, StoreOK
  <2>3. LiquidOK(liquid', chain'[height'], height' + 1)
    BY <1>1, <1>4, <2>1, TipView, SMTT(30)
  <2> QED
    BY <2>2, <2>3 DEF ReserveInv, LiquidOK
<1>5. CASE liquid # NoBlock
  <2> DEFINE top == height
             t == liquid.height - MaxRollbackDepth
             low == IF safeRollbackHeight < t THEN t ELSE safeRollbackHeight
  <2>1. LiquidOK(liquid, chain[top], top + 1)
    BY <1>5 DEF ReserveInv
  <2>2. liquid.height = top + 1
    BY <2>1 DEF LiquidOK
  <2>3. doAppend(liquid)
    BY <1>5 DEF KeyBlock
  <2>4. /\ height' = top + 1 /\ safeRollbackHeight' = low /\ chain' = Append(chain, liquid.view)
        /\ ledger' = [f \in Families |-> IF f \in liquid.writes THEN writeKeyed(ledger[f], top + 1, t, liquid.view[f]) ELSE ledger[f]]
        /\ withdrawalDue' = indexed(withdrawalDue, liquid)
    <3>1. /\ height' = liquid.height /\ safeRollbackHeight' = low /\ chain' = Append(chain, liquid.view)
          /\ ledger' = [f \in Families |-> IF f \in liquid.writes THEN writeKeyed(ledger[f], liquid.height, t, liquid.view[f]) ELSE ledger[f]]
          /\ withdrawalDue' = indexed(withdrawalDue, liquid)
      BY <2>3 DEF doAppend
    <3> HIDE DEF t, low
    <3> QED
      BY <2>2, <3>1, SMTT(30)
  <2>5. /\ t \in Int /\ t <= top + 1
        /\ low \in Nat \ {0} /\ safeRollbackHeight <= low /\ t <= low /\ low <= top + 1
    BY <1>2, <2>2, ReserveAssumption, SMTT(30)
  <2> HIDE DEF t, low
  <2>6. StoreOK(ledger', withdrawalDue', chain', top + 1, low)
    BY <1>2, <1>3, <2>1, <2>4, <2>5, AppendStore, Zenon
  <2>7. /\ chain' \in Seq(Views) /\ Len(chain') = top + 1 /\ chain'[top + 1] = liquid.view
        /\ \A h \in 1 .. top : chain'[h] = chain[h]
    <3>1. liquid.view \in Views
      BY <2>1 DEF LiquidOK
    <3> QED
      BY <1>2, <2>4, <3>1, SMTT(30)
  <2>8. \A h \in 1 .. top + 1 : ViewOK(chain'[h], h)
    <3>1. ViewOK(chain'[top + 1], top + 1)
      BY <2>1, <2>7, SMTT(30) DEF LiquidOK
    <3> QED
      BY <1>2, <2>7, <3>1
  <2>9. ChainOK'
    <3>1. height' \in Nat \ {0} /\ safeRollbackHeight' \in Nat \ {0} /\ safeRollbackHeight' <= height'
      BY <1>2, <2>4, <2>5
    <3>2. \A h \in 1 .. height' : ViewOK(chain'[h], h)
      BY <2>4, <2>8, Zenon
    <3> QED
      BY <2>4, <2>7, <3>1, <3>2 DEF ChainOK, ViewOK, Covered, Bounded
  <2>10. LiquidOK(liquid', chain'[height'], height' + 1)
    <3>1. tip = liquid.view /\ tipHeight = top + 1
      BY <1>5, TipView
    <3> QED
      BY <1>1, <2>4, <2>7, <3>1, Zenon
  <2>11. StoreOK(ledger, withdrawalDue, chain, height, safeRollbackHeight)'
    BY <2>4, <2>6, Zenon DEF StoreOK
  <2> QED
    BY <2>9, <2>10, <2>11 DEF ReserveInv, LiquidOK
<1> QED
  BY <1>4, <1>5

\* A store is about the chain up to its height only.
LEMMA StoreOfPrefix ==
  ASSUME NEW top \in Nat \ {0}, NEW lo \in Nat \ {0}, lo <= top, NEW c \in Seq(Views), top <= Len(c),
         NEW b, b \in Seq(Views), Len(b) = top, \A h \in 1 .. top : b[h] = c[h],
         NEW led, NEW due, StoreOK(led, due, c, top, lo)
  PROVE  StoreOK(led, due, b, top, lo)
<1>1. ASSUME NEW f \in Families PROVE KeyedOK(led[f], Course(b, f), top, lo, default(f))
  <2>1. KeyedOK(led[f], Course(c, f), top, lo, default(f))
    BY DEF StoreOK
  <2>2. \A h \in lo .. top : Course(b, f)[h] = Course(c, f)[h]
    <3>1. \A h \in lo .. top : h \in 1 .. top /\ h \in 1 .. Len(c)
      OBVIOUS
    <3> QED
      BY <3>1 DEF Course
  <2> QED
    BY <2>1, <2>2, SMTT(30) DEF KeyedOK
<1>2. DueOK(due, led["pending"], c, top, lo)
  BY DEF StoreOK
<1>3. b[top] = c[top] /\ \A d \in lo + 1 .. top : b[d] = c[d] /\ b[d - 1] = c[d - 1]
  BY SMTT(30)
<1>4. DueOK(due, led["pending"], b, top, lo)
  BY <1>2, <1>3, Zenon DEF DueOK
<1> QED
  BY <1>1, <1>4 DEF StoreOK

\* A rollback leaves the store of the target block.
LEMMA RemoveAfterStep == ASSUME ReserveInv, NEW target \in 1 .. height, removeAfter(target) PROVE ReserveInv'
<1>1. /\ height \in Nat \ {0} /\ safeRollbackHeight \in Nat \ {0} /\ safeRollbackHeight <= height
      /\ chain \in Seq(Views) /\ Len(chain) = height /\ \A h \in 1 .. height : ViewOK(chain[h], h)
  BY DEF ReserveInv, ChainOK
<1>2. target \in Nat \ {0} /\ target <= height /\ safeRollbackHeight <= target
  BY <1>1 DEF removeAfter
<1>3. StoreOK(doRollback(target).ledger, doRollback(target).due, chain, target, safeRollbackHeight)
  BY <1>2, RollbackStore DEF ReserveInv
<1>4. /\ height' = target /\ chain' = SubSeq(chain, 1, target) /\ safeRollbackHeight' = safeRollbackHeight
      /\ ledger' = doRollback(target).ledger /\ withdrawalDue' = doRollback(target).due /\ liquid' = NoBlock
  BY DEF removeAfter
<1>5. chain' \in Seq(Views) /\ Len(chain') = target /\ \A h \in 1 .. target : chain'[h] = chain[h]
  BY <1>1, <1>2, <1>4
<1>6. StoreOK(ledger', withdrawalDue', chain', target, safeRollbackHeight)
  BY <1>1, <1>2, <1>3, <1>4, <1>5, StoreOfPrefix, Zenon
<1>7. \A h \in 1 .. target : ViewOK(chain'[h], h)
  BY <1>1, <1>2, <1>5
<1>8. ChainOK'
  BY <1>1, <1>2, <1>4, <1>5, <1>7 DEF ChainOK, ViewOK, Covered, Bounded
<1>9. StoreOK(ledger, withdrawalDue, chain, height, safeRollbackHeight)'
  BY <1>4, <1>6, Zenon DEF StoreOK
<1> QED
  BY <1>4, <1>8, <1>9, Zenon DEF ReserveInv, NoBlock

\* At genesis nothing is reserved.
LEMMA InitInv == Init => ReserveInv
<1> SUFFICES ASSUME Init PROVE ReserveInv
  OBVIOUS
<1>1. /\ height = 1 /\ safeRollbackHeight = 1 /\ chain = <<EmptyView>> /\ withdrawalDue = {}
      /\ ledger = [f \in Families |-> EmptyLedger] /\ liquid = NoBlock
  BY DEF Init
<1>2. NoPending \in [amount : Nat, payoutAt : Nat] /\ NoPending.payoutAt = 0
  BY DEF NoPending
<1>3. EmptyView \in Views /\ EmptyView.pending = NoPending
  BY <1>2, ReserveAssumption DEF EmptyView, Views
<1>4. ViewOK(EmptyView, 1)
  <2>1. Covered(EmptyView)
    BY ReserveAssumption DEF Covered, EmptyView
  <2>2. Bounded(EmptyView)
    BY DEF Bounded, EmptyView, floorOf, ServingNodeCredPart, BurnedWorkPart
  <2> QED
    BY <1>3, <2>1, <2>2 DEF ViewOK
<1>5. chain \in Seq(Views) /\ Len(chain) = 1 /\ chain[1] = EmptyView
  BY <1>1, <1>3
<1>6. ChainOK
  BY <1>1, <1>4, <1>5 DEF ChainOK
<1>7. EmptyLedger.history = <<>> /\ EmptyLedger.value = <<>>
  BY DEF EmptyLedger
<1>8. Len(<<>>) = 0 /\ <<>> \in Seq(Nat)
  OBVIOUS
<1>9. DOMAIN <<>> = {} /\ Range(<<>>) = {}
  BY SMTT(30) DEF Range
<1>10. ASSUME NEW f \in Families PROVE KeyedOK(ledger[f], Course(chain, f), 1, 1, default(f))
  <2>1. ledger[f] = EmptyLedger
    BY <1>1
  <2>2. HistoryOK(<<>>, 1)
    BY <1>8 DEF HistoryOK, Descending
  <2>3. Course(chain, f)[1] = default(f)
    BY <1>5 DEF Course, default
  <2>4. ASSUME NEW h \in 1 .. 1 PROVE Answers(EmptyLedger, h, default(f), Course(chain, f)[h])
    <3>1. h = 1
      BY SMTT(30)
    <3> QED
      BY <1>7, <1>8, <2>3, <3>1 DEF Answers
  <2> QED
    BY <1>7, <1>9, <2>1, <2>2, <2>4, Zenon DEF KeyedOK
<1>11. DueOK(withdrawalDue, ledger["pending"], chain, 1, 1)
  BY <1>1, <1>2, <1>3, <1>5 DEF DueOK
<1>12. StoreOK(ledger, withdrawalDue, chain, height, safeRollbackHeight)
  BY <1>1, <1>10, <1>11 DEF StoreOK
<1> QED
  BY <1>1, <1>6, <1>12 DEF ReserveInv

\* Every step keeps it.
LEMMA NextInv == ReserveInv /\ [Next]_vars => ReserveInv'
<1> SUFFICES ASSUME ReserveInv, [Next]_vars PROVE ReserveInv'
  OBVIOUS
<1>1. CASE \E amount \in Amounts : Reserve(amount)
  BY <1>1, ReserveStep
<1>2. CASE \E amount \in Amounts : Withdraw(amount)
  BY <1>2, WithdrawStep
<1>3. CASE \E counter \in Counters : Settle(counter)
  BY <1>3, SettleStep
<1>4. CASE KeyBlock
  BY <1>4, KeyBlockStep
<1>5. CASE \E target \in 1 .. height : removeAfter(target)
  BY <1>5, RemoveAfterStep, SMTT(30)
<1>6. CASE UNCHANGED vars
  BY <1>6 DEF vars, storeVars, ReserveInv, ChainOK, StoreOK
<1> QED
  BY <1>1, <1>2, <1>3, <1>4, <1>5, <1>6 DEF Next

\* The invariant of the reservations.
LEMMA SpecInv == Spec => []ReserveInv
BY InitInv, NextInv, PTL DEF Spec

\* Every read of a ledger answers what the blocks of the chain made of it, however
\* much of its history was pruned (RocksDBWriter.updateHistory) and however far it
\* was rolled back, for any depth of rollbacks.
THEOREM SpecLedgerFollowsChain == Spec => []LedgerFollowsChain
<1>1. ReserveInv => LedgerFollowsChain
  <2> SUFFICES ASSUME ReserveInv, NEW f \in Families PROVE fromHistory(ledger[f], default(f)) = chain[height][f]
    BY DEF LedgerFollowsChain
  <2>1. height \in Nat \ {0} /\ safeRollbackHeight \in Nat /\ safeRollbackHeight <= height /\ Len(chain) = height
    BY DEF ReserveInv, ChainOK
  <2>2. KeyedOK(ledger[f], Course(chain, f), height, safeRollbackHeight, default(f))
    BY DEF ReserveInv, StoreOK
  <2>3. fromHistory(ledger[f], default(f)) = Course(chain, f)[height]
    BY <2>1, <2>2, ReadKeyed, SMTT(30)
  <2> QED
    BY <2>1, <2>3, SMTT(30) DEF Course
<1> QED
  BY <1>1, SpecInv, PTL

\* What is settled and what was given back never exceed what was reserved, and no
\* amount is lost or made, for any quantities, counters and periods.
THEOREM SpecReservationCovered == Spec => []ReservationCovered
<1>1. ReserveInv => ReservationCovered
  BY TipView DEF ViewOK, Covered, ReservationCovered
<1> QED
  BY <1>1, SpecInv, PTL

\* No request is left pending at or below the tip, whichever blocks were discarded
\* and made again around the boundary of the period.
THEOREM SpecPaidInTime == Spec => []PaidInTime
<1>1. ReserveInv => PaidInTime
  BY TipView, SMTT(30) DEF ViewOK, PaidInTime
<1> QED
  BY <1>1, SpecInv, PTL

\* The miner and the validator never get more than their share of the counter,
\* however it is split and wherever exactSettleSplitHeight is.
THEOREM SpecSharesBounded == Spec => []SharesBounded
<1>1. ReserveInv => SharesBounded
  BY TipView DEF ViewOK, Bounded, SharesBounded
<1> QED
  BY <1>1, SpecInv, PTL
=============================================================================
