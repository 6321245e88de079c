-------------------------- MODULE ClientQueueProofs --------------------------
(***************************************************************************)
(* For all proposals, contents and erasures and all bounds: an approval    *)
(* never approves other bytes than the operator was shown, an erasure is   *)
(* never carried out more often than the operator sent it, and a decision  *)
(* that was queued for replay is not forgotten.  They follow from          *)
(* ClientInv.  The queue is filtered all the time, so the first section    *)
(* says what a subsequence holds; no later proof expands it.               *)
(***************************************************************************)
EXTENDS ClientQueue, FiniteSetTheorems, WellFoundedInduction, TLAPS

-----------------------------------------------------------------------------
(* Subsequences *)

\* A non-empty set of naturals has a least element.
LEMMA LeastNatural ==
    ASSUME NEW S, S \subseteq Nat, S # {}
    PROVE  \E m \in S : \A n \in S : m <= n
<1> DEFINE R == {p \in Nat \X Nat : p[1] < p[2]}
<1>1. IsWellFoundedOn(R, Nat)
  BY NatLessThanWellFounded, Zenon DEF OpToRel
<1>2. \E m \in S : \A n \in S : <<n, m>> \notin R
  <2> HIDE DEF R
  <2> QED
    BY <1>1, WFMin, Zenon
<1>3. \A m, n \in S : n < m => <<n, m>> \in R
  OBVIOUS
<1>4. \E m \in S : \A n \in S : ~(n < m)
  BY <1>2, <1>3, Zenon
<1> QED
  BY <1>4

Below(at, i) == {j \in at : j < i}
Nth(at, n) == CHOOSE i \in at : Cardinality(Below(at, i)) = n - 1

\* There are finitely many positions, and finitely many before each.
LEMMA Ranks ==
    ASSUME NEW N \in Nat, NEW at \in SUBSET (1 .. N)
    PROVE  /\ IsFiniteSet(at) /\ Cardinality(at) \in Nat
           /\ \A i \in at : IsFiniteSet(Below(at, i)) /\ Cardinality(Below(at, i)) \in Nat
<1>1. IsFiniteSet(1 .. N)
  BY FS_Interval
<1>2. IsFiniteSet(at)
  BY <1>1, FS_Subset
<1>3. \A i \in at : Below(at, i) \in SUBSET at
  BY DEF Below
<1> QED
  BY <1>2, <1>3, FS_Subset, FS_CardinalityType

\* For every smaller number there is a position with that many before it.
LEMMA RankExists ==
    ASSUME NEW N \in Nat, NEW at \in SUBSET (1 .. N), NEW n \in Nat, n < Cardinality(at)
    PROVE  \E i \in at : Cardinality(Below(at, i)) = n
<1>0. IsFiniteSet(at) /\ Cardinality(at) \in Nat
      /\ \A i \in at : IsFiniteSet(Below(at, i)) /\ Cardinality(Below(at, i)) \in Nat
  BY Ranks
<1>a. at \subseteq Nat
  OBVIOUS
<1> DEFINE Bad == {m \in Nat : m < Cardinality(at) /\ \A i \in at : Cardinality(Below(at, i)) # m}
<1> SUFFICES ASSUME Bad # {} PROVE FALSE
  OBVIOUS
<1>1. PICK m \in Bad : \A k \in Bad : m <= k
  <2>1. Bad \subseteq Nat
    OBVIOUS
  <2> HIDE DEF Bad
  <2> QED
    BY <2>1, LeastNatural
<1>2. CASE m = 0
  <2>1. at # {}
    BY <1>0, <1>1, <1>2, FS_EmptySet
  <2>2. PICK i \in at : \A j \in at : i <= j
    BY <1>a, <2>1, LeastNatural
  <2>3. Below(at, i) = {}
    <3>1. \A j \in at : ~(j < i)
      BY <1>a, <2>2
    <3> QED
      BY <3>1, Zenon DEF Below
  <2>4. Cardinality(Below(at, i)) = 0
    BY <2>3, FS_EmptySet
  <2> QED
    BY <1>1, <1>2, <2>4
<1>3. CASE m > 0
  <2>1. m - 1 \in Nat /\ m - 1 \notin Bad /\ m < Cardinality(at) /\ m \in Nat
    BY <1>1, <1>3
  <2>2. PICK i \in at : Cardinality(Below(at, i)) = m - 1
    BY <1>0, <2>1
  <2> DEFINE D == Below(at, i) \cup {i}
  <2>a. i \notin Below(at, i) /\ D \subseteq at
    BY <1>a DEF Below
  <2>3. i \notin Below(at, i) /\ D \subseteq at /\ IsFiniteSet(D)
    BY <1>0, <2>2, <2>a, FS_AddElement
  <2>4. Cardinality(D) = m
    BY <1>0, <2>1, <2>2, <2>3, FS_AddElement
  <2>5. at \ D # {}
    <3> HIDE DEF D
    <3> SUFFICES ASSUME at \ D = {} PROVE FALSE
      OBVIOUS
    <3>1. at = D
      BY <2>3
    <3>2. Cardinality(at) = m
      BY <2>4, <3>1, Zenon
    <3> QED
      BY <2>1, <3>2
  <2>6. PICK k \in at \ D : \A j \in at \ D : k <= j
    <3>1. at \ D \subseteq Nat
      BY <1>a
    <3> HIDE DEF D
    <3> QED
      BY <2>5, <3>1, LeastNatural
  <2>7. \A j \in D : j < k
    <3>1. i \in Nat /\ k \in Nat /\ k # i /\ ~(k < i)
      BY <1>a, <2>6 DEF Below
    <3> QED
      BY <1>a, <3>1 DEF Below
  <2>8. \A j \in at : j < k => j \in D
    BY <1>a, <2>6
  <2>9. Below(at, k) = D
    BY <2>3, <2>7, <2>8 DEF Below
  <2> QED
    BY <1>1, <2>4, <2>6, <2>9
<1> QED
  BY <1>1, <1>2, <1>3

\* The positions of a subsequence are numbered from 1, without gaps or repetitions.
LEMMA Positions ==
    ASSUME NEW N \in Nat, NEW at \in SUBSET (1 .. N)
    PROVE  /\ Cardinality(at) \in Nat
           /\ \A n \in 1 .. Cardinality(at) : Nth(at, n) \in at
           /\ \A n, m \in 1 .. Cardinality(at) : Nth(at, n) = Nth(at, m) => n = m
           /\ \A i \in at : \E n \in 1 .. Cardinality(at) : Nth(at, n) = i
<1>0. IsFiniteSet(at) /\ Cardinality(at) \in Nat
      /\ \A i \in at : IsFiniteSet(Below(at, i)) /\ Cardinality(Below(at, i)) \in Nat
  BY Ranks
<1>a. at \subseteq Nat
  OBVIOUS
<1>1. ASSUME NEW n \in 1 .. Cardinality(at)
      PROVE  Nth(at, n) \in at /\ Cardinality(Below(at, Nth(at, n))) = n - 1
  <2>1. n - 1 \in Nat /\ n - 1 < Cardinality(at)
    BY <1>0
  <2>2. \E i \in at : Cardinality(Below(at, i)) = n - 1
    BY <2>1, RankExists
  <2> QED
    BY <2>2, Zenon DEF Nth
<1>2. ASSUME NEW i \in at, NEW k \in at, i < k
      PROVE  Cardinality(Below(at, i)) < Cardinality(Below(at, k))
  <2>1. Below(at, i) \in SUBSET Below(at, k) /\ Below(at, i) # Below(at, k)
    <3>1. i \in Below(at, k) /\ i \notin Below(at, i)
      BY <1>a, <1>2 DEF Below
    <3>a. \A j \in at : j < i => j < k
      BY <1>a, <1>2
    <3>2. Below(at, i) \in SUBSET Below(at, k)
      BY <3>a, Zenon DEF Below
    <3> QED
      BY <3>1, <3>2
  <2>2. Cardinality(Below(at, i)) <= Cardinality(Below(at, k))
        /\ Cardinality(Below(at, i)) # Cardinality(Below(at, k))
    BY <1>0, <2>1, FS_Subset
  <2> QED
    BY <1>0, <2>2
<1>3. ASSUME NEW i \in at PROVE \E n \in 1 .. Cardinality(at) : Nth(at, n) = i
  <2>1. Below(at, i) \in SUBSET at /\ Below(at, i) # at
    BY <1>a DEF Below
  <2>2. Cardinality(Below(at, i)) < Cardinality(at)
    <3>1. Cardinality(Below(at, i)) <= Cardinality(at) /\ Cardinality(Below(at, i)) # Cardinality(at)
      BY <1>0, <2>1, FS_Subset
    <3> QED
      BY <1>0, <3>1
  <2> DEFINE n == Cardinality(Below(at, i)) + 1
  <2>3. n \in 1 .. Cardinality(at) /\ n - 1 = Cardinality(Below(at, i))
    BY <1>0, <2>2
  <2>4. Nth(at, n) \in at /\ Cardinality(Below(at, Nth(at, n))) = Cardinality(Below(at, i))
    BY <1>1, <2>3
  <2>5. Nth(at, n) = i
    <3> HIDE DEF n
    <3> DEFINE k == Nth(at, n)
    <3>0. k \in at /\ k \in Nat /\ i \in Nat /\ Cardinality(Below(at, k)) = Cardinality(Below(at, i))
      BY <1>a, <2>4
    <3> HIDE DEF k
    <3>1. ~(k < i)
      BY <1>0, <1>2, <3>0
    <3>2. ~(i < k)
      BY <1>0, <1>2, <3>0
    <3>3. k = i
      BY <3>0, <3>1, <3>2
    <3> QED
      BY <3>3 DEF k
  <2> QED
    BY <2>3, <2>5
<1>4. ASSUME NEW n \in 1 .. Cardinality(at), NEW m \in 1 .. Cardinality(at), Nth(at, n) = Nth(at, m)
      PROVE  n = m
  <2>1. n - 1 = m - 1
    BY <1>1, <1>4
  <2> QED
    BY <1>0, <2>1
<1> QED
  BY <1>0, <1>1, <1>3, <1>4

\* A subsequence holds the items at its positions, each once, and nothing else.
LEMMA Subsequences ==
    ASSUME NEW S, NEW q \in Seq(S), NEW at \in SUBSET DOMAIN q
    PROVE  /\ Subsequence(q, at) \in Seq(S)
           /\ DOMAIN Subsequence(q, at) = 1 .. Cardinality(at)
           /\ \A n \in DOMAIN Subsequence(q, at) :
                 Nth(at, n) \in at /\ Subsequence(q, at)[n] = q[Nth(at, n)]
           /\ \A n, m \in DOMAIN Subsequence(q, at) : Nth(at, n) = Nth(at, m) => n = m
           /\ \A i \in at : \E n \in DOMAIN Subsequence(q, at) : Subsequence(q, at)[n] = q[i]
<1>0. Len(q) \in Nat /\ DOMAIN q = 1 .. Len(q) /\ \A i \in DOMAIN q : q[i] \in S
  OBVIOUS
<1>1. /\ Cardinality(at) \in Nat
      /\ \A n \in 1 .. Cardinality(at) : Nth(at, n) \in at
      /\ \A n, m \in 1 .. Cardinality(at) : Nth(at, n) = Nth(at, m) => n = m
      /\ \A i \in at : \E n \in 1 .. Cardinality(at) : Nth(at, n) = i
  <2>1. at \in SUBSET (1 .. Len(q))
    BY <1>0
  <2>2. Len(q) \in Nat
    BY <1>0
  <2> QED
    BY <2>1, <2>2, Positions, Zenon
<1>2. Subsequence(q, at) = [n \in 1 .. Cardinality(at) |-> q[Nth(at, n)]]
  BY DEF Subsequence, Nth, Below
<1>3. \A n \in 1 .. Cardinality(at) : q[Nth(at, n)] \in S
  BY <1>0, <1>1
<1> DEFINE f == [n \in 1 .. Cardinality(at) |-> q[Nth(at, n)]]
<1>4. f \in Seq(S)
  <2>1. f \in [1 .. Cardinality(at) -> S]
    BY <1>3
  <2> HIDE DEF f
  <2> QED BY <1>1, <2>1
<1>5. DOMAIN f = 1 .. Cardinality(at) /\ \A n \in 1 .. Cardinality(at) : f[n] = q[Nth(at, n)]
  OBVIOUS
<1> HIDE DEF f
<1>6. /\ \A n \in DOMAIN f : Nth(at, n) \in at /\ f[n] = q[Nth(at, n)]
      /\ \A n, m \in DOMAIN f : Nth(at, n) = Nth(at, m) => n = m
      /\ \A i \in at : \E n \in DOMAIN f : f[n] = q[i]
  BY <1>1, <1>5, Zenon
<1>7. Subsequence(q, at) = f
  BY <1>2 DEF f
<1> QED
  BY <1>4, <1>5, <1>6, <1>7

-----------------------------------------------------------------------------
(* What the operations of queue.rs leave in the queue                      *)

Items(q) == {q[i] : i \in DOMAIN q}

\* Of the copies of an action one at most replays by itself.
Single(q) ==
    \A i, j \in DOMAIN q : (q[i].act = q[j].act /\ Unparked(q[i]) /\ Unparked(q[j])) => i = j

\* The questions about a queue are questions about its items.
LEMMA Asked ==
    ASSUME NEW q, NEW a
    PROVE  /\ Has(q, a) <=> \E x \in Items(q) : x.act = a
           /\ HasParked(q, a) <=> \E x \in Items(q) : x.act = a /\ is_parked(x)
           /\ Due(q, a) <=> \E x \in Items(q) : x.act = a /\ ~is_parked(x)
<1>1. Has(q, a) <=> \E x \in Items(q) : x.act = a
  BY Zenon DEF Has, Items
<1>2. HasParked(q, a) <=> \E x \in Items(q) : x.act = a /\ is_parked(x)
  BY Zenon DEF HasParked, Items
<1>3. Due(q, a) <=> \E x \in Items(q) : x.act = a /\ ~is_parked(x)
  BY Zenon DEF Due, Items, Unparked
<1> QED
  BY <1>1, <1>2, <1>3

\* The items of a sequence over S are in S, and only the empty one has none.
LEMMA ItemsOf ==
    ASSUME NEW S, NEW q \in Seq(S)
    PROVE  Items(q) \in SUBSET S /\ (q = <<>> <=> Items(q) = {})
<1>1. Len(q) \in Nat /\ DOMAIN q = 1 .. Len(q) /\ \A i \in DOMAIN q : q[i] \in S
  OBVIOUS
<1>2. Items(q) \in SUBSET S
  BY <1>1 DEF Items
<1>3. q = <<>> => Items(q) = {}
  BY DEF Items
<1>4. q # <<>> => 1 \in DOMAIN q
  BY <1>1
<1>5. 1 \in DOMAIN q => Items(q) # {}
  BY DEF Items
<1> QED
  BY <1>2, <1>3, <1>4, <1>5

\* Taking a subsequence makes no second copy.
LEMMA Thinned ==
    ASSUME NEW S, NEW q \in Seq(S), NEW at \in SUBSET DOMAIN q
    PROVE  /\ Subsequence(q, at) \in Seq(S)
           /\ Items(Subsequence(q, at)) = {q[i] : i \in at}
           /\ Single(q) => Single(Subsequence(q, at))
<1> DEFINE s == Subsequence(q, at)
<1>1. /\ s \in Seq(S)
      /\ \A n \in DOMAIN s : Nth(at, n) \in at /\ s[n] = q[Nth(at, n)]
      /\ \A n, m \in DOMAIN s : Nth(at, n) = Nth(at, m) => n = m
      /\ \A i \in at : \E n \in DOMAIN s : s[n] = q[i]
  BY Subsequences
<1> HIDE DEF s
<1>2. Items(s) = {q[i] : i \in at}
  <2>1. ASSUME NEW x \in Items(s) PROVE x \in {q[i] : i \in at}
    <3>1. PICK n \in DOMAIN s : x = s[n]
      BY DEF Items
    <3>2. Nth(at, n) \in at /\ x = q[Nth(at, n)]
      BY <1>1, <3>1
    <3> QED
      BY <3>2
  <2>2. ASSUME NEW i \in at PROVE q[i] \in Items(s)
    <3>1. PICK n \in DOMAIN s : s[n] = q[i]
      BY <1>1
    <3> QED
      BY <3>1 DEF Items
  <2> QED
    BY <2>1, <2>2
<1>3. ASSUME Single(q), NEW n \in DOMAIN s, NEW m \in DOMAIN s,
             s[n].act = s[m].act, Unparked(s[n]), Unparked(s[m])
      PROVE  n = m
  <2> DEFINE i == Nth(at, n)  j == Nth(at, m)
  <2>1. i \in DOMAIN q /\ j \in DOMAIN q /\ s[n] = q[i] /\ s[m] = q[j]
    BY <1>1
  <2>2. i = j
    <3> HIDE DEF i, j
    <3> QED
      BY <1>3, <2>1, Zenon DEF Single
  <2> QED
    BY <1>1, <2>2
<1>4. Single(q) => Single(s)
  BY <1>3, Zenon DEF Single
<1> QED
  BY <1>1, <1>2, <1>4 DEF s

\* parked keeps exactly the parked items.
LEMMA ParkedItems ==
    ASSUME NEW S, NEW q \in Seq(S)
    PROVE  /\ parked(q) \in Seq(S)
           /\ Items(parked(q)) = {x \in Items(q) : is_parked(x)}
<1> DEFINE at == {i \in DOMAIN q : is_parked(q[i])}
<1>1. parked(q) \in Seq(S) /\ Items(parked(q)) = {q[i] : i \in at}
  <2>1. at \in SUBSET DOMAIN q
    OBVIOUS
  <2>2. parked(q) = Subsequence(q, at)
    BY DEF parked
  <2> HIDE DEF at
  <2> QED
    BY <2>1, <2>2, Thinned
<1>2. \A x : x \in {q[i] : i \in at} <=> x \in {y \in Items(q) : is_parked(y)}
  BY Zenon DEF Items
<1> QED
  BY <1>1, <1>2

\* replayable keeps exactly the items that are not parked, and no twin appears.
LEMMA ReplayableItems ==
    ASSUME NEW S, NEW q \in Seq(S)
    PROVE  /\ replayable(q) \in Seq(S)
           /\ Items(replayable(q)) = {x \in Items(q) : ~is_parked(x)}
           /\ Single(q) => Single(replayable(q))
<1> DEFINE at == {i \in DOMAIN q : Unparked(q[i])}
<1>1. /\ replayable(q) \in Seq(S) /\ Items(replayable(q)) = {q[i] : i \in at}
      /\ Single(q) => Single(replayable(q))
  <2>1. at \in SUBSET DOMAIN q
    OBVIOUS
  <2>2. replayable(q) = Subsequence(q, at)
    BY DEF replayable
  <2> HIDE DEF at
  <2> QED
    BY <2>1, <2>2, Thinned
<1>2. \A x : x \in {q[i] : i \in at} <=> x \in {y \in Items(q) : ~is_parked(y)}
  BY Zenon DEF Items, Unparked
<1> QED
  BY <1>1, <1>2

\* Minus takes away exactly the items of one action.
LEMMA MinusItems ==
    ASSUME NEW S, NEW q \in Seq(S), NEW a
    PROVE  /\ Minus(q, a) \in Seq(S)
           /\ Items(Minus(q, a)) = {x \in Items(q) : x.act # a}
<1> DEFINE at == {i \in DOMAIN q : q[i].act # a}
<1>1. Minus(q, a) \in Seq(S) /\ Items(Minus(q, a)) = {q[i] : i \in at}
  <2>1. at \in SUBSET DOMAIN q
    OBVIOUS
  <2>2. Minus(q, a) = Subsequence(q, at)
    BY DEF Minus
  <2> HIDE DEF at
  <2> QED
    BY <2>1, <2>2, Thinned
<1>2. \A x : x \in {q[i] : i \in at} <=> x \in {y \in Items(q) : y.act # a}
  BY Zenon DEF Items
<1> QED
  BY <1>1, <1>2

\* The items of a concatenation, and its copies.
LEMMA Joined ==
    ASSUME NEW S, NEW q \in Seq(S), NEW r \in Seq(S)
    PROVE  /\ q \o r \in Seq(S)
           /\ Items(q \o r) = Items(q) \cup Items(r)
           /\ (Single(q) /\ \A x \in Items(r) : is_parked(x)) => Single(q \o r)
<1> DEFINE s == q \o r
<1>1. /\ s \in Seq(S) /\ Len(q) \in Nat /\ Len(r) \in Nat /\ DOMAIN q = 1 .. Len(q)
      /\ DOMAIN r = 1 .. Len(r) /\ DOMAIN s = 1 .. Len(q) + Len(r)
  OBVIOUS
<1>2. \A i \in DOMAIN s : (i \in DOMAIN q /\ s[i] = q[i]) \/ (i - Len(q) \in DOMAIN r /\ s[i] = r[i - Len(q)])
  OBVIOUS
<1>3. \A i \in DOMAIN q : i \in DOMAIN s /\ s[i] = q[i]
  OBVIOUS
<1>4. \A i \in DOMAIN r : i + Len(q) \in DOMAIN s /\ s[i + Len(q)] = r[i]
  OBVIOUS
<1> HIDE DEF s
<1>5. Items(s) = Items(q) \cup Items(r)
  <2>1. \A x \in Items(s) : x \in Items(q) \/ x \in Items(r)
    BY <1>2, Zenon DEF Items
  <2>2. \A x \in Items(q) : x \in Items(s)
    BY <1>3, Zenon DEF Items
  <2>3. \A x \in Items(r) : x \in Items(s)
    BY <1>4, Zenon DEF Items
  <2> QED
    BY <2>1, <2>2, <2>3
<1>6. ASSUME Single(q), \A x \in Items(r) : is_parked(x)
      PROVE  Single(s)
  <2>1. \A i \in DOMAIN s : Unparked(s[i]) => (i \in DOMAIN q /\ s[i] = q[i])
    BY <1>2, <1>6, Zenon DEF Items, Unparked
  <2> QED
    BY <1>6, <2>1, Zenon DEF Single
<1> QED
  BY <1>1, <1>5, <1>6 DEF s

\* on_update keeps what replays by itself and the banner's rows, and nothing else.
LEMMA ReplacedItems ==
    ASSUME NEW S, NEW q \in Seq(S), NEW rows \in Seq(S), Single(q),
           \A x \in Items(rows) : is_parked(x)
    PROVE  /\ replace_parked(q, rows) \in Seq(S)
           /\ Items(replace_parked(q, rows)) = {x \in Items(q) : ~is_parked(x)} \cup Items(rows)
           /\ Single(replace_parked(q, rows))
<1> DEFINE auto == replayable(q)
           at == {i \in DOMAIN rows : \A j \in DOMAIN auto : auto[j] # rows[i]}
           s == Subsequence(rows, at)
<1>1. replace_parked(q, rows) = auto \o s
  BY DEF replace_parked
<1>2. auto \in Seq(S) /\ Items(auto) = {x \in Items(q) : ~is_parked(x)} /\ Single(auto)
  BY ReplayableItems
<1>3. at \in SUBSET DOMAIN rows
  OBVIOUS
<1>4. \A x : x \in {rows[i] : i \in at} <=> (x \in Items(rows) /\ x \notin Items(auto))
  <2> HIDE DEF auto
  <2> QED
    BY Zenon DEF Items
<1> HIDE DEF auto, at
<1>5. s \in Seq(S) /\ Items(s) = {rows[i] : i \in at}
  BY <1>3, Thinned
<1> HIDE DEF s
<1>6. \A x \in Items(s) : is_parked(x)
  BY <1>4, <1>5
<1>7. auto \o s \in Seq(S) /\ Items(auto \o s) = Items(auto) \cup Items(s) /\ Single(auto \o s)
  BY <1>2, <1>5, <1>6, Joined
<1>8. Items(auto) \cup Items(s) = Items(auto) \cup Items(rows)
  BY <1>4, <1>5
<1> QED
  BY <1>1, <1>2, <1>7, <1>8

\* The empty sequence has no item.
LEMMA NoItem == ASSUME NEW S PROVE <<>> \in Seq(S) /\ Items(<<>>) = {}
BY DEF Items

\* A sequence of one item.
LEMMA OneItem ==
    ASSUME NEW S, NEW x \in S
    PROVE  <<x>> \in Seq(S) /\ Items(<<x>>) = {x} /\ Len(<<x>>) = 1 /\ Head(<<x>>) = x /\ <<x>> # <<>>
BY DEF Items

\* The head and the tail of a queue.
LEMMA Split ==
    ASSUME NEW S, NEW q \in Seq(S), q # <<>>
    PROVE  /\ Head(q) \in Items(q) /\ Head(q) \in S /\ Tail(q) \in Seq(S)
           /\ Items(q) = Items(Tail(q)) \cup {Head(q)}
           /\ Len(q) = 1 <=> Tail(q) = <<>>
           /\ Single(q) => Single(Tail(q))
<1> DEFINE r == Tail(q)
<1>1. /\ Len(q) \in Nat /\ Len(q) > 0 /\ DOMAIN q = 1 .. Len(q) /\ r \in Seq(S) /\ Head(q) = q[1] /\ q[1] \in S
      /\ DOMAIN r = 1 .. Len(q) - 1 /\ Len(r) = Len(q) - 1
  OBVIOUS
<1>2. \A i \in DOMAIN r : i + 1 \in DOMAIN q /\ r[i] = q[i + 1]
  OBVIOUS
<1>3. \A i \in DOMAIN q : i = 1 \/ (i - 1 \in DOMAIN r /\ q[i] = r[i - 1])
  BY <1>1, <1>2
<1>4. 1 \in DOMAIN q
  BY <1>1
<1>4c. r = <<>> <=> Len(r) = 0
  BY <1>1
<1>4d. Len(q) = 1 <=> Len(r) = 0
  <2> HIDE DEF r
  <2> QED BY <1>1
<1>4a. Len(q) = 1 <=> r = <<>>
  BY <1>4c, <1>4d, Zenon
<1>4b. \A i, j \in DOMAIN r : i + 1 = j + 1 => i = j
  BY <1>1
<1> HIDE DEF r
<1>5. Head(q) \in Items(q)
  BY <1>1, <1>4 DEF Items
<1>6. \A x \in Items(r) : x \in Items(q)
  BY <1>2, Zenon DEF Items
<1>7. \A x \in Items(q) : x = Head(q) \/ x \in Items(r)
  <2> TAKE x \in Items(q)
  <2>1. PICK i \in DOMAIN q : x = q[i]
    BY DEF Items
  <2>2. CASE i = 1
    BY <1>1, <2>1, <2>2
  <2>3. CASE i - 1 \in DOMAIN r /\ q[i] = r[i - 1]
    BY <2>1, <2>3 DEF Items
  <2> QED
    BY <1>3, <2>2, <2>3
<1>8. ASSUME Single(q), NEW i \in DOMAIN r, NEW j \in DOMAIN r,
             r[i].act = r[j].act, Unparked(r[i]), Unparked(r[j])
      PROVE  i = j
  <2>1. i + 1 = j + 1
    BY <1>2, <1>8, Zenon DEF Single
  <2> QED
    BY <1>4b, <2>1
<1>9. Single(q) => Single(r)
  BY <1>8, Zenon DEF Single
<1> QED
  BY <1>1, <1>4a, <1>5, <1>6, <1>7, <1>9 DEF r

\* Queueing an action that is not there adds it, and at most the oldest goes.
LEMMA AddedItems ==
    ASSUME NEW S, NEW q \in Seq(S), NEW item \in S, Single(q)
    PROVE  /\ queue_add(q, item) \in Seq(S)
           /\ Has(q, item.act) => queue_add(q, item) = q
           /\ ~Has(q, item.act) =>
                 /\ Items(queue_add(q, item)) \in SUBSET (Items(q) \cup {item})
                 /\ item \in Items(queue_add(q, item))
                 /\ \A x \in Items(q) : x \in Items(queue_add(q, item))
                                        \/ (Len(q) >= MaxQueued /\ x = Head(q))
           /\ Single(queue_add(q, item))
<1>1. CASE Has(q, item.act)
  BY <1>1 DEF queue_add
<1>2. CASE ~Has(q, item.act)
  <2> DEFINE r == IF Len(q) >= MaxQueued THEN Tail(q) ELSE q
             s == Append(r, item)
  <2>1. queue_add(q, item) = s
    BY <1>2 DEF queue_add
  <2>2. Len(q) >= MaxQueued => q # <<>>
    BY ClientAssumption DEF ClientAssumption
  <2>3. /\ r \in Seq(S) /\ Items(r) \in SUBSET Items(q) /\ Single(r)
        /\ \A x \in Items(q) : x \in Items(r) \/ (Len(q) >= MaxQueued /\ x = Head(q))
    BY <2>2, Split
  <2> HIDE DEF r
  <2>4. /\ s \in Seq(S) /\ Len(r) \in Nat /\ DOMAIN r = 1 .. Len(r)
        /\ DOMAIN s = 1 .. Len(r) + 1
    BY <2>3
  <2>4a. s[Len(r) + 1] = item /\ \A i \in DOMAIN r : i \in DOMAIN s /\ s[i] = r[i]
    BY <2>3
  <2>4b. Len(r) + 1 \in DOMAIN s /\ \A i \in DOMAIN s : i \in DOMAIN r \/ i = Len(r) + 1
    BY <2>4
  <2> HIDE DEF s
  <2>5. \A x : x \in Items(s) <=> x \in Items(r) \/ x = item
    BY <2>4a, <2>4b, Zenon DEF Items
  <2>6. \A i \in DOMAIN r : r[i].act # item.act
    <3>1. \A x \in Items(r) : x.act # item.act
      BY <1>2, <2>3, Asked
    <3> QED
      BY <3>1, Zenon DEF Items
  <2>7. Single(s)
    BY <2>3, <2>4a, <2>4b, <2>6, Zenon DEF Single
  <2> QED
    BY <1>2, <2>1, <2>3, <2>4, <2>5, <2>7
<1> QED
  BY <1>1, <1>2

\* A charge parks or leaves things as they are.
LEMMA RequeuedItems ==
    ASSUME NEW q \in Seq(Item), NEW a, Single(q)
    PROVE  /\ requeue_in(q, a) \in Seq(Item)
           /\ \A b : Has(requeue_in(q, a), b) <=> Has(q, b)
           /\ \A b : b # a => (HasParked(requeue_in(q, a), b) <=> HasParked(q, b))
           /\ \A b : Due(requeue_in(q, a), b) => Due(q, b)
           /\ \A b : b # a => (Due(requeue_in(q, a), b) <=> Due(q, b))
           /\ (Due(requeue_in(q, a), a) /\ HasParked(requeue_in(q, a), a)) => HasParked(q, a)
           /\ Single(requeue_in(q, a))
<1> DEFINE s == requeue_in(q, a)
<1>1. Len(q) \in Nat /\ DOMAIN q = 1 .. Len(q) /\ \A i \in DOMAIN q : q[i] \in Item
  OBVIOUS
<1> DEFINE First(i) == q[i].act = a /\ \A j \in {k \in DOMAIN q : q[k].act = a} : i <= j
<1>2. s = [i \in DOMAIN q |-> IF First(i) THEN [q[i] EXCEPT !.retries = @ + 1] ELSE q[i]]
  BY DEF requeue_in
<1>3. DOMAIN s = DOMAIN q
  BY <1>2
<1>f. \A i \in DOMAIN q : First(i) => q[i].act = a
  OBVIOUS
<1> HIDE DEF s, First
<1>4. ASSUME NEW i \in DOMAIN q
      PROVE  s[i] \in Item /\ s[i].act = q[i].act /\ (q[i].act # a => s[i] = q[i])
             /\ s[i].retries >= q[i].retries /\ s[i].retries \in Nat /\ q[i].retries \in Nat
  <2>1. q[i] \in Item
    BY <1>1
  <2>2. CASE First(i)
    <3>1. s[i] = [q[i] EXCEPT !.retries = @ + 1] /\ q[i].act = a
      BY <1>2, <1>f, <2>2
    <3> QED
      BY <2>1, <3>1 DEF Item
  <2>3. CASE ~First(i)
    <3>1. s[i] = q[i]
      BY <1>2, <2>3
    <3> QED
      BY <2>1, <2>3, <3>1 DEF Item
  <2> QED
    BY <2>2, <2>3
<1>5. s \in Seq(Item)
  BY <1>1, <1>2, <1>3, <1>4
<1>6. ASSUME NEW i \in DOMAIN q, Unparked(s[i]) PROVE Unparked(q[i])
  <2>1. \A x : Unparked(x) <=> (~is_destructive(x.act) /\ ~(x.retries >= MaxRetries))
    BY DEF Unparked, is_parked
  <2>2. ~is_destructive(q[i].act) /\ ~(s[i].retries >= MaxRetries)
    BY <1>4, <1>6, <2>1
  <2>3. ~(q[i].retries >= MaxRetries)
    BY <1>4, <2>2, ClientAssumption DEF ClientAssumption
  <2> QED
    BY <2>1, <2>2, <2>3
<1>7. Single(s)
  BY <1>3, <1>4, <1>6 DEF Single
<1>8. \A b : Has(s, b) <=> Has(q, b)
  BY <1>3, <1>4 DEF Has
<1>9. \A b : b # a => (HasParked(s, b) <=> HasParked(q, b))
  BY <1>3, <1>4 DEF HasParked
<1>10. \A b : Due(s, b) => Due(q, b)
  BY <1>3, <1>4, <1>6 DEF Due
<1>11. \A b : b # a => (Due(s, b) <=> Due(q, b))
  BY <1>3, <1>4 DEF Due
<1>12. ASSUME Due(s, a), HasParked(s, a) PROVE HasParked(q, a)
  <2>1. PICK i \in DOMAIN q : s[i].act = a /\ Unparked(s[i])
    BY <1>3, <1>12 DEF Due
  <2>2. PICK j \in DOMAIN q : s[j].act = a /\ is_parked(s[j])
    BY <1>3, <1>12 DEF HasParked
  <2>3. q[i].act = a /\ q[j].act = a /\ Unparked(q[i]) /\ i # j
    BY <1>4, <1>6, <2>1, <2>2 DEF Unparked
  <2>4. ~Unparked(q[j])
    BY <2>3 DEF Single
  <2> QED
    BY <2>3, <2>4 DEF HasParked, Unparked
<1> QED
  BY <1>5, <1>7, <1>8, <1>9, <1>10, <1>11, <1>12 DEF s

-----------------------------------------------------------------------------
(* How the tasks change                                                    *)

Fields(r) == /\ r.by \in {"none", "operator", "list", "auto", "banner"} /\ r.rest \in Seq(Item)
             /\ r.net \in {"none", "sent", "ok", "gone", "refused", "offline"}

\* The types of the fields of a task.
LEMMA TaskFields ==
    ASSUME TypeOK
    PROVE  DOMAIN task = Slots /\ \A t \in Slots : task[t] \in TaskType /\ Fields(task[t])
BY DEF TypeOK, TaskType, Fields

\* The fields of a slot nobody uses.
LEMMA FreeTask == Free.by = "none" /\ Free.rest = <<>> /\ Free.net = "none" /\ Free \in TaskType
<1>1. <<>> \in Seq(Item)
  OBVIOUS
<1> QED
  BY <1>1 DEF Free, TaskType

\* A call under way carries something.
LEMMA CurrentItem ==
    ASSUME TypeOK, TasksOK, NEW t \in Slots, task[t].by # "none" \/ task[t].net # "none"
    PROVE  /\ task[t].by # "none" /\ task[t].rest \in Seq(Item) /\ task[t].rest # <<>>
           /\ Current(t) \in Item /\ Current(t).act \in Actions
           /\ Current(t) \in Items(task[t].rest) /\ Wire(t) = Current(t).act
           /\ task[t].by \in {"operator", "list", "banner"} => Len(task[t].rest) = 1
           /\ task[t].by = "list" => Current(t).act \in Approve
<1>1. task[t].rest \in Seq(Item)
  BY TaskFields DEF Fields
<1>2. /\ task[t].by # "none" /\ task[t].rest # <<>>
      /\ task[t].by \in {"operator", "list", "banner"} => Len(task[t].rest) = 1
      /\ task[t].by = "list" => Current(t).act \in Approve
  BY FreeTask DEF TasksOK, Running
<1>3. Current(t) \in Item /\ Current(t) \in Items(task[t].rest)
  BY <1>1, <1>2, Split DEF Current
<1>4. Current(t).act \in Actions
  BY <1>3 DEF Item
<1> QED
  BY <1>1, <1>2, <1>3, <1>4 DEF Wire

\* What launching a task changes.
LEMMA Launched ==
    ASSUME TypeOK, NEW t \in Slots, NEW by \in {"operator", "list", "auto", "banner"},
           NEW items \in Seq(Item), Launch(t, by, items)
    PROVE  /\ task' \in [Slots -> TaskType]
           /\ task'[t].by = by /\ task'[t].rest = items /\ task'[t].net = "sent"
           /\ \A u \in Slots : u # t => task'[u] = task[u]
<1> DEFINE r == [by |-> by, rest |-> items, net |-> "sent"]
<1>1. r.by = by /\ r.rest = items /\ r.net = "sent" /\ r \in TaskType
  BY DEF TaskType
<1>2. task' = [task EXCEPT ![t] = r] /\ task \in [Slots -> TaskType]
  BY DEF Launch, TypeOK
<1> HIDE DEF r
<1>3. task' \in [Slots -> TaskType] /\ task'[t] = r /\ \A u \in Slots : u # t => task'[u] = task[u]
  BY <1>1, <1>2
<1> QED
  BY <1>1, <1>3

\* What freeing a slot changes.
LEMMA Freed ==
    ASSUME TypeOK, NEW t \in Slots, task' = [task EXCEPT ![t] = Free]
    PROVE  /\ task' \in [Slots -> TaskType] /\ task'[t] = Free
           /\ \A u \in Slots : u # t => task'[u] = task[u]
<1>1. task \in [Slots -> TaskType]
  BY DEF TypeOK
<1> QED
  BY <1>1, FreeTask

\* What an answer from the network changes.
LEMMA Netted ==
    ASSUME TypeOK, NEW t \in Slots, NEW n \in {"sent", "ok", "gone", "refused", "offline"},
           task' = [task EXCEPT ![t].net = n]
    PROVE  /\ task' \in [Slots -> TaskType]
           /\ task'[t].by = task[t].by /\ task'[t].rest = task[t].rest /\ task'[t].net = n
           /\ \A u \in Slots : u # t => task'[u] = task[u]
<1> DEFINE r == [task[t] EXCEPT !.net = n]
<1>0. task[t] \in TaskType /\ task \in [Slots -> TaskType]
  BY TaskFields DEF TypeOK
<1>1. r.by = task[t].by /\ r.rest = task[t].rest /\ r.net = n /\ r \in TaskType
  BY <1>0 DEF TaskType
<1>2. task' = [task EXCEPT ![t] = r]
  OBVIOUS
<1> HIDE DEF r
<1>3. task' \in [Slots -> TaskType] /\ task'[t] = r /\ \A u \in Slots : u # t => task'[u] = task[u]
  BY <1>0, <1>1, <1>2
<1> QED
  BY <1>1, <1>3

\* A task that is done with an item goes on to the next, or ends.
LEMMA Advanced ==
    ASSUME TypeOK, TasksOK, NEW t \in Slots, Running(t), Advance(t)
    PROVE  /\ task' \in [Slots -> TaskType]
           /\ \A u \in Slots : u # t => task'[u] = task[u]
           /\ \/ task'[t] = Free /\ Items(task[t].rest) = {Current(t)}
              \/ /\ task[t].by = "auto" /\ task'[t].by = task[t].by /\ task'[t].net = "sent"
                 /\ task'[t].rest = Tail(task[t].rest) /\ task'[t].rest # <<>>
                 /\ Items(task[t].rest) = Items(task'[t].rest) \cup {Current(t)}
<1>0. /\ task[t] \in TaskType /\ task \in [Slots -> TaskType]
      /\ task[t].by \in {"none", "operator", "list", "auto", "banner"}
  BY TaskFields DEF TypeOK, Fields
<1>1. /\ task[t].by # "none" /\ task[t].rest \in Seq(Item) /\ task[t].rest # <<>>
      /\ task[t].by \in {"operator", "list", "banner"} => Len(task[t].rest) = 1
  BY CurrentItem DEF Running
<1>2. Tail(task[t].rest) \in Seq(Item) /\ Items(task[t].rest) = Items(Tail(task[t].rest)) \cup {Current(t)}
      /\ (Len(task[t].rest) = 1 <=> Tail(task[t].rest) = <<>>)
  BY <1>1, Split DEF Current
<1>3. CASE Len(task[t].rest) = 1
  <2>1. task' = [task EXCEPT ![t] = Free]
    BY <1>0, <1>3 DEF Advance
  <2>2. Tail(task[t].rest) = <<>>
    BY <1>2, <1>3
  <2>3. Items(task[t].rest) = {Current(t)}
    <3>1. Items(Tail(task[t].rest)) = {}
      BY <2>2, NoItem
    <3> QED
      BY <1>2, <3>1
  <2> QED
    BY <2>1, <2>3, Freed
<1>4. CASE Len(task[t].rest) # 1
  <2> DEFINE r == [by |-> task[t].by, rest |-> Tail(task[t].rest), net |-> "sent"]
  <2>1. task' = [task EXCEPT ![t] = r]
    BY <1>0, <1>4 DEF Advance
  <2>2. r.by = task[t].by /\ r.rest = Tail(task[t].rest) /\ r.net = "sent" /\ r \in TaskType
    BY <1>0, <1>2 DEF TaskType
  <2> HIDE DEF r
  <2>3. task' \in [Slots -> TaskType] /\ task'[t] = r /\ \A u \in Slots : u # t => task'[u] = task[u]
    BY <1>0, <2>1, <2>2
  <2> QED
    BY <1>0, <1>1, <1>2, <1>4, <2>2, <2>3
<1> QED
  BY <1>3, <1>4

\* What is left on the wire was sent by a call that is gone.
LEMMA AbandonedRequests ==
    ASSUME TypeOK, TasksOK, NEW T \in SUBSET Slots, Abandoned(T)
    PROVE  /\ late \subseteq late' /\ late' \subseteq Actions
           /\ \A a \in late' : a \in late \/ \E t \in T : task[t].net = "sent" /\ a = Current(t).act
<1>1. PICK S \in SUBSET {Wire(t) : t \in {u \in T : task[u].net = "sent"}} : late' = late \cup S
  BY DEF Abandoned
<1>2. \A a \in S : \E t \in T : task[t].net = "sent" /\ a = Wire(t)
  OBVIOUS
<1>3. \A t \in T : task[t].net = "sent" => Wire(t) = Current(t).act /\ Current(t).act \in Actions
  BY CurrentItem
<1>4. late \subseteq Actions
  BY DEF TypeOK
<1>5. \A a \in S : a \in Actions /\ \E t \in T : task[t].net = "sent" /\ a = Current(t).act
  BY <1>2, <1>3
<1> QED
  BY <1>1, <1>4, <1>5

\* A server step decides one pending proposal, or carries out one erasure, or neither.
LEMMA Handled ==
    ASSUME TypeOK, NEW a \in Actions, NEW answer, Handle(a, answer)
    PROVE  /\ content' = content
           /\ \/ status' = status
              \/ /\ a \in Approve /\ a.id \in Proposals /\ content[a.id] = a.digest
                 /\ status' = [status EXCEPT ![a.id] = "approved"]
              \/ a.id \in Proposals /\ status' = [status EXCEPT ![a.id] = "rejected"]
           /\ \/ erased' = erased
              \/ a \in Erase /\ a.id \in Erasures /\ erased' = [erased EXCEPT ![a.id] = @ + 1]
<1>1. /\ a.kind = "approve" => a \in Approve /\ a.id \in Proposals
      /\ a.kind = "reject" => a.id \in Proposals
      /\ a.kind = "erase" => a \in Erase /\ a.id \in Erasures
  BY DEF Actions, Approve, Reject, Erase
<1> QED
  BY <1>1, Zenon DEF Handle, Decide, server

\* The server's handler keeps the types of its tables.
LEMMA HandledType ==
    ASSUME TypeOK, NEW a \in Actions, NEW answer, Handle(a, answer)
    PROVE  /\ status' \in [Proposals -> {"pending", "approved", "rejected", "other"}]
           /\ content' \in [Proposals -> Contents] /\ erased' \in [Erasures -> Nat]
<1>1. /\ status \in [Proposals -> {"pending", "approved", "rejected", "other"}]
      /\ content \in [Proposals -> Contents] /\ erased \in [Erasures -> Nat]
  BY DEF TypeOK
<1>2. status' \in [Proposals -> {"pending", "approved", "rejected", "other"}]
  BY <1>1, Handled
<1>3. erased' \in [Erasures -> Nat]
  BY <1>1, Handled
<1> QED
  BY <1>1, <1>2, <1>3, Handled

\* The parts of CopiesOK by name.
LEMMA Copies ==
    ASSUME TypeOK, CopiesOK
    PROVE  /\ queue \in Seq(Item) /\ kept \in Seq(Item) /\ Single(queue)
           /\ \A x \in Items(kept) : is_parked(x)
           /\ Items(queue) \in SUBSET Item /\ Items(kept) \in SUBSET Item /\ Rows = Items(kept)
<1>1. queue \in Seq(Item) /\ kept \in Seq(Item)
  BY DEF TypeOK
<1>2. Single(queue) /\ \A x \in Items(kept) : is_parked(x)
  BY Zenon DEF CopiesOK, Single, Items
<1>3. Items(queue) \in SUBSET Item /\ Items(kept) \in SUBSET Item
  BY <1>1, ItemsOf
<1>4. Rows = Items(kept)
  BY DEF Rows, Items
<1> QED
  BY <1>1, <1>2, <1>3, <1>4

\* What an enqueue adds, what it may evict, and that it makes no twin.
LEMMA Enqueued ==
    ASSUME TypeOK, CopiesOK, NEW item \in Item, enqueue(item)
    PROVE  /\ queue' = queue_add(queue, item) /\ queue' \in Seq(Item) /\ Single(queue')
           /\ kept' = <<>> \/ kept' = kept
           /\ kept' \in Seq(Item) /\ owed' \subseteq Actions /\ item.act \in Actions
           /\ Has(queue', item.act)
           /\ Items(queue') \in SUBSET (Items(queue) \cup {item})
           /\ Has(queue, item.act) => queue' = queue
           /\ \A x \in Items(queue) : x \in Items(queue') \/ x.act \in Evicted(item)
<1>0. queue' = queue_add(queue, item) /\ queue \in Seq(Item) /\ kept \in Seq(Item) /\ Single(queue)
      /\ owed \subseteq Actions /\ item.act \in Actions
  BY Copies DEF enqueue, TypeOK, Item
<1>1. /\ queue' \in Seq(Item) /\ Single(queue')
      /\ Has(queue, item.act) => queue' = queue
      /\ ~Has(queue, item.act) =>
            /\ Items(queue') \in SUBSET (Items(queue) \cup {item})
            /\ item \in Items(queue')
            /\ \A x \in Items(queue) : x \in Items(queue') \/ (Len(queue) >= MaxQueued /\ x = Head(queue))
  BY <1>0, AddedItems
<1>2. kept' = <<>> \/ kept' = kept
  BY DEF enqueue
<1>3. kept' \in Seq(Item)
  BY <1>0, <1>2, NoItem, Zenon
<1>4. owed' \subseteq Actions
  BY <1>0 DEF enqueue
<1>5. Has(queue', item.act)
  BY <1>1, Asked
<1>6. \A x \in Items(queue) : x \in Items(queue') \/ x.act \in Evicted(item)
  BY <1>1 DEF Evicted
<1>7. Items(queue') \in SUBSET (Items(queue) \cup {item})
  BY <1>1
<1> QED
  BY <1>0, <1>1, <1>2, <1>3, <1>4, <1>5, <1>6, <1>7

\* An approval from the list is an item that is not parked.
LEMMA ListedItem ==
    ASSUME TypeOK, NEW p \in Proposals
    PROVE  /\ AsListed(p) \in Item /\ AsListed(p).act = Approval(p, listed[p])
           /\ Approval(p, listed[p]) \in Approve /\ ~is_parked(AsListed(p))
           /\ Approval(p, listed[p]).id = p /\ Approval(p, listed[p]).digest = listed[p]
           /\ ~is_destructive(Approval(p, listed[p]))
<1> DEFINE a == Approval(p, listed[p])
<1>1. listed[p] \in Contents \cup {None}
  BY DEF TypeOK
<1>2. a \in Approve /\ a.kind = "approve" /\ a.id = p /\ a.digest = listed[p]
  BY <1>1 DEF Approve, Approval
<1>3. a \in Actions /\ ~is_destructive(a) /\ AsListed(p) = [act |-> a, retries |-> 0]
  BY <1>2 DEF Actions, is_destructive, AsListed
<1> HIDE DEF a
<1>4. [act |-> a, retries |-> 0] \in Item /\ [act |-> a, retries |-> 0].act = a
  BY <1>3 DEF Item
<1>5. ~is_parked([act |-> a, retries |-> 0])
  BY <1>3, ClientAssumption DEF ClientAssumption, is_parked
<1> QED
  BY <1>2, <1>3, <1>4, <1>5 DEF a

\* What the banner's update leaves of the queue and of its own copy.
LEMMA Updated ==
    ASSUME TypeOK, CopiesOK, NEW rows \in Seq(Item), Items(rows) \in SUBSET Items(kept),
           NEW dropped, Update(rows, dropped)
    PROVE  /\ kept' = rows /\ owed' = owed \ dropped /\ queue' \in Seq(Item) /\ Single(queue')
           /\ Items(queue') = {x \in Items(queue) : ~is_parked(x)} \cup Items(rows)
           /\ \A x \in Items(rows) : is_parked(x)
<1>1. kept' = rows /\ owed' = owed \ dropped /\ queue' = replace_parked(queue, rows)
  BY DEF Update
<1>2. \A x \in Items(rows) : is_parked(x)
  BY Copies
<1> QED
  BY <1>1, <1>2, Copies, ReplacedItems

-----------------------------------------------------------------------------
(* Types                                                                   *)

\* The actions by what they do to the tasks and the queue.
Begins(t) ==
    \/ \E a \in Actions : Click(t, a)
    \/ \E p \in picked : ListCall(t, p)
    \/ ReplayEffect(t)
    \/ \E item \in Rows : BannerReplay(t, item)
Lists == ListRefresh \/ \E S \in SUBSET Proposals : ListPick(S)
Requeues(t) == PanelOffline(t) \/ ListOffline(t) \/ ReplayOffline(t)
\* What a failed call puts in the queue.
Requeued(t) == IF task[t].by = "list" THEN AsListed(Current(t).act.id) ELSE Current(t)
Answers(t) == PanelAnswered(t) \/ ReplayApplied(t) \/ ReplayRefused(t)
Drops(t) == LeavePanel(t) \/ RowCancelled(t)

\* The actions, grouped by what they do to the queue.
LEMMA Steps ==
    ASSUME Next
    PROVE  \/ \E t \in Slots : Begins(t) \/ Serve(t) \/ Requeues(t) \/ Answers(t) \/ Drops(t)
                               \/ BannerDone(t) \/ BannerFailed(t) \/ NetworkError(t)
           \/ \E a \in late : ServeLate(a)
           \/ \E p \in Proposals : OtherReviewer(p)
           \/ BannerSync \/ BannerDismiss \/ (\E item \in Rows : BannerSkip(item))
           \/ ProbeUp \/ ProbeDown \/ Reload \/ Lists \/ LeaveList
BY Zenon DEF Next, Work, Begins, Requeues, Answers, Drops, Lists

\* The list's own steps change the list and what was displayed and asked.
LEMMA ListSteps ==
    ASSUME Lists
    PROVE  UNCHANGED <<status, content, erased, late, queue, kept, conn, task, clicks, owed>>
BY DEF Lists, ListRefresh, ListPick, server

\* Leaving the list frees the list's tasks.
LEMMA ListLeft ==
    ASSUME TypeOK, LeaveList
    PROVE  /\ task' \in [Slots -> TaskType]
           /\ UNCHANGED <<status, content, erased, queue, kept, conn, shown, asked, clicks, owed>>
           /\ listed' = Unlisted /\ picked' = {}
           /\ \E T \in SUBSET Slots :
                 /\ Abandoned(T)
                 /\ \A t \in T : task'[t] = Free /\ task[t].by = "list"
                 /\ \A t \in Slots : t \notin T => task'[t] = task[t]
<1> DEFINE T == {t \in Slots : task[t].by = "list"}
<1>1. /\ Abandoned(T) /\ task' = [t \in Slots |-> IF t \in T THEN Free ELSE task[t]]
      /\ listed' = Unlisted /\ picked' = {} /\ UNCHANGED <<server, queue, kept, conn, hist>>
  BY DEF LeaveList
<1>2. T \in SUBSET Slots /\ \A t \in T : task[t].by = "list"
  OBVIOUS
<1> HIDE DEF T
<1>3. task' \in [Slots -> TaskType]
  BY <1>1, FreeTask DEF TypeOK
<1>4. /\ \A t \in T : task'[t] = Free
      /\ \A t \in Slots : t \notin T => task'[t] = task[t]
  BY <1>1, <1>2
<1> QED
  BY <1>1, <1>2, <1>3, <1>4 DEF server, hist

\* Which task is begun, and with what.
LEMMA Begun ==
    ASSUME TypeOK, CopiesOK, NEW t \in Slots, Begins(t)
    PROVE  /\ ~Running(t) /\ task' \in [Slots -> TaskType] /\ task'[t].net = "sent"
           /\ \A u \in Slots : u # t => task'[u] = task[u]
           /\ \/ /\ task'[t].by = "operator" /\ queue' = queue
                 /\ \E a \in Actions : Click(t, a) /\ task'[t].rest = <<[act |-> a, retries |-> 0]>>
              \/ /\ task'[t].by = "list" /\ queue' = queue /\ clicks' = clicks
                 /\ \E p \in picked : ListCall(t, p) /\ task'[t].rest = <<AsListed(p)>>
              \/ /\ task'[t].by = "auto" /\ task'[t].rest = replayable(queue) /\ queue' = parked(queue)
                 /\ replayable(queue) # <<>> /\ UNCHANGED <<asked, clicks>>
              \/ /\ task'[t].by = "banner" /\ queue' = queue
                 /\ \E item \in Items(kept) : BannerReplay(t, item) /\ task'[t].rest = <<item>>
           /\ UNCHANGED <<server, late, kept, owed>>
<1>0. queue \in Seq(Item) /\ Items(kept) \in SUBSET Item /\ Rows = Items(kept)
  BY Copies
<1>1. ASSUME NEW a \in Actions, Click(t, a)
      PROVE  /\ ~Running(t) /\ task' \in [Slots -> TaskType] /\ task'[t].net = "sent" /\ task'[t].by = "operator"
             /\ \A u \in Slots : u # t => task'[u] = task[u]
             /\ queue' = queue /\ task'[t].rest = <<[act |-> a, retries |-> 0]>>
             /\ UNCHANGED <<server, late, kept, owed>>
  <2> DEFINE x == [act |-> a, retries |-> 0]
  <2>1. x \in Item
    BY DEF Item
  <2>2. ~Running(t) /\ Launch(t, "operator", <<x>>) /\ queue' = queue /\ UNCHANGED <<server, late, kept, owed>>
    BY <1>1 DEF Click, NextFree
  <2> HIDE DEF x
  <2>3. <<x>> \in Seq(Item)
    BY <2>1, OneItem
  <2>4. /\ task' \in [Slots -> TaskType] /\ task'[t].by = "operator" /\ task'[t].rest = <<x>>
        /\ task'[t].net = "sent" /\ \A u \in Slots : u # t => task'[u] = task[u]
    BY <2>2, <2>3, Launched
  <2> QED
    BY <2>2, <2>4 DEF x
<1>2. ASSUME ReplayEffect(t)
      PROVE  /\ ~Running(t) /\ task' \in [Slots -> TaskType] /\ task'[t].net = "sent" /\ task'[t].by = "auto"
             /\ \A u \in Slots : u # t => task'[u] = task[u]
             /\ queue' = parked(queue) /\ task'[t].rest = replayable(queue) /\ replayable(queue) # <<>>
             /\ UNCHANGED <<asked, clicks>> /\ UNCHANGED <<server, late, kept, owed>>
  <2>1. ~Running(t) /\ Launch(t, "auto", replayable(queue)) /\ queue' = parked(queue)
        /\ replayable(queue) # <<>> /\ UNCHANGED <<asked, clicks>> /\ UNCHANGED <<server, late, kept, owed>>
    BY <1>2 DEF ReplayEffect, NextFree, hist
  <2>2. replayable(queue) \in Seq(Item)
    BY <1>0, ReplayableItems
  <2> QED
    BY <2>1, <2>2, Launched
<1>3. ASSUME NEW item \in Rows, BannerReplay(t, item)
      PROVE  /\ ~Running(t) /\ task' \in [Slots -> TaskType] /\ task'[t].net = "sent" /\ task'[t].by = "banner"
             /\ \A u \in Slots : u # t => task'[u] = task[u]
             /\ queue' = queue /\ task'[t].rest = <<item>> /\ UNCHANGED <<server, late, kept, owed>>
  <2>1. ~Running(t) /\ Launch(t, "banner", <<item>>) /\ queue' = queue /\ UNCHANGED <<server, late, kept, owed>>
    BY <1>3 DEF BannerReplay, NextFree
  <2>2. <<item>> \in Seq(Item)
    BY <1>0, OneItem
  <2> QED
    BY <2>1, <2>2, Launched
<1>4. ASSUME NEW p \in picked, ListCall(t, p)
      PROVE  /\ ~Running(t) /\ task' \in [Slots -> TaskType] /\ task'[t].net = "sent" /\ task'[t].by = "list"
             /\ \A u \in Slots : u # t => task'[u] = task[u]
             /\ queue' = queue /\ clicks' = clicks /\ task'[t].rest = <<AsListed(p)>>
             /\ UNCHANGED <<server, late, kept, owed>>
  <2>1. /\ ~Running(t) /\ Launch(t, "list", <<AsListed(p)>>) /\ queue' = queue /\ clicks' = clicks
        /\ UNCHANGED <<server, late, kept, owed>>
    BY <1>4 DEF ListCall, NextFree, hist
  <2>2. p \in Proposals
    BY DEF TypeOK
  <2>3. <<AsListed(p)>> \in Seq(Item)
    BY <2>2, ListedItem, OneItem
  <2> QED
    BY <2>1, <2>3, Launched
<1> QED
  BY <1>0, <1>1, <1>2, <1>3, <1>4, Zenon DEF Begins

\* A call that has ended is no longer on the wire, and its task goes on.
LEMMA EndedCalls ==
    ASSUME NEW t \in Slots, Requeues(t) \/ Answers(t) \/ BannerDone(t) \/ BannerFailed(t)
    PROVE  /\ Running(t) /\ task[t].net # "sent" /\ Advance(t)
           /\ UNCHANGED <<status, content, erased, late, shown, asked, clicks, listed, picked>>
<1> DEFINE Goes == /\ Running(t) /\ task[t].net # "sent" /\ Advance(t)
                   /\ UNCHANGED <<status, content, erased, late, shown, asked, clicks, listed, picked>>
<1>1. ASSUME PanelOffline(t) \/ ListOffline(t) \/ ReplayOffline(t) PROVE Goes
  BY <1>1 DEF PanelOffline, ListOffline, ReplayOffline, Ended, Running, server, list, said
<1>2. ASSUME PanelAnswered(t) \/ ReplayApplied(t) \/ ReplayRefused(t) PROVE Goes
  BY <1>2 DEF PanelAnswered, ReplayApplied, ReplayRefused, Ended, Running, server, list, said
<1>3. ASSUME BannerDone(t) \/ BannerFailed(t) PROVE Goes
  BY <1>3 DEF BannerDone, BannerFailed, Ended, Running, hist, server, list, said
<1> QED
  BY <1>1, <1>2, <1>3 DEF Requeues, Answers

\* The banner's operations put some of its rows in the place of all of them.
LEMMA BannerUpdates ==
    ASSUME TypeOK, CopiesOK,
           (\E t \in Slots : BannerDone(t)) \/ BannerDismiss \/ (\E item \in Rows : BannerSkip(item))
    PROVE  /\ kept # <<>>
           /\ \E rows, dropped :
                 /\ rows \in Seq(Item) /\ Items(rows) \in SUBSET Items(kept) /\ Update(rows, dropped)
                 /\ \A x \in Items(kept) : x \in Items(rows) \/ x.act \in dropped
<1>0. kept \in Seq(Item) /\ Rows = Items(kept)
  BY Copies
<1>1. ASSUME NEW a, Has(kept, a), Update(Minus(kept, a), {a})
      PROVE  /\ kept # <<>>
             /\ \E rows, dropped :
                   /\ rows \in Seq(Item) /\ Items(rows) \in SUBSET Items(kept) /\ Update(rows, dropped)
                   /\ \A x \in Items(kept) : x \in Items(rows) \/ x.act \in dropped
  <2>1. kept # <<>>
    BY <1>0, <1>1, ItemsOf, Asked
  <2>2. Minus(kept, a) \in Seq(Item) /\ Items(Minus(kept, a)) = {x \in Items(kept) : x.act # a}
    BY <1>0, MinusItems
  <2>3. /\ Items(Minus(kept, a)) \in SUBSET Items(kept)
        /\ \A x \in Items(kept) : x \in Items(Minus(kept, a)) \/ x.act \in {a}
    BY <2>2
  <2> QED
    BY <1>1, <2>1, <2>2, <2>3
<1>2. ASSUME NEW t \in Slots, BannerDone(t)
      PROVE  Has(kept, Current(t).act) /\ Update(Minus(kept, Current(t).act), {Current(t).act})
  BY <1>2 DEF BannerDone, RowGone, Ended
<1>3. ASSUME NEW item \in Rows, BannerSkip(item)
      PROVE  Has(kept, item.act) /\ Update(Minus(kept, item.act), {item.act})
  BY <1>0, <1>3, Asked DEF BannerSkip
<1>4. ASSUME BannerDismiss
      PROVE  /\ kept # <<>>
             /\ \E rows, dropped :
                   /\ rows \in Seq(Item) /\ Items(rows) \in SUBSET Items(kept) /\ Update(rows, dropped)
                   /\ \A x \in Items(kept) : x \in Items(rows) \/ x.act \in dropped
  <2> DEFINE D == {item.act : item \in Rows}
  <2>1. kept # <<>> /\ Update(<<>>, D)
    BY <1>4 DEF BannerDismiss
  <2>2. \A x \in Items(kept) : x.act \in D
    BY <1>0
  <2> HIDE DEF D
  <2>3. <<>> \in Seq(Item) /\ Items(<<>>) \in SUBSET Items(kept)
    BY NoItem
  <2> QED
    BY <2>1, <2>2, <2>3
<1> QED
  BY <1>1, <1>2, <1>3, <1>4

\* Which steps change the list and what was displayed and asked.
LEMMA SaidSteps ==
    ASSUME Next
    PROVE  \/ UNCHANGED <<listed, picked, shown, asked>>
           \/ \E t \in Slots, a \in Actions : Click(t, a)
           \/ \E t \in Slots, p \in picked : ListCall(t, p)
           \/ ListRefresh
           \/ \E S \in SUBSET Proposals : ListPick(S)
           \/ listed' = Unlisted /\ picked' = {} /\ UNCHANGED <<shown, asked>>
<1>1. ASSUME NEW t \in Slots, ReplayEffect(t) \/ \E item \in Rows : BannerReplay(t, item)
      PROVE  UNCHANGED <<listed, picked, shown, asked>>
  BY <1>1 DEF ReplayEffect, BannerReplay, list, said, hist
<1>2. ASSUME NEW t \in Slots, Requeues(t) \/ Answers(t) \/ BannerDone(t) \/ BannerFailed(t)
      PROVE  UNCHANGED <<listed, picked, shown, asked>>
  BY <1>2, EndedCalls
<1>3. ASSUME \E t \in Slots : Serve(t) \/ Drops(t) \/ NetworkError(t)
      PROVE  UNCHANGED <<listed, picked, shown, asked>>
  BY <1>3 DEF Serve, Drops, LeavePanel, RowCancelled, NetworkError, list, hist
<1>4. ASSUME \/ \E b \in late : ServeLate(b)
             \/ \E p \in Proposals : OtherReviewer(p)
             \/ BannerSync \/ BannerDismiss \/ (\E item \in Rows : BannerSkip(item))
             \/ ProbeUp \/ ProbeDown
      PROVE  UNCHANGED <<listed, picked, shown, asked>>
  BY <1>4 DEF ServeLate, OtherReviewer, BannerSync, BannerDismiss, BannerSkip, ProbeUp, ProbeDown,
              client, list, said, hist
<1>5. ASSUME Reload \/ LeaveList PROVE listed' = Unlisted /\ picked' = {} /\ UNCHANGED <<shown, asked>>
  BY <1>5 DEF Reload, LeaveList, said, hist
<1> QED
  BY <1>1, <1>2, <1>3, <1>4, <1>5, Steps, Zenon DEF Begins, Lists

SaidOK ==
    /\ listed \in [Proposals -> Contents \cup {None}] /\ picked \subseteq Proposals
    /\ shown \subseteq Approve /\ asked \subseteq Proposals

\* The list keeps its type, and what was displayed or asked is never taken back.
LEMMA SaidStep ==
    ASSUME TypeOK, Next
    PROVE  SaidOK' /\ shown \subseteq shown' /\ asked \subseteq asked'
<1>0. SaidOK /\ status \in [Proposals -> {"pending", "approved", "rejected", "other"}]
      /\ content \in [Proposals -> Contents]
  BY DEF TypeOK, SaidOK
<1>1. ASSUME UNCHANGED <<listed, picked, shown, asked>>
      PROVE  SaidOK' /\ shown \subseteq shown' /\ asked \subseteq asked'
  BY <1>0, <1>1 DEF SaidOK
<1>2. ASSUME NEW t \in Slots, NEW a \in Actions, Click(t, a)
      PROVE  SaidOK' /\ shown \subseteq shown' /\ asked \subseteq asked'
  <2>1. /\ asked' = asked \cup {b.id : b \in {a} \cap Approve} /\ shown' = shown \cup ({a} \cap Approve)
        /\ listed' = listed /\ picked' = picked
    BY <1>2 DEF Click, list
  <2>2. \A b \in Approve : b.id \in Proposals
    BY DEF Approve
  <2> QED
    BY <1>0, <2>1, <2>2 DEF SaidOK
<1>3. ASSUME NEW t \in Slots, NEW p \in picked, ListCall(t, p)
      PROVE  SaidOK' /\ shown \subseteq shown' /\ asked \subseteq asked'
  <2>1. picked' \subseteq picked /\ UNCHANGED <<listed, shown, asked>>
    BY <1>3 DEF ListCall, hist
  <2> QED
    BY <1>0, <2>1 DEF SaidOK
<1>4. ASSUME ListRefresh PROVE SaidOK' /\ shown \subseteq shown' /\ asked \subseteq asked'
  <2>1. listed' \in [Proposals -> Contents \cup {None}] /\ UNCHANGED <<picked, asked>>
    BY <1>0, <1>4 DEF ListRefresh, Unlisted
  <2>2. shown' = shown \cup {Approval(p, listed'[p]) : p \in {q \in Proposals : listed'[q] # None}}
    BY <1>4 DEF ListRefresh
  <2>3. \A p \in Proposals : Approval(p, listed'[p]) \in Approve
    BY <2>1 DEF Approval, Approve
  <2> QED
    BY <1>0, <2>1, <2>2, <2>3 DEF SaidOK
<1>5. ASSUME NEW S \in SUBSET Proposals, ListPick(S)
      PROVE  SaidOK' /\ shown \subseteq shown' /\ asked \subseteq asked'
  BY <1>0, <1>5 DEF SaidOK, ListPick
<1>6. ASSUME listed' = Unlisted /\ picked' = {} /\ UNCHANGED <<shown, asked>>
      PROVE  SaidOK' /\ shown \subseteq shown' /\ asked \subseteq asked'
  BY <1>0, <1>6 DEF SaidOK, Unlisted
<1> QED
  BY <1>1, <1>2, <1>3, <1>4, <1>5, <1>6, SaidSteps, Zenon

\* A failed call queues its own action, or what the list has of it now.
LEMMA RequeuedCall ==
    ASSUME TypeOK, TasksOK, NEW t \in Slots, Requeues(t)
    PROVE  /\ enqueue(Requeued(t)) /\ Requeued(t) \in Item /\ Requeued(t).act \in Actions
           /\ Current(t) \in Items(task[t].rest) /\ conn' = conn
           /\ \/ task[t].by \in {"operator", "auto"} /\ Requeued(t) = Current(t)
              \/ /\ task[t].by = "list" /\ Current(t).act \in Approve /\ Current(t).act.id \in Proposals
                 /\ Requeued(t) = AsListed(Current(t).act.id)
<1>1. /\ Current(t) \in Item /\ Current(t).act \in Actions /\ Current(t) \in Items(task[t].rest)
      /\ task[t].by = "list" => Current(t).act \in Approve
  BY EndedCalls, CurrentItem DEF Running
<1>2. conn' = conn
  BY DEF Requeues, PanelOffline, ListOffline, ReplayOffline
<1>3. CASE PanelOffline(t) \/ ReplayOffline(t)
  <2>1. task[t].by \in {"operator", "auto"} /\ enqueue(Current(t))
    BY <1>3 DEF PanelOffline, ReplayOffline, Ended
  <2> QED
    BY <1>1, <1>2, <2>1 DEF Requeued
<1>4. CASE ListOffline(t)
  <2>1. task[t].by = "list" /\ enqueue(AsListed(Current(t).act.id))
    BY <1>4 DEF ListOffline, Ended
  <2>2. Current(t).act.id \in Proposals
    BY <1>1, <2>1 DEF Approve
  <2>3. AsListed(Current(t).act.id) \in Item
    BY <2>2, ListedItem
  <2>4. AsListed(Current(t).act.id).act \in Actions
    BY <2>3 DEF Item
  <2> QED
    BY <1>1, <1>2, <2>1, <2>2, <2>3, <2>4 DEF Requeued
<1> QED
  BY <1>3, <1>4 DEF Requeues

CoreOK ==
    /\ status \in [Proposals -> {"pending", "approved", "rejected", "other"}]
    /\ content \in [Proposals -> Contents]
    /\ erased \in [Erasures -> Nat] /\ clicks \in [Erasures -> Nat]
    /\ late \subseteq Actions /\ owed \subseteq Actions
    /\ queue \in Seq(Item) /\ kept \in Seq(Item)
    /\ conn \in {"down", "recovering", "up"}
    /\ task \in [Slots -> TaskType]

\* Every action keeps the types of the other variables.
LEMMA CoreStep ==
    ASSUME TypeOK, TasksOK, CopiesOK, Next
    PROVE  CoreOK'
<1>0. /\ status \in [Proposals -> {"pending", "approved", "rejected", "other"}]
      /\ content \in [Proposals -> Contents]
      /\ erased \in [Erasures -> Nat] /\ clicks \in [Erasures -> Nat]
      /\ late \subseteq Actions /\ owed \subseteq Actions
      /\ queue \in Seq(Item) /\ kept \in Seq(Item)
      /\ conn \in {"down", "recovering", "up"}
      /\ task \in [Slots -> TaskType]
  BY DEF TypeOK
<1>n. <<>> \in Seq(Item)
  BY NoItem
<1>1. ASSUME NEW t \in Slots, Begins(t) PROVE CoreOK'
  <2>1. task' \in [Slots -> TaskType] /\ UNCHANGED <<server, late, kept, owed>>
    BY <1>1, Begun
  <2>2. queue' \in Seq(Item)
    <3>1. queue' = queue \/ queue' = parked(queue)
      BY <1>1, Begun
    <3>2. parked(queue) \in Seq(Item)
      BY <1>0, ParkedItems
    <3> QED
      BY <1>0, <3>1, <3>2, Zenon
  <2>3. clicks' \in [Erasures -> Nat] /\ conn' = conn
    <3>0. \A g : [clicks EXCEPT ![g] = @ + 1] \in [Erasures -> Nat]
      <4>1. ASSUME NEW g PROVE [clicks EXCEPT ![g] = clicks[g] + 1] \in [Erasures -> Nat]
        <5>1. g \in Erasures => clicks[g] + 1 \in Nat
          BY <1>0
        <5> QED
          BY <1>0, <5>1
      <4> QED
        BY <4>1
    <3>1. ASSUME NEW a \in Actions, Click(t, a)
          PROVE  clicks' \in [Erasures -> Nat] /\ conn' = conn
      <4>1. conn' = conn
        BY <3>1 DEF Click
      <4>2. clicks' = clicks \/ clicks' = [clicks EXCEPT ![a.id] = @ + 1]
        BY <3>1 DEF Click
      <4>3. clicks' \in [Erasures -> Nat]
        <5>1. [clicks EXCEPT ![a.id] = @ + 1] \in [Erasures -> Nat]
          BY <3>0
        <5>2. clicks \in [Erasures -> Nat]
          BY <1>0
        <5> QED
          BY <4>2, <5>1, <5>2, Zenon
      <4> QED
        BY <4>1, <4>3
    <3>2. ASSUME ReplayEffect(t) \/ \E p \in picked : ListCall(t, p) PROVE UNCHANGED <<clicks, conn>>
      BY <3>2 DEF ReplayEffect, ListCall, hist
    <3>3. ASSUME NEW item \in Rows, BannerReplay(t, item)
          PROVE  clicks' \in [Erasures -> Nat] /\ conn' = conn
      <4>1. conn' = conn
        BY <3>3 DEF BannerReplay
      <4>2. clicks' = clicks \/ \E g : clicks' = [clicks EXCEPT ![g] = @ + 1]
        BY <3>3 DEF BannerReplay
      <4>3. clicks' \in [Erasures -> Nat]
        BY <1>0, <3>0, <4>2, Zenon
      <4> QED
        BY <4>1, <4>3
    <3> QED
      BY <1>0, <1>1, <3>1, <3>2, <3>3 DEF Begins
  <2> QED
    BY <1>0, <2>1, <2>2, <2>3 DEF CoreOK, server
<1>2. ASSUME NEW t \in Slots, Serve(t) PROVE CoreOK'
  <2>1. PICK answer \in {"ok", "gone", "refused"} :
           Handle(Wire(t), answer) /\ task' = [task EXCEPT ![t].net = answer]
    BY <1>2 DEF Serve
  <2>2. Wire(t) \in Actions
    BY <1>2, CurrentItem DEF Serve
  <2>3. /\ status' \in [Proposals -> {"pending", "approved", "rejected", "other"}]
        /\ content' \in [Proposals -> Contents] /\ erased' \in [Erasures -> Nat]
    BY <2>1, <2>2, HandledType
  <2>4. task' \in [Slots -> TaskType]
    BY <2>1, Netted
  <2>5. UNCHANGED <<late, queue, kept, conn, hist>>
    BY <1>2 DEF Serve
  <2> QED
    BY <1>0, <2>3, <2>4, <2>5 DEF CoreOK, hist
<1>3. ASSUME NEW t \in Slots, Requeues(t) PROVE CoreOK'
  <2>1. task' \in [Slots -> TaskType] /\ UNCHANGED <<status, content, erased, late, clicks>>
    BY <1>3, EndedCalls, Advanced
  <2>2. enqueue(Requeued(t)) /\ Requeued(t) \in Item /\ conn' = conn
    BY <1>3, RequeuedCall
  <2>3. queue' \in Seq(Item) /\ kept' \in Seq(Item) /\ owed' \subseteq Actions
    BY <2>2, Enqueued
  <2> QED
    BY <1>0, <2>1, <2>2, <2>3 DEF CoreOK
<1>4. ASSUME NEW t \in Slots, Answers(t) PROVE CoreOK'
  <2>1. task' \in [Slots -> TaskType] /\ UNCHANGED <<status, content, erased, late, clicks>>
    BY <1>4, EndedCalls, Advanced
  <2>2. owed' \subseteq owed /\ UNCHANGED <<kept, conn>>
        /\ (queue' = queue \/ queue' = requeue_in(queue, Current(t).act))
    BY <1>4 DEF Answers, PanelAnswered, ReplayApplied, ReplayRefused, Answered
  <2>3. queue' \in Seq(Item)
    BY <1>0, <2>2, Copies, RequeuedItems
  <2> QED
    BY <1>0, <2>1, <2>2, <2>3 DEF CoreOK
<1>5. ASSUME NEW t \in Slots, Drops(t) PROVE CoreOK'
  <2>1. Abandoned({t}) /\ task' = [task EXCEPT ![t] = Free] /\ UNCHANGED <<server, queue, kept, conn, hist>>
    BY <1>5 DEF Drops, LeavePanel, RowCancelled
  <2>2. late' \subseteq Actions
    BY <2>1, AbandonedRequests
  <2>3. task' \in [Slots -> TaskType]
    BY <2>1, Freed
  <2> QED
    BY <1>0, <2>1, <2>2, <2>3 DEF CoreOK, server, hist
<1>6. ASSUME NEW t \in Slots, BannerFailed(t) PROVE CoreOK'
  <2>1. task' \in [Slots -> TaskType] /\ UNCHANGED <<status, content, erased, late, clicks>>
    BY <1>6, EndedCalls, Advanced
  <2>2. UNCHANGED <<queue, kept, conn, owed>>
    BY <1>6 DEF BannerFailed, hist
  <2> QED
    BY <1>0, <2>1, <2>2 DEF CoreOK
<1>7. ASSUME NEW t \in Slots, NetworkError(t) PROVE CoreOK'
  <2>1. Abandoned({t}) /\ task' = [task EXCEPT ![t].net = "offline"] /\ UNCHANGED <<server, queue, kept, conn, hist>>
    BY <1>7 DEF NetworkError
  <2>2. late' \subseteq Actions
    BY <2>1, AbandonedRequests
  <2>3. task' \in [Slots -> TaskType]
    BY <2>1, Netted
  <2> QED
    BY <1>0, <2>1, <2>2, <2>3 DEF CoreOK, server, hist
<1>8. ASSUME NEW a \in late, ServeLate(a) PROVE CoreOK'
  <2>1. PICK answer \in {"ok", "gone", "refused"} : Handle(a, answer)
    BY <1>8 DEF ServeLate
  <2>2. /\ status' \in [Proposals -> {"pending", "approved", "rejected", "other"}]
        /\ content' \in [Proposals -> Contents] /\ erased' \in [Erasures -> Nat]
    BY <1>0, <2>1, HandledType
  <2>3. late' \subseteq Actions /\ UNCHANGED <<client, hist>>
    BY <1>0, <1>8 DEF ServeLate
  <2> QED
    BY <1>0, <2>2, <2>3 DEF CoreOK, client, hist
<1>9. ASSUME NEW p \in Proposals, OtherReviewer(p) PROVE CoreOK'
  BY <1>0, <1>9 DEF OtherReviewer, CoreOK, client, hist
<1>10. ASSUME (\E t \in Slots : BannerDone(t)) \/ BannerDismiss \/ (\E item \in Rows : BannerSkip(item))
       PROVE  CoreOK'
  <2>1. PICK rows, dropped : rows \in Seq(Item) /\ Items(rows) \in SUBSET Items(kept) /\ Update(rows, dropped)
    BY <1>10, BannerUpdates
  <2>2. kept' \in Seq(Item) /\ owed' \subseteq owed /\ queue' \in Seq(Item)
    BY <2>1, Updated
  <2>3. task' \in [Slots -> TaskType] /\ UNCHANGED <<status, content, erased, late, clicks, conn>>
    <3>1. ASSUME NEW t \in Slots, BannerDone(t)
          PROVE  task' \in [Slots -> TaskType] /\ UNCHANGED <<status, content, erased, late, clicks, conn>>
      BY <3>1, EndedCalls, Advanced DEF BannerDone
    <3>2. ASSUME BannerDismiss \/ (\E item \in Rows : BannerSkip(item))
          PROVE  UNCHANGED <<task, server, late, clicks, conn>>
      BY <3>2 DEF BannerDismiss, BannerSkip
    <3> QED
      BY <1>0, <1>10, <3>1, <3>2 DEF server
  <2> QED
    BY <1>0, <2>2, <2>3 DEF CoreOK
<1>11. ASSUME BannerSync PROVE CoreOK'
  <2>1. kept' = parked(queue) /\ UNCHANGED <<server, late, queue, conn, task, hist>>
    BY <1>11 DEF BannerSync
  <2>2. kept' \in Seq(Item)
    BY <1>0, <2>1, ParkedItems
  <2> QED
    BY <1>0, <2>1, <2>2 DEF CoreOK, server, hist
<1>12. ASSUME ProbeUp \/ ProbeDown PROVE CoreOK'
  <2>1. conn' \in {"down", "recovering", "up"} /\ (kept' = kept \/ kept' = <<>>)
        /\ UNCHANGED <<server, late, queue, task, hist>>
    BY <1>12 DEF ProbeUp, ProbeDown
  <2>2. kept' \in Seq(Item)
    BY <1>0, <1>n, <2>1, Zenon
  <2> QED
    BY <1>0, <2>1, <2>2 DEF CoreOK, server, hist
<1>13. ASSUME Reload PROVE CoreOK'
  <2>1. /\ Abandoned(Slots) /\ task' = [t \in Slots |-> Free] /\ owed' \subseteq owed
        /\ conn' = "down" /\ kept' = <<>> /\ UNCHANGED <<server, queue, clicks>>
    BY <1>13 DEF Reload
  <2>2. late' \subseteq Actions
    BY <2>1, AbandonedRequests
  <2>3. task' \in [Slots -> TaskType]
    BY <2>1, FreeTask
  <2> QED
    BY <1>0, <1>n, <2>1, <2>2, <2>3 DEF CoreOK, server
<1>14. ASSUME Lists PROVE CoreOK'
  BY <1>0, <1>14, ListSteps DEF CoreOK
<1>15. ASSUME LeaveList PROVE CoreOK'
  <2>1. late' \subseteq Actions
    BY <1>15, ListLeft, AbandonedRequests
  <2> QED
    BY <1>0, <1>15, <2>1, ListLeft DEF CoreOK
<1> QED
  BY <1>1, <1>2, <1>3, <1>4, <1>5, <1>6, <1>7, <1>8, <1>9, <1>10, <1>11, <1>12, <1>13,
     <1>14, <1>15, Steps, Zenon

\* Every action keeps the types.
LEMMA TypeStep ==
    ASSUME TypeOK, TasksOK, CopiesOK, Next
    PROVE  TypeOK'
BY CoreStep, SaidStep DEF TypeOK, CoreOK, SaidOK

-----------------------------------------------------------------------------
(* Tasks                                                                   *)

TaskOK(r) ==
    /\ r.by = "none" => r = Free
    /\ r.by # "none" => r.rest # <<>>
    /\ r.by \in {"operator", "list", "banner"} => Len(r.rest) = 1
    /\ r.by = "auto" => \A x \in Items(r.rest) : ~is_parked(x)
    /\ r.by = "list" => Head(r.rest).act \in Approve
    /\ r.by \in {"operator", "list"} => \A x \in Items(r.rest) : is_destructive(x.act) \/ ~is_parked(x)

\* TasksOK, task by task.
LEMMA TasksByTask == TasksOK <=> \A t \in Slots : TaskOK(task[t])
BY Zenon DEF TasksOK, TaskOK, Items, Running, Unparked, Current

\* TasksOK after a step, task by task.
LEMMA TasksByTaskNext == TasksOK' <=> \A t \in Slots : TaskOK(task'[t])
<1>1. ASSUME TasksOK' PROVE \A t \in Slots : TaskOK(task'[t])
  BY <1>1, ZenonT(40) DEF TasksOK, TaskOK, Items, Running, Unparked, Current, Slots, Approve
<1>2. ASSUME \A t \in Slots : TaskOK(task'[t]) PROVE TasksOK'
  BY <1>2, ZenonT(40) DEF TasksOK, TaskOK, Items, Running, Unparked, Current, Slots, Approve
<1> QED
  BY <1>1, <1>2

\* A free slot satisfies what is asked of a task.
LEMMA FreeTaskOK == TaskOK(Free)
BY FreeTask DEF TaskOK

\* A click's action is queued, if at all, with no retries spent.
LEMMA FreshItem ==
    ASSUME NEW a \in Actions
    PROVE  /\ [act |-> a, retries |-> 0] \in Item /\ [act |-> a, retries |-> 0].act = a
           /\ is_destructive(a) \/ ~is_parked([act |-> a, retries |-> 0])
BY ClientAssumption DEF ClientAssumption, Item, is_parked, is_destructive

\* Every action keeps what is asked of the tasks.
LEMMA TasksStep ==
    ASSUME TypeOK, TasksOK, CopiesOK, Next
    PROVE  TasksOK'
<1>0. \A t \in Slots : TaskOK(task[t])
  BY TasksByTask
<1> SUFFICES \A t \in Slots : TaskOK(task'[t])
  BY TasksByTaskNext
<1>1. ASSUME NEW t \in Slots, Begins(t) PROVE \A u \in Slots : TaskOK(task'[u])
  <2>1. CASE \E a \in Actions : /\ task'[t].by = "operator"
                                /\ task'[t].rest = <<[act |-> a, retries |-> 0]>>
    <3>1. PICK a \in Actions : task'[t].by = "operator" /\ task'[t].rest = <<[act |-> a, retries |-> 0]>>
      BY <2>1
    <3> DEFINE x == [act |-> a, retries |-> 0]
    <3>2. x \in Item /\ (is_destructive(x.act) \/ ~is_parked(x)) /\ task'[t].rest = <<x>>
      BY <3>1, FreshItem
    <3> HIDE DEF x
    <3>3. Len(<<x>>) = 1 /\ <<x>> # <<>> /\ Items(<<x>>) = {x}
      BY <3>2, OneItem
    <3>4. TaskOK(task'[t])
      BY <3>1, <3>2, <3>3 DEF TaskOK
    <3> QED
      BY <1>0, <1>1, <3>4, Begun
  <2>2. CASE task'[t].by = "auto" /\ task'[t].rest = replayable(queue) /\ replayable(queue) # <<>>
    <3>1. Items(replayable(queue)) = {x \in Items(queue) : ~is_parked(x)}
      BY Copies, ReplayableItems
    <3>2. TaskOK(task'[t])
      BY <2>2, <3>1 DEF TaskOK
    <3> QED
      BY <1>0, <1>1, <3>2, Begun
  <2>3. CASE \E item \in Items(kept) : task'[t].by = "banner" /\ task'[t].rest = <<item>>
    <3>1. PICK item \in Items(kept) : task'[t].by = "banner" /\ task'[t].rest = <<item>>
      BY <2>3
    <3>2. Len(<<item>>) = 1 /\ <<item>> # <<>>
      OBVIOUS
    <3>3. TaskOK(task'[t])
      BY <3>1, <3>2 DEF TaskOK
    <3> QED
      BY <1>0, <1>1, <3>3, Begun
  <2>4. CASE \E p \in picked : task'[t].by = "list" /\ task'[t].rest = <<AsListed(p)>>
    <3>1. PICK p \in picked : task'[t].by = "list" /\ task'[t].rest = <<AsListed(p)>>
      BY <2>4
    <3> DEFINE x == AsListed(p)
    <3>2. x \in Item /\ x.act \in Approve /\ ~is_parked(x) /\ task'[t].rest = <<x>>
      BY <3>1, ListedItem DEF TypeOK
    <3> HIDE DEF x
    <3>3. Len(<<x>>) = 1 /\ <<x>> # <<>> /\ Items(<<x>>) = {x} /\ Head(<<x>>) = x
      BY <3>2, OneItem
    <3>4. TaskOK(task'[t])
      BY <3>1, <3>2, <3>3 DEF TaskOK
    <3> QED
      BY <1>0, <1>1, <3>4, Begun
  <2> QED
    BY <1>1, <2>1, <2>2, <2>3, <2>4, Begun, Zenon
<1>2. ASSUME NEW t \in Slots, Requeues(t) \/ Answers(t) \/ BannerDone(t) \/ BannerFailed(t)
      PROVE  \A u \in Slots : TaskOK(task'[u])
  <2>1. Running(t) /\ Advance(t)
    BY <1>2, EndedCalls
  <2>2. \A u \in Slots : u # t => task'[u] = task[u]
    BY <2>1, Advanced
  <2>3. TaskOK(task'[t])
    <3>1. CASE task'[t] = Free
      BY <3>1, FreeTaskOK
    <3>2. CASE task[t].by = "auto" /\ task'[t].by = task[t].by /\ task'[t].rest # <<>>
               /\ Items(task[t].rest) = Items(task'[t].rest) \cup {Current(t)}
      BY <1>0, <3>2 DEF TaskOK
    <3> QED
      BY <2>1, <3>1, <3>2, Advanced
  <2> QED
    BY <1>0, <2>2, <2>3
<1>3. ASSUME NEW t \in Slots, Serve(t) \/ NetworkError(t) PROVE \A u \in Slots : TaskOK(task'[u])
  <2>1. task[t].by # "none"
    BY <1>3, CurrentItem DEF Serve, NetworkError, Running
  <2>2. \E n \in {"sent", "ok", "gone", "refused", "offline"} : task' = [task EXCEPT ![t].net = n]
    BY <1>3 DEF Serve, NetworkError
  <2>3. task'[t].by = task[t].by /\ task'[t].rest = task[t].rest /\ \A u \in Slots : u # t => task'[u] = task[u]
    BY <2>2, Netted
  <2>4. TaskOK(task'[t])
    BY <1>0, <2>1, <2>3 DEF TaskOK
  <2> QED
    BY <1>0, <2>3, <2>4
<1>4. ASSUME NEW t \in Slots, Drops(t) PROVE \A u \in Slots : TaskOK(task'[u])
  <2>1. task'[t] = Free /\ \A u \in Slots : u # t => task'[u] = task[u]
    BY <1>4, Freed DEF Drops, LeavePanel, RowCancelled
  <2> QED
    BY <1>0, <2>1, FreeTaskOK
<1>5. ASSUME \/ \E a \in late : ServeLate(a)
             \/ \E p \in Proposals : OtherReviewer(p)
             \/ BannerSync \/ BannerDismiss \/ (\E item \in Rows : BannerSkip(item))
             \/ ProbeUp \/ ProbeDown
      PROVE  task' = task
  BY <1>5 DEF ServeLate, OtherReviewer, BannerSync, BannerDismiss, BannerSkip, ProbeUp, ProbeDown, client
<1>6. ASSUME Reload PROVE \A u \in Slots : task'[u] = Free
  BY <1>6 DEF Reload
<1>7. ASSUME Lists PROVE task' = task
  BY <1>7, ListSteps
<1>8. ASSUME LeaveList PROVE \A u \in Slots : task'[u] = Free \/ task'[u] = task[u]
  BY <1>8, ListLeft
<1> QED
  BY <1>0, <1>1, <1>2, <1>3, <1>4, <1>5, <1>6, <1>7, <1>8, Steps, FreeTaskOK, Zenon

-----------------------------------------------------------------------------
(* Copies of an action                                                     *)

\* A parked copy of an action that is due or owed is a row of the banner.
InBanner(q, rows, due, a) ==
    (HasParked(q, a) /\ (Due(q, a) \/ a \in due)) => (rows = <<>> \/ Has(rows, a))

\* What makes CopiesOK true after a step.
LEMMA CopiesNext ==
    ASSUME Single(queue'), \A x \in Items(kept') : is_parked(x),
           \A a \in Actions : InBanner(queue', kept', owed', a)
    PROVE  CopiesOK'
<1>1. \A i \in DOMAIN kept' : is_parked(kept'[i])
  BY Zenon DEF Items
<1> QED
  BY <1>1, Zenon DEF CopiesOK, Single, InBanner

\* CopiesOK, action by action.
LEMMA CopiesNow == ASSUME CopiesOK PROVE \A a \in Actions : InBanner(queue, kept, owed, a)
BY Zenon DEF CopiesOK, InBanner

\* An action that is queued because its call failed is parked only if it is an erasure.
LEMMA RequeuedItem ==
    ASSUME TypeOK, TasksOK, NEW t \in Slots, Requeues(t)
    PROVE  /\ enqueue(Requeued(t)) /\ Requeued(t) \in Item /\ Requeued(t).act \in Actions
           /\ is_destructive(Requeued(t).act) \/ ~is_parked(Requeued(t))
<1>1. enqueue(Requeued(t)) /\ Requeued(t) \in Item /\ Requeued(t).act \in Actions
  BY RequeuedCall
<1>2. TaskOK(task[t]) /\ Current(t) \in Items(task[t].rest)
  BY TasksByTask, RequeuedCall
<1>3. CASE task[t].by \in {"operator", "auto"} /\ Requeued(t) = Current(t)
  BY <1>1, <1>2, <1>3 DEF TaskOK
<1>4. CASE Current(t).act.id \in Proposals /\ Requeued(t) = AsListed(Current(t).act.id)
  BY <1>1, <1>4, ListedItem
<1> QED
  BY <1>3, <1>4, RequeuedCall

\* The queue keeps no twins, and the banner's copy knows every parked row that is owed.
LEMMA CopiesStep ==
    ASSUME TypeOK, TasksOK, CopiesOK, OwedOK, Next
    PROVE  CopiesOK'
<1>0. /\ queue \in Seq(Item) /\ kept \in Seq(Item) /\ Single(queue)
      /\ \A x \in Items(kept) : is_parked(x)
      /\ \A a \in Actions : InBanner(queue, kept, owed, a)
  BY Copies, CopiesNow
<1>1. ASSUME NEW t \in Slots, Begins(t) PROVE CopiesOK'
  <2>1. kept' = kept /\ owed' = owed /\ (queue' = queue \/ queue' = parked(queue))
    BY <1>1, Begun
  <2>2. CASE queue' = queue
    BY <1>0, <2>1, <2>2, CopiesNext
  <2>3. CASE queue' = parked(queue)
    <3>1. Items(queue') = {x \in Items(queue) : is_parked(x)}
      BY <1>0, <2>3, ParkedItems
    <3>2. Single(queue')
      BY <3>1, Zenon DEF Single, Items, Unparked
    <3>3. \A a : ~Due(queue', a) /\ (HasParked(queue', a) => HasParked(queue, a))
      BY <3>1, Asked
    <3>4. \A a \in Actions : InBanner(queue', kept', owed', a)
      BY <1>0, <2>1, <3>3 DEF InBanner
    <3> QED
      BY <1>0, <2>1, <3>2, <3>4, CopiesNext
  <2> QED
    BY <2>1, <2>2, <2>3
<1>2. ASSUME NEW t \in Slots, Requeues(t) PROVE CopiesOK'
  <2> DEFINE x == Requeued(t)
  <2>0. enqueue(x) /\ x \in Item /\ x.act \in Actions /\ (is_destructive(x.act) \/ ~is_parked(x))
    BY <1>2, RequeuedItem
  <2> HIDE DEF x
  <2>1. /\ Single(queue') /\ (kept' = <<>> \/ kept' = kept)
        /\ Items(queue') \in SUBSET (Items(queue) \cup {x})
        /\ Has(queue, x.act) => queue' = queue
    BY <2>0, Enqueued
  <2>2. owed' \subseteq owed \/ (owed' \subseteq owed \cup {x.act} /\ Due(queue', x.act))
    BY <2>0 DEF enqueue
  <2>3. \A y \in Items(kept') : is_parked(y)
    BY <1>0, <2>1, NoItem
  <2>4. ASSUME NEW a \in Actions, HasParked(queue', a), Due(queue', a) \/ a \in owed'
        PROVE  HasParked(queue, a) /\ (Due(queue, a) \/ a \in owed)
    <3>1. CASE Has(queue, x.act)
      BY <2>1, <2>2, <2>4, <3>1
    <3>2. CASE ~Has(queue, x.act) /\ a # x.act
      <4>1. (HasParked(queue', a) => HasParked(queue, a)) /\ (Due(queue', a) => Due(queue, a))
        BY <2>1, <3>2, Asked
      <4> QED
        BY <2>2, <2>4, <3>2, <4>1
    <3>3. CASE ~Has(queue, x.act) /\ a = x.act
      <4>1. \A y \in Items(queue) : y.act # a
        BY <3>3, Asked
      <4>2. is_parked(x) /\ ~Due(queue', a)
        BY <2>1, <2>4, <4>1, Asked
      <4>3. a \in owed /\ is_destructive(a)
        BY <2>0, <2>2, <2>4, <3>3, <4>2
      <4> QED
        BY <4>3 DEF OwedOK
    <3> QED
      BY <3>1, <3>2, <3>3
  <2>5. \A a \in Actions : InBanner(queue', kept', owed', a)
    BY <1>0, <2>1, <2>4 DEF InBanner
  <2> QED
    BY <2>1, <2>3, <2>5, CopiesNext
<1>3. ASSUME NEW t \in Slots, Answers(t) PROVE CopiesOK'
  <2> DEFINE b == Current(t).act
  <2>1. /\ kept' = kept /\ owed' \subseteq owed
        /\ (queue' = queue \/ (queue' = requeue_in(queue, b) /\ (b \in owed' => Due(queue', b))))
    BY <1>3 DEF Answers, PanelAnswered, ReplayApplied, ReplayRefused, Answered
  <2> HIDE DEF b
  <2>2. CASE queue' = queue
    <3>1. \A a \in Actions : InBanner(queue', kept', owed', a)
      BY <1>0, <2>1, <2>2 DEF InBanner
    <3> QED
      BY <1>0, <2>1, <2>2, <3>1, CopiesNext
  <2>3. CASE queue' = requeue_in(queue, b) /\ (b \in owed' => Due(queue', b))
    <3>1. /\ Single(queue')
          /\ \A a : a # b => (HasParked(queue', a) <=> HasParked(queue, a))
          /\ \A a : Due(queue', a) => Due(queue, a)
          /\ (Due(queue', b) /\ HasParked(queue', b)) => HasParked(queue, b)
      BY <1>0, <2>3, RequeuedItems
    <3>2. \A a \in Actions : InBanner(queue', kept', owed', a)
      BY <1>0, <2>1, <2>3, <3>1 DEF InBanner
    <3> QED
      BY <1>0, <2>1, <3>1, <3>2, CopiesNext
  <2> QED
    BY <2>1, <2>2, <2>3
<1>4. ASSUME (\E t \in Slots : BannerDone(t)) \/ BannerDismiss \/ (\E item \in Rows : BannerSkip(item))
      PROVE  CopiesOK'
  <2>1. PICK rows, dropped : rows \in Seq(Item) /\ Items(rows) \in SUBSET Items(kept) /\ Update(rows, dropped)
    BY <1>4, BannerUpdates
  <2>2. /\ kept' = rows /\ Single(queue')
        /\ Items(queue') = {x \in Items(queue) : ~is_parked(x)} \cup Items(rows)
        /\ \A x \in Items(rows) : is_parked(x)
    BY <2>1, Updated
  <2>3. \A a \in Actions : HasParked(queue', a) => Has(kept', a)
    BY <2>2, Asked
  <2>4. \A a \in Actions : InBanner(queue', kept', owed', a)
    BY <2>3 DEF InBanner
  <2> QED
    BY <2>2, <2>4, CopiesNext
<1>5. ASSUME BannerSync PROVE CopiesOK'
  <2>1. kept' = parked(queue) /\ queue' = queue /\ owed' = owed
    BY <1>5 DEF BannerSync, hist
  <2>2. Items(kept') = {x \in Items(queue) : is_parked(x)}
    BY <1>0, <2>1, ParkedItems
  <2>3. \A a \in Actions : HasParked(queue', a) => Has(kept', a)
    BY <2>1, <2>2, Asked
  <2>4. \A a \in Actions : InBanner(queue', kept', owed', a)
    BY <2>3 DEF InBanner
  <2> QED
    BY <1>0, <2>1, <2>2, <2>4, CopiesNext
<1>6. ASSUME ProbeDown \/ Reload PROVE CopiesOK'
  <2>1. kept' = <<>> /\ queue' = queue
    BY <1>6 DEF ProbeDown, Reload
  <2>2. \A a \in Actions : InBanner(queue', kept', owed', a)
    BY <2>1 DEF InBanner
  <2> QED
    BY <1>0, <2>1, <2>2, NoItem, CopiesNext
<1>7. ASSUME \/ \E t \in Slots : Serve(t) \/ Drops(t) \/ BannerFailed(t) \/ NetworkError(t)
             \/ \E a \in late : ServeLate(a)
             \/ \E p \in Proposals : OtherReviewer(p)
             \/ ProbeUp
      PROVE  UNCHANGED <<queue, kept, owed>>
  BY <1>7 DEF Serve, Drops, LeavePanel, RowCancelled, BannerFailed, NetworkError, ServeLate,
              OtherReviewer, ProbeUp, client, hist
<1>8. ASSUME UNCHANGED <<queue, kept, owed>> PROVE CopiesOK'
  BY <1>0, <1>8, CopiesNext
<1>9. ASSUME Lists \/ LeaveList PROVE UNCHANGED <<queue, kept, owed>>
  BY <1>9, ListSteps, ListLeft
<1> QED
  BY <1>1, <1>2, <1>3, <1>4, <1>5, <1>6, <1>7, <1>8, <1>9, Steps, Zenon

-----------------------------------------------------------------------------
(* What is owed                                                            *)

\* Which actions a task replays by itself.
Replays(r, a) == r.by = "auto" /\ \E x \in Items(r.rest) : x.act = a

\* Replaying, task by task.
LEMMA ReplayingNow == \A a : Replaying(a) <=> \E t \in Slots : Replays(task[t], a)
BY Zenon DEF Replaying, Replays, Has, Items

\* Replaying after a step, task by task.
LEMMA ReplayingNext == \A a : Replaying(a)' <=> \E t \in Slots : Replays(task'[t], a)
BY Zenon DEF Replaying, Replays, Has, Items, Slots

\* What makes OwedOK true after a step.
LEMMA OwedNext ==
    ASSUME \A a \in owed' : ~is_destructive(a)
                            /\ (Has(queue', a) \/ \E t \in Slots : Replays(task'[t], a))
    PROVE  OwedOK'
BY ReplayingNext, Zenon DEF OwedOK

\* OwedOK, action by action.
LEMMA OwedNow ==
    ASSUME OwedOK, NEW a \in owed
    PROVE  ~is_destructive(a) /\ (Has(queue, a) \/ \E t \in Slots : Replays(task[t], a))
BY ReplayingNow, Zenon DEF OwedOK

\* What is owed stays in the queue or in the task that replays it.
LEMMA OwedStep ==
    ASSUME TypeOK, TasksOK, CopiesOK, OwedOK, Next
    PROVE  OwedOK'
<1>0. /\ queue \in Seq(Item) /\ kept \in Seq(Item) /\ owed \subseteq Actions
      /\ \A a \in Actions : InBanner(queue, kept, owed, a)
  BY Copies, CopiesNow DEF TypeOK
<1>a. \A a \in owed : ~is_destructive(a) /\ (Has(queue, a) \/ \E t \in Slots : Replays(task[t], a))
  BY OwedNow
<1>1. ASSUME NEW t \in Slots, Begins(t) PROVE OwedOK'
  <2>1. owed' = owed /\ ~Running(t) /\ \A u \in Slots : u # t => task'[u] = task[u]
    BY <1>1, Begun
  <2>2. \A a, u : (u \in Slots /\ Replays(task[u], a)) => Replays(task'[u], a)
    BY <2>1 DEF Replays, Running
  <2>3. CASE queue' = queue
    BY <1>a, <2>1, <2>2, <2>3, OwedNext
  <2>4. CASE queue' = parked(queue) /\ task'[t].by = "auto" /\ task'[t].rest = replayable(queue)
    <3>1. Items(queue') = {x \in Items(queue) : is_parked(x)}
          /\ Items(task'[t].rest) = {x \in Items(queue) : ~is_parked(x)}
      BY <1>0, <2>4, ParkedItems, ReplayableItems
    <3>2. \A a : Has(queue, a) => Has(queue', a) \/ Replays(task'[t], a)
      BY <2>4, <3>1, Asked DEF Replays
    <3> QED
      BY <1>a, <2>1, <2>2, <3>2, OwedNext
  <2> QED
    BY <1>1, <2>3, <2>4, Begun
<1>2. ASSUME NEW t \in Slots, Requeues(t) \/ Answers(t) \/ BannerDone(t) \/ BannerFailed(t),
             NEW a, NEW u \in Slots, Replays(task[u], a)
      PROVE  Replays(task'[u], a) \/ (task[t].by = "auto" /\ a = Current(t).act)
  <2>1. Running(t) /\ Advance(t)
    BY <1>2, EndedCalls
  <2>2. CASE u # t
    BY <1>2, <2>1, <2>2, Advanced
  <2>3. CASE u = t
    <3>1. CASE Items(task[t].rest) = {Current(t)}
      BY <1>2, <2>3, <3>1 DEF Replays
    <3>2. CASE task'[t].by = task[t].by /\ Items(task[t].rest) = Items(task'[t].rest) \cup {Current(t)}
      BY <1>2, <2>3, <3>2 DEF Replays
    <3> QED
      BY <2>1, <3>1, <3>2, Advanced
  <2> QED
    BY <2>2, <2>3
<1>3. ASSUME NEW t \in Slots, Requeues(t) PROVE OwedOK'
  <2> DEFINE x == Requeued(t)
  <2>0. enqueue(x) /\ x \in Item /\ (task[t].by = "auto" => x = Current(t))
    BY <1>3, RequeuedItem DEF Requeued
  <2>a. \A a : (\E u \in Slots : Replays(task[u], a)) => (\E u \in Slots : Replays(task'[u], a)) \/ a = x.act
    BY <1>2, <1>3, <2>0
  <2> HIDE DEF x
  <2>1. /\ Has(queue', x.act)
        /\ \A y \in Items(queue) : y \in Items(queue') \/ y.act \in Evicted(x)
    BY <2>0, Enqueued
  <2>2. owed' = (IF Due(queue', x.act) THEN owed \cup {x.act} ELSE owed) \ Evicted(x)
    BY <2>0 DEF enqueue
  <2>3. Due(queue', x.act) => ~is_destructive(x.act)
    BY DEF Due, Unparked, is_parked
  <2>4. ASSUME NEW a \in owed'
        PROVE  ~is_destructive(a) /\ (Has(queue', a) \/ \E u \in Slots : Replays(task'[u], a))
    <3>1. CASE a = x.act
      <4>1. ~is_destructive(a)
        BY <1>a, <2>2, <2>3, <2>4, <3>1
      <4> QED
        BY <2>1, <3>1, <4>1
    <3>2. CASE a # x.act
      <4>1. a \in owed /\ a \notin Evicted(x)
        BY <2>2, <2>4, <3>2
      <4>2. Has(queue, a) => Has(queue', a)
        BY <2>1, <4>1, Asked
      <4> QED
        BY <1>a, <2>a, <3>2, <4>1, <4>2
    <3> QED
      BY <3>1, <3>2
  <2> QED
    BY <2>4, OwedNext
<1>4. ASSUME NEW t \in Slots, Answers(t) PROVE OwedOK'
  <2> DEFINE b == Current(t).act
  <2>1. /\ owed' \subseteq owed /\ (b \in owed' => Due(queue', b))
        /\ (queue' = queue \/ queue' = requeue_in(queue, b))
    BY <1>4 DEF Answers, PanelAnswered, ReplayApplied, ReplayRefused, Answered
  <2>a. \A a : (\E u \in Slots : Replays(task[u], a)) => (\E u \in Slots : Replays(task'[u], a)) \/ a = b
    BY <1>2, <1>4
  <2> HIDE DEF b
  <2>2. \A a : Has(queue', a) <=> Has(queue, a)
    BY <1>0, <2>1, Copies, RequeuedItems
  <2>3. Due(queue', b) => Has(queue', b)
    BY DEF Due, Has
  <2> QED
    BY <1>a, <2>a, <2>1, <2>2, <2>3, OwedNext
<1>5. ASSUME (\E t \in Slots : BannerDone(t)) \/ BannerDismiss \/ (\E item \in Rows : BannerSkip(item))
      PROVE  OwedOK'
  <2>1. PICK rows, dropped :
           /\ rows \in Seq(Item) /\ Items(rows) \in SUBSET Items(kept) /\ Update(rows, dropped)
           /\ \A x \in Items(kept) : x \in Items(rows) \/ x.act \in dropped
    BY <1>5, BannerUpdates
  <2>2. /\ kept # <<>> /\ owed' = owed \ dropped
        /\ Items(queue') = {x \in Items(queue) : ~is_parked(x)} \cup Items(rows)
    BY <1>5, <2>1, BannerUpdates, Updated
  <2>3. ASSUME NEW a \in owed', Has(queue, a) PROVE Has(queue', a)
    <3>1. PICK x \in Items(queue) : x.act = a
      BY <2>3, Asked
    <3>2. CASE ~is_parked(x)
      BY <2>2, <3>1, <3>2, Asked
    <3>3. CASE is_parked(x)
      <4>1. HasParked(queue, a) /\ a \in owed /\ a \notin dropped /\ a \in Actions
        BY <1>0, <2>2, <2>3, <3>1, <3>3, Asked
      <4>2. Has(kept, a)
        BY <1>0, <2>2, <4>1 DEF InBanner
      <4>3. \E y \in Items(rows) : y.act = a
        BY <2>1, <4>1, <4>2, Asked
      <4> QED
        BY <2>2, <4>3, Asked
    <3> QED
      BY <3>2, <3>3
  <2>4. \A a : (\E u \in Slots : Replays(task[u], a)) => (\E u \in Slots : Replays(task'[u], a))
    <3>1. CASE BannerDismiss \/ (\E item \in Rows : BannerSkip(item))
      BY <3>1 DEF BannerDismiss, BannerSkip
    <3>2. ASSUME NEW t \in Slots, BannerDone(t), NEW u \in Slots, NEW a, Replays(task[u], a)
          PROVE  Replays(task'[u], a)
      <4>1. task[t].by = "banner" /\ Running(t) /\ Advance(t)
        BY <3>2, EndedCalls DEF BannerDone, Ended
      <4>2. u # t
        BY <3>2, <4>1 DEF Replays
      <4> QED
        BY <3>2, <4>1, <4>2, Advanced
    <3> QED
      BY <1>5, <3>1, <3>2
  <2> QED
    BY <1>a, <2>2, <2>3, <2>4, OwedNext
<1>6. ASSUME NEW t \in Slots, Serve(t) \/ NetworkError(t) \/ Drops(t) \/ BannerFailed(t) PROVE OwedOK'
  <2>1. owed' = owed /\ queue' = queue
    BY <1>6 DEF Serve, NetworkError, Drops, LeavePanel, RowCancelled, BannerFailed, hist
  <2>2. ASSUME NEW u \in Slots, NEW a, Replays(task[u], a) PROVE Replays(task'[u], a)
    <3>1. CASE Serve(t) \/ NetworkError(t)
      <4>1. \E n \in {"sent", "ok", "gone", "refused", "offline"} : task' = [task EXCEPT ![t].net = n]
        BY <3>1 DEF Serve, NetworkError
      <4>2. task'[u].by = task[u].by /\ task'[u].rest = task[u].rest
        BY <4>1, Netted
      <4> QED
        BY <2>2, <4>2 DEF Replays
    <3>2. CASE Drops(t)
      <4>1. task[t].by # "auto" /\ task' = [task EXCEPT ![t] = Free]
        BY <3>2 DEF Drops, LeavePanel, RowCancelled, RowGone
      <4>2. u # t
        BY <2>2, <4>1 DEF Replays
      <4> QED
        BY <2>2, <4>1, <4>2, Freed
    <3>3. CASE BannerFailed(t)
      <4>1. task[t].by = "banner" /\ Running(t) /\ Advance(t)
        BY <3>3, EndedCalls DEF BannerFailed, Ended
      <4>2. u # t
        BY <2>2, <4>1 DEF Replays
      <4> QED
        BY <2>2, <4>1, <4>2, Advanced
    <3> QED
      BY <1>6, <3>1, <3>2, <3>3
  <2> QED
    BY <1>a, <2>1, <2>2, OwedNext
<1>7. ASSUME Reload PROVE OwedOK'
  <2>1. queue' = queue /\ owed' = {a \in owed : Has(queue, a)}
    BY <1>7 DEF Reload
  <2> QED
    BY <1>a, <2>1, OwedNext
<1>8. ASSUME \/ \E a \in late : ServeLate(a)
             \/ \E p \in Proposals : OtherReviewer(p)
             \/ BannerSync \/ ProbeUp \/ ProbeDown
      PROVE  OwedOK'
  <2>1. UNCHANGED <<queue, owed, task>>
    BY <1>8 DEF ServeLate, OtherReviewer, BannerSync, ProbeUp, ProbeDown, client, hist
  <2> QED
    BY <1>a, <2>1, OwedNext
<1>9. ASSUME Lists \/ LeaveList PROVE OwedOK'
  <2>1. UNCHANGED <<queue, owed>>
    BY <1>9, ListSteps, ListLeft
  <2>2. \A u \in Slots : task[u].by = "list" \/ task'[u] = task[u]
    BY <1>9, ListSteps, ListLeft
  <2>3. \A a, u : (u \in Slots /\ Replays(task[u], a)) => Replays(task'[u], a)
    BY <2>2 DEF Replays
  <2> QED
    BY <1>a, <2>1, <2>3, OwedNext
<1> QED
  BY <1>1, <1>3, <1>4, <1>5, <1>6, <1>7, <1>8, <1>9, Steps, Zenon

-----------------------------------------------------------------------------
(* Where an action can be                                                  *)

InTask(a) == \E t \in Slots : \E x \in Items(task[t].rest) : x.act = a
Somewhere(a) == Has(queue, a) \/ Has(kept, a) \/ a \in late \/ InTask(a)
\* An approval of what the list has of a proposal that is picked or being approved.
FromList(a) ==
    \E p \in Proposals : /\ a = Approval(p, listed[p])
                         /\ p \in picked \/ \E b \in Approve : b.id = p /\ InTask(b)

\* Carried, spelled out.
LEMMA CarriedActs == \A a \in Actions : a \in Carried <=> Has(queue, a) \/ InTask(a)
BY Zenon DEF Carried, InTask, Has, Items

\* Carried after a step, spelled out.
LEMMA CarriedActsNext ==
    \A a \in Actions :
        a \in Carried' <=> Has(queue', a) \/ \E t \in Slots : \E x \in Items(task'[t].rest) : x.act = a
BY Zenon DEF Carried, Has, Items, Slots, Actions, Approve, Reject, Erase

\* An action that is queued after a step was somewhere before it.
LEMMA QueueFrom ==
    ASSUME TypeOK, TasksOK, CopiesOK, Next, NEW a, Has(queue', a)
    PROVE  Somewhere(a) \/ FromList(a)
<1>0. queue \in Seq(Item)
  BY Copies
<1>1. ASSUME NEW t \in Slots, Begins(t) PROVE Has(queue, a)
  <2>1. Items(parked(queue)) \in SUBSET Items(queue)
    BY <1>0, ParkedItems
  <2>2. queue' = queue \/ queue' = parked(queue)
    BY <1>1, Begun
  <2> QED
    BY <2>1, <2>2, Asked
<1>2. ASSUME NEW t \in Slots, Requeues(t) PROVE Has(queue, a) \/ InTask(a) \/ FromList(a)
  <2>1. enqueue(Requeued(t)) /\ Requeued(t) \in Item /\ Current(t) \in Items(task[t].rest)
    BY <1>2, RequeuedCall
  <2>2. Items(queue') \in SUBSET (Items(queue) \cup {Requeued(t)})
    BY <2>1, Enqueued
  <2>3. Has(queue, a) \/ a = Requeued(t).act
    BY <2>2, Asked
  <2>4. CASE Requeued(t) = Current(t)
    BY <2>1, <2>3, <2>4 DEF InTask
  <2>5. ASSUME NEW p \in Proposals, Current(t).act \in Approve, p = Current(t).act.id, Requeued(t) = AsListed(p)
        PROVE  Has(queue, a) \/ FromList(a)
    <3>1. AsListed(p).act = Approval(p, listed[p])
      BY ListedItem
    <3>2. InTask(Current(t).act)
      BY <2>1 DEF InTask
    <3> QED
      BY <2>3, <2>5, <3>1, <3>2 DEF FromList
  <2> QED
    BY <1>2, <2>4, <2>5, RequeuedCall
<1>3. ASSUME NEW t \in Slots, Answers(t) PROVE Has(queue, a)
  <2>1. queue' = queue \/ queue' = requeue_in(queue, Current(t).act)
    BY <1>3 DEF Answers, PanelAnswered, ReplayApplied, ReplayRefused
  <2> QED
    BY <1>0, <2>1, Copies, RequeuedItems
<1>4. ASSUME (\E t \in Slots : BannerDone(t)) \/ BannerDismiss \/ (\E item \in Rows : BannerSkip(item))
      PROVE  Has(queue, a) \/ Has(kept, a)
  <2>1. PICK rows, dropped : rows \in Seq(Item) /\ Items(rows) \in SUBSET Items(kept) /\ Update(rows, dropped)
    BY <1>4, BannerUpdates
  <2>2. Items(queue') = {x \in Items(queue) : ~is_parked(x)} \cup Items(rows)
    BY <2>1, Updated
  <2> QED
    BY <2>1, <2>2, Asked
<1>5. ASSUME \/ \E t \in Slots : Serve(t) \/ Drops(t) \/ BannerFailed(t) \/ NetworkError(t)
             \/ \E b \in late : ServeLate(b)
             \/ \E p \in Proposals : OtherReviewer(p)
             \/ BannerSync \/ ProbeUp \/ ProbeDown \/ Reload
      PROVE  queue' = queue
  BY <1>5 DEF Serve, Drops, LeavePanel, RowCancelled, BannerFailed, NetworkError, ServeLate,
              OtherReviewer, BannerSync, ProbeUp, ProbeDown, Reload, client, hist
<1>6. ASSUME queue' = queue PROVE Has(queue, a)
  BY <1>6
<1>7. ASSUME Lists \/ LeaveList PROVE queue' = queue
  BY <1>7, ListSteps, ListLeft
<1> QED
  BY <1>1, <1>2, <1>3, <1>4, <1>5, <1>6, <1>7, Steps, Zenon DEF Somewhere

\* An action in the banner after a step was somewhere before it.
LEMMA KeptFrom ==
    ASSUME TypeOK, TasksOK, CopiesOK, Next, NEW a, Has(kept', a)
    PROVE  Somewhere(a)
<1>0. queue \in Seq(Item) /\ ~Has(<<>>, a)
  BY Copies, NoItem, Asked
<1>1. ASSUME NEW t \in Slots, Begins(t) PROVE kept' = kept
  BY <1>1, Begun
<1>2. ASSUME NEW t \in Slots, Requeues(t) PROVE kept' = <<>> \/ kept' = kept
  BY <1>2, RequeuedItem, Enqueued
<1>3. ASSUME NEW t \in Slots, Answers(t) PROVE kept' = kept
  BY <1>3 DEF Answers, PanelAnswered, ReplayApplied, ReplayRefused
<1>4. ASSUME (\E t \in Slots : BannerDone(t)) \/ BannerDismiss \/ (\E item \in Rows : BannerSkip(item))
      PROVE  Has(kept, a)
  <2>1. PICK rows, dropped : rows \in Seq(Item) /\ Items(rows) \in SUBSET Items(kept) /\ Update(rows, dropped)
    BY <1>4, BannerUpdates
  <2>2. kept' = rows
    BY <2>1, Updated
  <2> QED
    BY <2>1, <2>2, Asked
<1>5. ASSUME BannerSync PROVE Has(queue, a)
  <2>1. kept' = parked(queue)
    BY <1>5 DEF BannerSync
  <2> QED
    BY <1>0, <2>1, ParkedItems, Asked
<1>6. ASSUME \/ \E t \in Slots : Serve(t) \/ Drops(t) \/ BannerFailed(t) \/ NetworkError(t)
             \/ \E b \in late : ServeLate(b)
             \/ \E p \in Proposals : OtherReviewer(p)
             \/ ProbeUp
      PROVE  kept' = kept
  BY <1>6 DEF Serve, Drops, LeavePanel, RowCancelled, BannerFailed, NetworkError, ServeLate,
              OtherReviewer, ProbeUp, client, hist
<1>7. ASSUME ProbeDown \/ Reload PROVE kept' = <<>>
  BY <1>7 DEF ProbeDown, Reload
<1>8. ASSUME kept' = <<>> \/ kept' = kept PROVE Has(kept, a)
  BY <1>0, <1>8
<1>9. ASSUME Lists \/ LeaveList PROVE kept' = kept
  BY <1>9, ListSteps, ListLeft
<1> QED
  BY <1>1, <1>2, <1>3, <1>4, <1>5, <1>6, <1>7, <1>8, <1>9, Steps, Zenon DEF Somewhere

\* What the wire gains was sent by a task that is dropped or gives up.
LEMMA WireSteps ==
    ASSUME TypeOK, CopiesOK, Next
    PROVE  \/ late' \subseteq late
           \/ \E t \in Slots : Abandoned({t}) /\ (Drops(t) \/ NetworkError(t))
           \/ Abandoned(Slots) /\ Reload
           \/ \E T \in SUBSET Slots : Abandoned(T) /\ LeaveList
<1>1. ASSUME NEW t \in Slots, Begins(t) PROVE late' = late
  BY <1>1, Begun
<1>2. ASSUME NEW t \in Slots, Requeues(t) \/ Answers(t) \/ BannerDone(t) \/ BannerFailed(t) PROVE late' = late
  BY <1>2, EndedCalls
<1>3. ASSUME NEW t \in Slots, Drops(t) \/ NetworkError(t) PROVE Abandoned({t})
  BY <1>3 DEF Drops, LeavePanel, RowCancelled, NetworkError
<1>4. ASSUME \/ \E t \in Slots : Serve(t)
             \/ \E b \in late : ServeLate(b)
             \/ \E p \in Proposals : OtherReviewer(p)
             \/ BannerSync \/ BannerDismiss \/ (\E item \in Rows : BannerSkip(item)) \/ ProbeUp \/ ProbeDown
      PROVE  late' \subseteq late
  BY <1>4 DEF Serve, ServeLate, OtherReviewer, BannerSync, BannerDismiss, BannerSkip, ProbeUp, ProbeDown
<1>5. ASSUME Reload PROVE Abandoned(Slots)
  BY <1>5 DEF Reload
<1>6. ASSUME Lists PROVE late' = late
  BY <1>6, ListSteps
<1>7. ASSUME LeaveList PROVE \E T \in SUBSET Slots : Abandoned(T)
  BY <1>7, ListLeft
<1> QED
  BY <1>1, <1>2, <1>3, <1>4, <1>5, <1>6, <1>7, Steps

\* A request the server has still to see was somewhere before the step.
LEMMA LateFrom ==
    ASSUME TypeOK, TasksOK, CopiesOK, Next, NEW a \in late'
    PROVE  Somewhere(a)
<1>1. ASSUME NEW T \in SUBSET Slots, Abandoned(T) PROVE a \in late \/ InTask(a)
  <2>1. a \in late \/ \E t \in T : task[t].net = "sent" /\ a = Current(t).act
    BY <1>1, AbandonedRequests
  <2>2. \A t \in T : task[t].net = "sent" => Current(t) \in Items(task[t].rest)
    BY CurrentItem
  <2> QED
    BY <2>1, <2>2 DEF InTask
<1>2. \A t \in Slots : {t} \in SUBSET Slots
  OBVIOUS
<1> QED
  BY <1>1, <1>2, WireSteps DEF Somewhere

\* An action a task holds was somewhere before the step, or was just clicked.
LEMMA TaskFrom ==
    ASSUME TypeOK, TasksOK, CopiesOK, Next, NEW u \in Slots, NEW y \in Items(task'[u].rest)
    PROVE  Somewhere(y.act) \/ FromList(y.act) \/ \E t \in Slots : Click(t, y.act)
<1>0. Items(<<>>) = {}
  BY NoItem
<1>1. ASSUME NEW t \in Slots, Begins(t)
      PROVE  InTask(y.act) \/ Has(queue, y.act) \/ Has(kept, y.act) \/ FromList(y.act) \/ Click(t, y.act)
  <2>1. CASE u # t
    BY <1>1, <2>1, Begun DEF InTask
  <2>2. CASE u = t /\ \E a \in Actions : Click(t, a) /\ task'[t].rest = <<[act |-> a, retries |-> 0]>>
    <3>1. PICK a \in Actions : Click(t, a) /\ task'[t].rest = <<[act |-> a, retries |-> 0]>>
      BY <2>2
    <3> DEFINE x == [act |-> a, retries |-> 0]
    <3>2. x \in Item /\ x.act = a /\ task'[t].rest = <<x>>
      BY <3>1, FreshItem
    <3> HIDE DEF x
    <3>3. y = x
      BY <2>2, <3>2, OneItem
    <3> QED
      BY <3>1, <3>2, <3>3
  <2>3. CASE u = t /\ task'[t].rest = replayable(queue)
    <3>1. Items(replayable(queue)) = {x \in Items(queue) : ~is_parked(x)}
      BY Copies, ReplayableItems
    <3> QED
      BY <2>3, <3>1, Asked
  <2>4. CASE u = t /\ \E item \in Items(kept) : task'[t].rest = <<item>>
    <3>1. PICK item \in Items(kept) : task'[t].rest = <<item>>
      BY <2>4
    <3>2. y = item
      BY <2>4, <3>1, Copies, OneItem
    <3> QED
      BY <3>1, <3>2, Asked
  <2>5. CASE u = t /\ \E p \in picked : task'[t].rest = <<AsListed(p)>>
    <3>1. PICK p \in picked : task'[t].rest = <<AsListed(p)>>
      BY <2>5
    <3>2. p \in Proposals
      BY DEF TypeOK
    <3>3. AsListed(p) \in Item /\ AsListed(p).act = Approval(p, listed[p])
      BY <3>2, ListedItem
    <3>4. y = AsListed(p)
      BY <2>5, <3>1, <3>3, OneItem
    <3> QED
      BY <3>2, <3>3, <3>4 DEF FromList
  <2> QED
    BY <1>1, <2>1, <2>2, <2>3, <2>4, <2>5, Begun, Zenon
<1>2. ASSUME NEW t \in Slots, Requeues(t) \/ Answers(t) \/ BannerDone(t) \/ BannerFailed(t)
      PROVE  InTask(y.act)
  <2>1. Running(t) /\ Advance(t)
    BY <1>2, EndedCalls
  <2>2. CASE u # t
    BY <2>1, <2>2, Advanced DEF InTask
  <2>3. CASE u = t
    BY <1>0, <2>1, <2>3, Advanced, FreeTask DEF InTask
  <2> QED
    BY <2>2, <2>3
<1>3. ASSUME NEW t \in Slots, Serve(t) \/ NetworkError(t) PROVE InTask(y.act)
  <2>1. \E n \in {"sent", "ok", "gone", "refused", "offline"} : task' = [task EXCEPT ![t].net = n]
    BY <1>3 DEF Serve, NetworkError
  <2>2. task'[u].rest = task[u].rest
    BY <2>1, Netted
  <2> QED
    BY <2>2 DEF InTask
<1>4. ASSUME NEW t \in Slots, Drops(t) PROVE InTask(y.act)
  <2>1. task' = [task EXCEPT ![t] = Free]
    BY <1>4 DEF Drops, LeavePanel, RowCancelled
  <2> QED
    BY <1>0, <2>1, Freed, FreeTask DEF InTask
<1>5. ASSUME \/ \E a \in late : ServeLate(a)
             \/ \E p \in Proposals : OtherReviewer(p)
             \/ BannerSync \/ BannerDismiss \/ (\E item \in Rows : BannerSkip(item))
             \/ ProbeUp \/ ProbeDown
      PROVE  task' = task
  BY <1>5 DEF ServeLate, OtherReviewer, BannerSync, BannerDismiss, BannerSkip, ProbeUp, ProbeDown, client
<1>6. ASSUME task' = task PROVE InTask(y.act)
  BY <1>6 DEF InTask
<1>7. ASSUME Reload PROVE FALSE
  <2>1. task'[u] = Free
    BY <1>7 DEF Reload
  <2> QED
    BY <1>0, <2>1, FreeTask
<1>8. ASSUME Lists PROVE task' = task
  BY <1>8, ListSteps
<1>9. ASSUME LeaveList PROVE InTask(y.act)
  <2>1. task'[u] = Free \/ task'[u] = task[u]
    BY <1>9, ListLeft
  <2> QED
    BY <1>0, <2>1, FreeTask DEF InTask
<1> QED
  BY <1>1, <1>2, <1>3, <1>4, <1>5, <1>6, <1>7, <1>8, <1>9, Steps, Zenon DEF Somewhere

-----------------------------------------------------------------------------
(* Approvals                                                               *)

\* Approvals are actions.
LEMMA ApproveActs == Approve \subseteq Actions
BY DEF Actions

\* Of a proposal the operator approved, with a digest that was displayed, or none.
Attested(a) == a.id \in asked /\ (a \in shown \/ a.digest = None)

\* ShownOK, approval by approval.
LEMMA ShownNow == ASSUME ShownOK PROVE \A a \in Approve : Somewhere(a) => Attested(a)
BY CarriedActs, ApproveActs, Zenon DEF ShownOK, Somewhere, Attested

\* What the list has of a proposal that was picked is attested.
LEMMA ListedNow ==
    ASSUME TypeOK, ShownOK, NEW a, FromList(a)
    PROVE  Attested(a)
<1>1. PICK p \in Proposals : /\ a = Approval(p, listed[p])
                             /\ p \in picked \/ \E b \in Approve : b.id = p /\ InTask(b)
  BY DEF FromList
<1>2. a.id = p /\ a.digest = listed[p]
  BY <1>1, ListedItem
<1>3. p \in asked
  <2>1. CASE p \in picked
    BY <2>1 DEF ShownOK
  <2>2. CASE \E b \in Approve : b.id = p /\ InTask(b)
    BY <2>2, ShownNow DEF Somewhere, Attested
  <2> QED
    BY <1>1, <2>1, <2>2
<1>4. listed[p] = None \/ Approval(p, listed[p]) \in shown
  BY DEF ShownOK
<1> QED
  BY <1>1, <1>2, <1>3, <1>4 DEF Attested

\* An approval appears nowhere but from the list or through a click on what was shown.
LEMMA ShownStep ==
    ASSUME TypeOK, TasksOK, CopiesOK, ShownOK, Next
    PROVE  ShownOK'
<1> DEFINE Good(a) == a.id \in asked' /\ (a \in shown' \/ a.digest = None)
<1>g. shown \subseteq shown' /\ asked \subseteq asked'
  BY SaidStep
<1>0. \A a \in Approve : Somewhere(a) \/ FromList(a) => Good(a)
  BY <1>g, ShownNow, ListedNow DEF Attested
<1>1. ASSUME NEW a \in Approve, a \in Carried' PROVE Good(a)
  <2>1. Has(queue', a) \/ \E t \in Slots : \E x \in Items(task'[t].rest) : x.act = a
    BY <1>1, CarriedActsNext, ApproveActs
  <2>2. CASE Has(queue', a)
    BY <1>0, <2>2, QueueFrom
  <2>3. CASE \E t \in Slots : \E x \in Items(task'[t].rest) : x.act = a
    <3>1. Somewhere(a) \/ FromList(a) \/ \E t \in Slots : Click(t, a)
      BY <2>3, TaskFrom
    <3>2. ASSUME NEW t \in Slots, Click(t, a) PROVE Good(a)
      BY <3>2 DEF Click
    <3> QED
      BY <1>0, <3>1, <3>2
  <2> QED
    BY <2>1, <2>2, <2>3
<1>2. ASSUME NEW a \in Approve, Has(kept', a) PROVE Good(a)
  BY <1>0, <1>2, KeptFrom
<1>3. ASSUME NEW a \in Approve, a \in late' PROVE Good(a)
  BY <1>0, <1>3, LateFrom
<1>4. ASSUME NEW p \in Proposals PROVE listed'[p] = None \/ Approval(p, listed'[p]) \in shown'
  <2>1. CASE listed' = listed
    BY <1>g, <2>1 DEF ShownOK
  <2>2. CASE listed' = Unlisted
    BY <2>2 DEF Unlisted
  <2>3. CASE ListRefresh
    BY <2>3 DEF ListRefresh
  <2>4. listed' = listed \/ listed' = Unlisted \/ ListRefresh
    BY SaidSteps DEF Click, ListCall, ListPick, list
  <2> QED
    BY <2>1, <2>2, <2>3, <2>4
<1>5. picked' \subseteq asked'
  <2>1. picked \subseteq asked
    BY DEF ShownOK
  <2>2. picked' \subseteq picked \/ \E S : picked' = picked \cup S /\ asked' = asked \cup S
    BY SaidSteps DEF Click, ListCall, ListPick, ListRefresh, list
  <2> QED
    BY <1>g, <2>1, <2>2
<1> HIDE DEF Good
<1>6. \A a \in Approve : (a \in Carried' \/ Has(kept', a) \/ a \in late') => Good(a)
  BY <1>1, <1>2, <1>3
<1> QED
  BY <1>4, <1>5, <1>6, Zenon DEF ShownOK, Approve, Good, Approval

\* What is approved was shown: the server applies only approvals that were clicked.
LEMMA ApprovedStep ==
    ASSUME TypeOK, TasksOK, CopiesOK, ShownOK, ApprovedWasShown, Next
    PROVE  ApprovedWasShown'
<1>0. shown \subseteq shown' /\ asked \subseteq asked'
  BY SaidStep
<1>t. status \in [Proposals -> {"pending", "approved", "rejected", "other"}]
  BY DEF TypeOK
<1>1. ASSUME UNCHANGED <<status, content>> PROVE ApprovedWasShown'
  BY <1>0, <1>1 DEF ApprovedWasShown
<1>2. ASSUME NEW a \in Actions, NEW answer, Handle(a, answer), Somewhere(a) PROVE ApprovedWasShown'
  <2>0. a \in Approve => Attested(a)
    BY <1>2, ShownNow
  <2>1. content' = content
    BY <1>2, Handled
  <2>2. CASE status' = status
    BY <1>1, <2>1, <2>2
  <2>3. CASE /\ a \in Approve /\ a.id \in Proposals /\ content[a.id] = a.digest
             /\ status' = [status EXCEPT ![a.id] = "approved"]
    <3>1. ASSUME NEW p \in Proposals, status'[p] = "approved"
          PROVE  p \in asked /\ Approval(p, content[p]) \in shown
      <4>1. CASE p = a.id
        <5>1. a.digest \in Contents
          BY <2>3 DEF TypeOK
        <5>2. a.digest # None
          BY <5>1, ClientAssumption DEF ClientAssumption
        <5>3. a = Approval(p, content[p])
          BY <2>3, <4>1 DEF Approve, Approval
        <5> QED
          BY <2>0, <2>3, <4>1, <5>2, <5>3 DEF Attested
      <4>2. CASE p # a.id
        BY <1>t, <2>3, <3>1, <4>2 DEF ApprovedWasShown
      <4> QED
        BY <4>1, <4>2
    <3> QED
      BY <1>0, <2>1, <3>1 DEF ApprovedWasShown
  <2>4. CASE a.id \in Proposals /\ status' = [status EXCEPT ![a.id] = "rejected"]
    <3>1. \A p \in Proposals : status'[p] = "approved" => status[p] = "approved"
      BY <1>t, <2>4
    <3> QED
      BY <1>0, <2>1, <3>1 DEF ApprovedWasShown
  <2> QED
    BY <1>2, <2>2, <2>3, <2>4, Handled
<1>3. ASSUME NEW t \in Slots, Serve(t) PROVE ApprovedWasShown'
  <2>1. \E answer : Handle(Wire(t), answer)
    BY <1>3 DEF Serve
  <2>2. Wire(t) \in Actions /\ InTask(Wire(t))
    BY <1>3, CurrentItem DEF Serve, InTask
  <2> QED
    BY <1>2, <2>1, <2>2 DEF Somewhere
<1>4. ASSUME NEW a \in late, ServeLate(a) PROVE ApprovedWasShown'
  <2>1. \E answer : Handle(a, answer)
    BY <1>4 DEF ServeLate
  <2>2. a \in Actions
    BY DEF TypeOK
  <2> QED
    BY <1>2, <2>1, <2>2 DEF Somewhere
<1>5. ASSUME NEW p \in Proposals, OtherReviewer(p) PROVE ApprovedWasShown'
  <2>1. /\ status[p] = "pending"
        /\ \/ status' = status /\ \E c : content' = [content EXCEPT ![p] = c]
           \/ status' = [status EXCEPT ![p] = "other"] /\ content' = content
    BY <1>5 DEF OtherReviewer
  <2>2. content \in [Proposals -> Contents]
    BY DEF TypeOK
  <2>3. \A r \in Proposals : status'[r] = "approved" => status[r] = "approved" /\ content'[r] = content[r]
    BY <1>t, <2>1, <2>2
  <2> QED
    BY <1>0, <2>3 DEF ApprovedWasShown
<1>6. ASSUME NEW t \in Slots,
             Begins(t) \/ Requeues(t) \/ Answers(t) \/ BannerDone(t) \/ BannerFailed(t)
      PROVE  UNCHANGED <<status, content>>
  BY <1>6, Begun, EndedCalls DEF server
<1>7. ASSUME \/ \E t \in Slots : Drops(t) \/ NetworkError(t)
             \/ BannerSync \/ BannerDismiss \/ (\E item \in Rows : BannerSkip(item))
             \/ ProbeUp \/ ProbeDown \/ Reload
      PROVE  UNCHANGED <<status, content>>
  BY <1>7 DEF Drops, LeavePanel, RowCancelled, NetworkError, BannerSync, BannerDismiss, BannerSkip,
              ProbeUp, ProbeDown, Reload, server
<1>8. ASSUME Lists \/ LeaveList PROVE UNCHANGED <<status, content>>
  BY <1>8, ListSteps, ListLeft
<1> QED
  BY <1>1, <1>3, <1>4, <1>5, <1>6, <1>7, <1>8, Steps, Zenon

-----------------------------------------------------------------------------
(* Erasures                                                                *)

\* A request of a task under way: an erasure in it was sent by hand.
SendsErase(r, g) == r.net = "sent" /\ Head(r.rest).act = EraseOf(g)
Pending(g) == IF EraseOf(g) \in late THEN 1 ELSE 0

\* There are finitely many slots.
LEMMA SlotsFinite == IsFiniteSet(Slots)
<1>1. MaxTasks \in Nat
  BY ClientAssumption DEF ClientAssumption
<1> QED
  BY <1>1, FS_Interval DEF Slots

\* Sending, task by task.
LEMMA SendingNow == \A g, t : t \in Sending(g) <=> (t \in Slots /\ SendsErase(task[t], g))
BY DEF Sending, SendsErase, Current

\* Sending after a step, task by task.
LEMMA SendingNext == \A g, t : t \in Sending(g)' <=> (t \in Slots /\ SendsErase(task'[t], g))
BY DEF Sending, SendsErase, Current, EraseOf, Slots

\* How the number of requests under way follows the tasks.
LEMMA SendingCount ==
    ASSUME NEW g
    PROVE  /\ Cardinality(Sending(g)) \in Nat /\ Cardinality(Sending(g)') \in Nat
           /\ Sending(g)' \subseteq Sending(g) => Cardinality(Sending(g)') <= Cardinality(Sending(g))
           /\ \A t \in Sending(g) : Sending(g)' \subseteq Sending(g) \ {t} =>
                                       Cardinality(Sending(g)') + 1 <= Cardinality(Sending(g))
           /\ \A t \in Slots : Sending(g)' \subseteq Sending(g) \cup {t} =>
                                  Cardinality(Sending(g)') <= Cardinality(Sending(g)) + 1
<1> DEFINE A == Sending(g)  B == Sending(g)'
<1>1. A \in SUBSET Slots /\ B \in SUBSET Slots
  BY SendingNow, SendingNext
<1> HIDE DEF A, B
<1>2. IsFiniteSet(A) /\ IsFiniteSet(B) /\ Cardinality(A) \in Nat /\ Cardinality(B) \in Nat
  BY <1>1, SlotsFinite, FS_Subset, FS_CardinalityType
<1>3. B \subseteq A => Cardinality(B) <= Cardinality(A)
  BY <1>2, FS_Subset
<1>4. ASSUME NEW t \in A, B \subseteq A \ {t} PROVE Cardinality(B) + 1 <= Cardinality(A)
  <2> DEFINE C == A \ {t}
  <2>1. IsFiniteSet(C) /\ Cardinality(C) = Cardinality(A) - 1
    BY <1>2, FS_RemoveElement
  <2>2. B \in SUBSET C
    BY <1>4
  <2> HIDE DEF C
  <2>3. Cardinality(B) <= Cardinality(C)
    BY <2>1, <2>2, FS_Subset
  <2> QED
    BY <1>2, <2>1, <2>3
<1>5. ASSUME NEW t \in Slots, B \subseteq A \cup {t} PROVE Cardinality(B) <= Cardinality(A) + 1
  <2> DEFINE C == A \cup {t}
  <2>1. IsFiniteSet(C) /\ (Cardinality(C) = Cardinality(A) \/ Cardinality(C) = Cardinality(A) + 1)
    BY <1>2, FS_AddElement
  <2>2. B \in SUBSET C
    BY <1>5
  <2> HIDE DEF C
  <2>3. Cardinality(B) <= Cardinality(C)
    BY <2>1, <2>2, FS_Subset
  <2> QED
    BY <1>2, <2>1, <2>3
<1> QED
  BY <1>2, <1>3, <1>4, <1>5 DEF A, B

\* What makes ErasuresOK true after a step.
LEMMA ErasuresNext ==
    ASSUME \A g \in Erasures : erased'[g] + Cardinality(Sending(g)') + Pending(g)' <= clicks'[g]
    PROVE  ErasuresOK'
BY DEF ErasuresOK, Pending, EraseOf

\* ErasuresOK, subject by subject.
LEMMA ErasuresNow ==
    ASSUME TypeOK, ErasuresOK, NEW g \in Erasures
    PROVE  /\ erased[g] \in Nat /\ clicks[g] \in Nat
           /\ erased[g] + Cardinality(Sending(g)) + Pending(g) <= clicks[g]
BY DEF ErasuresOK, Pending, TypeOK

\* Pending is 0 or 1.
LEMMA PendingNow == \A g : Pending(g) \in {0, 1} /\ (Pending(g) = 1 <=> EraseOf(g) \in late)
BY DEF Pending

\* Pending after a step is 0 or 1.
LEMMA PendingNext == \A g : Pending(g)' \in {0, 1} /\ (Pending(g)' = 1 <=> EraseOf(g) \in late')
BY DEF Pending, EraseOf

\* The erasures among the actions.
LEMMA EraseActs ==
    /\ \A g : EraseOf(g).kind = "erase" /\ EraseOf(g).id = g /\ is_destructive(EraseOf(g))
    /\ \A a \in Erase : a = EraseOf(a.id) /\ a.id \in Erasures
BY DEF EraseOf, is_destructive, Erase

\* What replays by itself is no erasure.
LEMMA AutoIsNoErasure ==
    ASSUME NEW r, TaskOK(r), r.by = "auto", r.rest \in Seq(Item), NEW g
    PROVE  ~SendsErase(r, g)
<1>1. Head(r.rest) \in Items(r.rest)
  BY Split DEF TaskOK
<1>2. ~is_parked(Head(r.rest))
  BY <1>1 DEF TaskOK
<1>3. ~is_destructive(Head(r.rest).act)
  BY <1>2 DEF is_parked
<1> QED
  BY <1>3, EraseActs DEF SendsErase

\* A click pays for every erasure done, under way or late at the server.
LEMMA ErasuresStep ==
    ASSUME TypeOK, TasksOK, CopiesOK, ErasuresOK, Next
    PROVE  ErasuresOK'
<1>t. /\ TasksOK' /\ TypeOK' /\ erased \in [Erasures -> Nat] /\ clicks \in [Erasures -> Nat]
  BY TasksStep, TypeStep DEF TypeOK
<1>n. \A t \in Slots : TaskOK(task'[t]) /\ task'[t].rest \in Seq(Item)
  BY <1>t, TasksByTaskNext DEF TypeOK, TaskType, Slots
<1> SUFFICES ASSUME NEW g \in Erasures
             PROVE  erased'[g] + Cardinality(Sending(g)') + Pending(g)' <= clicks'[g]
  BY ErasuresNext
<1> DEFINE N == Cardinality(Sending(g))  M == Cardinality(Sending(g)')
           P == Pending(g)  Q == Pending(g)'
<1>0. /\ erased[g] \in Nat /\ clicks[g] \in Nat /\ N \in Nat /\ M \in Nat /\ P \in {0, 1} /\ Q \in {0, 1}
      /\ erased[g] + N + P <= clicks[g]
  BY ErasuresNow, SendingCount, PendingNow, PendingNext
<1>p. (Q = 1 <=> EraseOf(g) \in late') /\ (P = 1 <=> EraseOf(g) \in late)
  BY PendingNow, PendingNext
<1>c. /\ Sending(g)' \subseteq Sending(g) => M <= N
      /\ \A t \in Sending(g) : Sending(g)' \subseteq Sending(g) \ {t} => M + 1 <= N
      /\ \A t \in Slots : Sending(g)' \subseteq Sending(g) \cup {t} => M <= N + 1
  BY SendingCount
<1>s. \A t : (t \in Sending(g) <=> (t \in Slots /\ SendsErase(task[t], g)))
             /\ (t \in Sending(g)' <=> (t \in Slots /\ SendsErase(task'[t], g)))
  BY SendingNow, SendingNext
<1> HIDE DEF N, M, P, Q
<1> SUFFICES erased'[g] + M + Q <= clicks'[g]
  BY DEF M, Q
<1>1. ASSUME NEW t \in Slots, Begins(t) PROVE erased'[g] + M + Q <= clicks'[g]
  <2>1. /\ ~Running(t) /\ erased' = erased /\ late' = late
        /\ \A u \in Slots : u # t => task'[u] = task[u]
    BY <1>1, Begun DEF server
  <2>2. Sending(g)' \subseteq Sending(g) \cup {t}
    BY <1>s, <2>1
  <2>3. Q = P
    BY <1>0, <1>p, <2>1
  <2>4. ASSUME ~SendsErase(task'[t], g) PROVE M <= N
    BY <1>c, <1>s, <2>1, <2>4
  <2>5. ASSUME NEW a, clicks' = IF a.kind = "erase" THEN [clicks EXCEPT ![a.id] = @ + 1] ELSE clicks,
               SendsErase(task'[t], g) => a = EraseOf(g)
        PROVE  erased'[g] + M + Q <= clicks'[g]
    <3>1. CASE a = EraseOf(g)
      <4>1. clicks'[g] = clicks[g] + 1
        BY <1>t, <2>5, <3>1, EraseActs
      <4>2. M <= N + 1
        BY <1>c, <2>2
      <4> QED
        BY <1>0, <2>1, <2>3, <4>1, <4>2
    <3>2. CASE a # EraseOf(g)
      <4>1. M <= N
        BY <2>4, <2>5, <3>2
      <4>2. clicks'[g] = clicks[g] \/ clicks'[g] = clicks[g] + 1
        BY <1>t, <2>5
      <4> QED
        BY <1>0, <2>1, <2>3, <4>1, <4>2
    <3> QED
      BY <3>1, <3>2
  <2>6. ASSUME NEW a \in Actions, Click(t, a), task'[t].rest = <<[act |-> a, retries |-> 0]>>
        PROVE  erased'[g] + M + Q <= clicks'[g]
    <3>1. clicks' = IF a.kind = "erase" THEN [clicks EXCEPT ![a.id] = @ + 1] ELSE clicks
      BY <2>6 DEF Click
    <3> DEFINE x == [act |-> a, retries |-> 0]
    <3>2. x \in Item /\ x.act = a /\ task'[t].rest = <<x>>
      BY <2>6, FreshItem
    <3> HIDE DEF x
    <3>3. Head(task'[t].rest) = x
      BY <3>2, OneItem
    <3> QED
      BY <2>5, <3>1, <3>2, <3>3 DEF SendsErase
  <2>7. ASSUME NEW item \in Items(kept), BannerReplay(t, item), task'[t].rest = <<item>>
        PROVE  erased'[g] + M + Q <= clicks'[g]
    <3> DEFINE a == item.act
    <3>1. clicks' = IF a.kind = "erase" THEN [clicks EXCEPT ![a.id] = @ + 1] ELSE clicks
      BY <2>7 DEF BannerReplay
    <3>2. Head(task'[t].rest) = item
      BY <2>7, OneItem
    <3>3. SendsErase(task'[t], g) => a = EraseOf(g)
      BY <3>2 DEF SendsErase
    <3> HIDE DEF a
    <3> QED
      BY <2>5, <3>1, <3>3
  <2>8. ASSUME task'[t].by = "auto", clicks' = clicks PROVE erased'[g] + M + Q <= clicks'[g]
    <3>1. M <= N
      BY <1>n, <2>4, <2>8, AutoIsNoErasure
    <3> QED
      BY <1>0, <2>1, <2>3, <2>8, <3>1
  <2>9. ASSUME NEW p \in picked, task'[t].rest = <<AsListed(p)>>, clicks' = clicks
        PROVE  erased'[g] + M + Q <= clicks'[g]
    <3>1. p \in Proposals
      BY DEF TypeOK
    <3>2. AsListed(p) \in Item /\ ~is_destructive(AsListed(p).act)
      BY <3>1, ListedItem
    <3>3. Head(task'[t].rest) = AsListed(p)
      BY <2>9, <3>2, OneItem
    <3>4. ~SendsErase(task'[t], g)
      BY <3>2, <3>3, EraseActs DEF SendsErase
    <3>5. M <= N
      BY <2>4, <3>4
    <3> QED
      BY <1>0, <2>1, <2>3, <2>9, <3>5
  <2> QED
    BY <1>1, <2>6, <2>7, <2>8, <2>9, Begun, Zenon
<1>2. ASSUME NEW t \in Slots, Requeues(t) \/ Answers(t) \/ BannerDone(t) \/ BannerFailed(t)
      PROVE  erased'[g] + M + Q <= clicks'[g]
  <2>1. Running(t) /\ Advance(t) /\ UNCHANGED <<erased, late, clicks>>
    BY <1>2, EndedCalls
  <2>2. ~SendsErase(task'[t], g)
    <3>1. CASE task'[t] = Free
      BY <3>1, FreeTask DEF SendsErase
    <3>2. CASE task'[t].by = "auto"
      BY <1>n, <3>2, AutoIsNoErasure
    <3> QED
      BY <2>1, <3>1, <3>2, Advanced
  <2>3. \A u \in Slots : u # t => task'[u] = task[u]
    BY <2>1, Advanced
  <2>4. M <= N
    BY <1>c, <1>s, <2>2, <2>3
  <2>5. Q = P
    BY <1>0, <1>p, <2>1
  <2> QED
    BY <1>0, <2>1, <2>4, <2>5
<1>3. ASSUME NEW t \in Slots, Serve(t) PROVE erased'[g] + M + Q <= clicks'[g]
  <2>1. PICK answer \in {"ok", "gone", "refused"} :
           Handle(Wire(t), answer) /\ task' = [task EXCEPT ![t].net = answer]
    BY <1>3 DEF Serve
  <2>2. task[t].net = "sent" /\ late' = late /\ clicks' = clicks
    BY <1>3 DEF Serve, hist
  <2>3. task'[t].net # "sent" /\ \A u \in Slots : u # t => task'[u] = task[u]
    BY <2>1, Netted
  <2>4. Sending(g)' \subseteq Sending(g) \ {t}
    BY <1>s, <2>3 DEF SendsErase
  <2>5. M <= N /\ (t \in Sending(g) => M + 1 <= N)
    BY <1>c, <2>4
  <2>6. Wire(t) \in Actions /\ Wire(t) = Head(task[t].rest).act
    BY <2>2, CurrentItem DEF Current
  <2>7. erased'[g] = erased[g] \/ (erased'[g] = erased[g] + 1 /\ Wire(t) = EraseOf(g))
    <3> DEFINE a == Wire(t)
    <3>0. a \in Actions /\ Handle(a, answer)
      BY <2>1, <2>6
    <3> HIDE DEF a
    <3>1. erased' = erased \/ (a \in Erase /\ a.id \in Erasures /\ erased' = [erased EXCEPT ![a.id] = @ + 1])
      BY <3>0, Handled
    <3>2. erased'[g] = erased[g] \/ (erased'[g] = erased[g] + 1 /\ a = EraseOf(g))
      BY <1>t, <3>1, EraseActs
    <3> QED
      BY <3>2 DEF a
  <2>8. Wire(t) = EraseOf(g) => t \in Sending(g)
    BY <1>s, <2>2, <2>6 DEF SendsErase
  <2>9. Q = P
    BY <1>0, <1>p, <2>2
  <2> QED
    BY <1>0, <2>2, <2>5, <2>7, <2>8, <2>9
<1>4. ASSUME NEW a \in late, ServeLate(a) PROVE erased'[g] + M + Q <= clicks'[g]
  <2>1. PICK answer : Handle(a, answer)
    BY <1>4 DEF ServeLate
  <2>2. late' = late \ {a} /\ clicks' = clicks /\ task' = task /\ a \in Actions
    BY <1>4 DEF ServeLate, client, hist, TypeOK
  <2>3. M <= N
    BY <1>c, <1>s, <2>2
  <2>4. erased' = erased \/ (a \in Erase /\ a.id \in Erasures /\ erased' = [erased EXCEPT ![a.id] = @ + 1])
    BY <2>1, <2>2, Handled
  <2>5. erased'[g] = erased[g] \/ (erased'[g] = erased[g] + 1 /\ a = EraseOf(g))
    BY <1>t, <2>4, EraseActs
  <2>6. (Q = 1 => P = 1) /\ (a = EraseOf(g) => (P = 1 /\ Q # 1))
    BY <1>p, <2>2
  <2> QED
    BY <1>0, <2>2, <2>3, <2>5, <2>6
<1>5. ASSUME NEW T \in SUBSET Slots, Abandoned(T), erased' = erased, clicks' = clicks,
             \A t \in T : task'[t].net # "sent",
             \A t \in Slots : t \notin T => task'[t] = task[t]
      PROVE  erased'[g] + M + Q <= clicks'[g]
  <2>1. Sending(g)' \subseteq Sending(g) \ T
    BY <1>5, <1>s DEF SendsErase
  <2>2. M <= N
    BY <1>c, <2>1
  <2>3. CASE EraseOf(g) \in late' /\ EraseOf(g) \notin late
    <3>1. PICK t \in T : task[t].net = "sent" /\ EraseOf(g) = Current(t).act
      BY <1>5, <2>3, AbandonedRequests
    <3>2. t \in Sending(g)
      BY <1>s, <3>1 DEF SendsErase, Current
    <3>3. Sending(g)' \subseteq Sending(g) \ {t}
      BY <2>1
    <3>4. M + 1 <= N
      BY <1>c, <3>2, <3>3
    <3> QED
      BY <1>0, <1>5, <3>4
  <2>4. CASE ~(EraseOf(g) \in late' /\ EraseOf(g) \notin late)
    <3>1. Q = 1 => P = 1
      BY <1>p, <2>4
    <3> QED
      BY <1>0, <1>5, <2>2, <3>1
  <2> QED
    BY <2>3, <2>4
<1>6. ASSUME NEW t \in Slots, Drops(t) \/ NetworkError(t) PROVE erased'[g] + M + Q <= clicks'[g]
  <2>1. /\ Abandoned({t}) /\ erased' = erased /\ clicks' = clicks
        /\ (task' = [task EXCEPT ![t] = Free] \/ task' = [task EXCEPT ![t].net = "offline"])
    BY <1>6 DEF Drops, LeavePanel, RowCancelled, NetworkError, server, hist
  <2>2. task'[t].net # "sent" /\ \A u \in Slots : u # t => task'[u] = task[u]
    <3>1. CASE task' = [task EXCEPT ![t] = Free]
      BY <3>1, Freed, FreeTask
    <3>2. CASE task' = [task EXCEPT ![t].net = "offline"]
      BY <3>2, Netted
    <3> QED
      BY <2>1, <3>1, <3>2
  <2>3. {t} \in SUBSET Slots
    OBVIOUS
  <2> QED
    BY <1>5, <2>1, <2>2, <2>3
<1>7. ASSUME Reload PROVE erased'[g] + M + Q <= clicks'[g]
  <2>1. Abandoned(Slots) /\ erased' = erased /\ clicks' = clicks /\ \A t \in Slots : task'[t] = Free
    BY <1>7 DEF Reload, server
  <2>2. \A t \in Slots : task'[t].net # "sent"
    BY <2>1, FreeTask
  <2> QED
    BY <1>5, <2>1, <2>2
<1>8. ASSUME \/ \E p \in Proposals : OtherReviewer(p)
             \/ BannerSync \/ BannerDismiss \/ (\E item \in Rows : BannerSkip(item))
             \/ ProbeUp \/ ProbeDown \/ Lists
      PROVE  erased'[g] + M + Q <= clicks'[g]
  <2>1. UNCHANGED <<erased, late, clicks, task>>
    BY <1>8, ListSteps DEF OtherReviewer, BannerSync, BannerDismiss, BannerSkip, ProbeUp, ProbeDown,
                           server, client, hist
  <2>2. M <= N
    BY <1>c, <1>s, <2>1
  <2>3. Q = P
    BY <1>0, <1>p, <2>1
  <2> QED
    BY <1>0, <2>1, <2>2, <2>3
<1>9. ASSUME LeaveList PROVE erased'[g] + M + Q <= clicks'[g]
  <2>1. PICK T \in SUBSET Slots :
           /\ Abandoned(T) /\ \A t \in T : task'[t] = Free
           /\ \A t \in Slots : t \notin T => task'[t] = task[t]
    BY <1>9, ListLeft
  <2>2. erased' = erased /\ clicks' = clicks
    BY <1>9, ListLeft
  <2>3. \A t \in T : task'[t].net # "sent"
    BY <2>1, FreeTask
  <2> QED
    BY <1>5, <2>1, <2>2, <2>3
<1> QED
  BY <1>1, <1>2, <1>3, <1>4, <1>6, <1>7, <1>8, <1>9, Steps, Zenon

-----------------------------------------------------------------------------
(* The beginning                                                           *)

\* What an earlier session left is one approval at most, whose retries are spent.
LEMMA InitQueue ==
    ASSUME Init
    PROVE  /\ queue \in Seq(Item) /\ Single(queue)
           /\ \A x \in Items(queue) : is_parked(x) /\ x.act \in Approve
<1>1. CASE queue = <<>>
  <2>1. queue \in Seq(Item) /\ Items(queue) = {}
    BY <1>1, NoItem
  <2>2. Single(queue)
    BY <1>1 DEF Single
  <2> QED
    BY <2>1, <2>2
<1>2. ASSUME NEW item \in Leftover, queue = <<item>>
      PROVE  /\ queue \in Seq(Item) /\ Single(queue)
             /\ \A x \in Items(queue) : is_parked(x) /\ x.act \in Approve
  <2>0. MaxRetries \in Nat
    BY ClientAssumption DEF ClientAssumption
  <2>1. item.act \in Approve /\ item.retries = MaxRetries /\ item \in Item
    BY <2>0, ApproveActs DEF Leftover, Item
  <2>2. is_parked(item)
    BY <2>0, <2>1 DEF is_parked
  <2>3. queue \in Seq(Item) /\ Items(queue) = {item}
    BY <1>2, <2>1, OneItem
  <2>4. Single(queue)
    BY <1>2, <2>2 DEF Single, Unparked
  <2> QED
    BY <2>1, <2>2, <2>3, <2>4
<1> QED
  BY <1>1, <1>2 DEF Init

\* An empty queue and no task satisfy the invariant.
LEMMA InitClient == Init => TypeOK /\ ClientInv
<1> SUFFICES ASSUME Init PROVE TypeOK /\ ClientInv
  OBVIOUS
<1>q. /\ queue \in Seq(Item) /\ Single(queue)
      /\ \A x \in Items(queue) : is_parked(x) /\ x.act \in Approve
  BY InitQueue
<1>t. task = [t \in Slots |-> Free] /\ late = {} /\ kept = <<>> /\ conn = "down"
  BY DEF Init
<1>o. owed = {}
  <2>1. \A a : ~Due(queue, a)
    BY <1>q, Asked
  <2> QED
    BY <2>1 DEF Init
<1>c. clicks = [g \in Erasures |-> 0]
  <2>1. \A a \in Erase : ~Has(queue, a)
    <3>1. \A a \in Erase : a \notin Approve
      BY DEF Erase, Approve
    <3> QED
      BY <1>q, <3>1, Asked
  <2>2. ASSUME NEW g \in Erasures PROVE Cardinality({a \in Erase : a.id = g /\ Has(queue, a)}) = 0
    <3>1. {a \in Erase : a.id = g /\ Has(queue, a)} = {}
      BY <2>1, Zenon
    <3> QED
      BY <3>1, FS_EmptySet
  <2> QED
    BY <2>2 DEF Init
<1>1. TypeOK
  <2>1. task \in [Slots -> TaskType]
    BY <1>t, FreeTask
  <2>2. kept \in Seq(Item)
    BY <1>t, NoItem
  <2>3. /\ status \in [Proposals -> {"pending", "approved", "rejected", "other"}]
        /\ erased \in [Erasures -> Nat] /\ clicks \in [Erasures -> Nat]
    BY <1>c DEF Init
  <2>4. content \in [Proposals -> Contents]
    <3>1. (CHOOSE c \in Contents : TRUE) \in Contents
      BY ClientAssumption DEF ClientAssumption
    <3> QED
      BY <3>1 DEF Init
  <2>5. shown \subseteq Approve /\ asked \subseteq Proposals
    <3>1. \A a \in Approve : a.id \in Proposals
      BY DEF Approve
    <3> QED
      BY <3>1 DEF Init
  <2>6. listed \in [Proposals -> Contents \cup {None}] /\ picked \subseteq Proposals
    BY DEF Init, Unlisted
  <2> QED
    BY <1>q, <1>t, <1>o, <2>1, <2>2, <2>3, <2>4, <2>5, <2>6 DEF TypeOK
<1>2. TasksOK
  BY <1>t, TasksByTask, FreeTaskOK
<1>3. CopiesOK
  <2>1. \A i \in DOMAIN kept : is_parked(kept[i])
    BY <1>t
  <2> QED
    BY <1>q, <1>t, <2>1, Zenon DEF CopiesOK, Single
<1>4. OwedOK
  BY <1>o DEF OwedOK
<1>5. ShownOK
  <2>1. \A a : ~InTask(a)
    BY <1>t, FreeTask, NoItem DEF InTask
  <2>2. \A a : ~Has(kept, a) /\ a \notin late
    BY <1>t, NoItem, Asked
  <2>3. \A a \in Approve : Has(queue, a) => a \in shown /\ a.id \in asked
    BY DEF Init
  <2>4. picked \subseteq asked /\ \A p \in Proposals : listed[p] = None
    BY DEF Init, Unlisted
  <2> QED
    BY <2>1, <2>2, <2>3, <2>4, CarriedActs, ApproveActs DEF ShownOK
<1>6. ApprovedWasShown
  BY DEF ApprovedWasShown, Init
<1>7. ErasuresOK
  <2> SUFFICES ASSUME NEW g \in Erasures
               PROVE  erased[g] + Cardinality(Sending(g)) + (IF EraseOf(g) \in late THEN 1 ELSE 0) <= clicks[g]
    BY DEF ErasuresOK
  <2>1. \A t : t \notin Sending(g)
    BY <1>t, SendingNow, FreeTask DEF SendsErase
  <2>2. Sending(g) = {}
    BY <2>1
  <2>3. Cardinality(Sending(g)) = 0
    BY <2>2, FS_EmptySet
  <2>4. erased[g] = 0 /\ clicks[g] = 0
    BY <1>c DEF Init
  <2> QED
    BY <1>t, <2>3, <2>4
<1> QED
  BY <1>1, <1>2, <1>3, <1>4, <1>5, <1>6, <1>7 DEF ClientInv

-----------------------------------------------------------------------------
(* Theorems                                                                *)

\* The invariant holds of every reachable state of the client, its wire and its server.
THEOREM ClientInvariant == Spec => [](TypeOK /\ ClientInv)
<1>1. Init => TypeOK /\ ClientInv
  BY InitClient
<1>2. TypeOK /\ ClientInv /\ [Next]_vars => (TypeOK /\ ClientInv)'
  <2>1. ASSUME TypeOK, ClientInv, Next PROVE (TypeOK /\ ClientInv)'
    <3>1. TasksOK /\ CopiesOK /\ OwedOK /\ ShownOK /\ ApprovedWasShown /\ ErasuresOK
      BY <2>1 DEF ClientInv
    <3>2. TypeOK' /\ TasksOK' /\ CopiesOK' /\ OwedOK'
      BY <2>1, <3>1, TypeStep, TasksStep, CopiesStep, OwedStep
    <3>3. ShownOK' /\ ApprovedWasShown' /\ ErasuresOK'
      BY <2>1, <3>1, ShownStep, ApprovedStep, ErasuresStep
    <3> QED
      BY <3>2, <3>3 DEF ClientInv
  <2>2. ASSUME TypeOK, ClientInv, UNCHANGED vars PROVE (TypeOK /\ ClientInv)'
    <3>0. UNCHANGED <<status, content, erased, late, queue, kept, conn, task, listed, picked,
                      shown, asked, clicks, owed>>
      BY <2>2 DEF vars
    <3>1. TypeOK'
      BY <2>2, <3>0 DEF TypeOK
    <3>2. TasksOK' /\ CopiesOK'
      BY <2>2, <3>0 DEF ClientInv, TasksOK, Running, Current, CopiesOK
    <3>3. OwedOK' /\ ShownOK'
      BY <2>2, <3>0 DEF ClientInv, OwedOK, Replaying, ShownOK, Carried
    <3>4. ApprovedWasShown'
      BY <2>2, <3>0 DEF ClientInv, ApprovedWasShown
    <3>5. ErasuresOK'
      BY <2>2, <3>0 DEF ClientInv, ErasuresOK, Sending, Current
    <3> QED
      BY <3>1, <3>2, <3>3, <3>4, <3>5 DEF ClientInv
  <2> QED
    BY <2>1, <2>2
<1> QED
  BY <1>1, <1>2, PTL DEF Spec

\* Every field keeps its type (the runs' TypeOK).
THEOREM ClientTypeCorrect == Spec => []TypeOK
BY ClientInvariant, PTL

\* A replayed, repeated or late approval approves a proposal the operator approved,
\* and bytes this client has displayed: the panels of review.rs queue a digest they
\* have, and queue.rs sends the digest it was given, never one read at replay.
THEOREM ApprovedWasShownHolds == Spec => []ApprovedWasShown
<1>1. ClientInv => ApprovedWasShown
  BY DEF ClientInv
<1> QED
  BY <1>1, ClientInvariant, PTL

\* No network error, reconnection, reload or replay repeats an erasure: queue.rs
\* parks every destructive action, and the banner sends it by hand.
THEOREM ErasedAsAskedHolds == Spec => []ErasedAsAsked
<1>1. ASSUME TypeOK, ClientInv PROVE ErasedAsAsked
  <2>1. ErasuresOK
    BY <1>1 DEF ClientInv
  <2>2. ASSUME NEW g \in Erasures PROVE erased[g] <= clicks[g]
    <3>1. erased[g] \in Nat /\ clicks[g] \in Nat /\ erased[g] + Cardinality(Sending(g)) + Pending(g) <= clicks[g]
      BY <1>1, <2>1, ErasuresNow
    <3>2. Cardinality(Sending(g)) \in Nat /\ Pending(g) \in {0, 1}
      BY SendingCount, PendingNow
    <3> HIDE DEF Pending
    <3> QED
      BY <3>1, <3>2
  <2> QED
    BY <2>2 DEF ErasedAsAsked
<1>2. TypeOK /\ ClientInv => ErasedAsAsked
  BY <1>1
<1> QED
  BY <1>2, ClientInvariant, PTL

\* A decision queued by queue.rs is in the queue or carried by a task until the
\* server has answered it, a full queue drops it or the page is reloaded.
THEOREM NothingForgottenHolds == Spec => []NothingForgotten
<1>1. ASSUME TypeOK, ClientInv PROVE NothingForgotten
  <2>1. owed \subseteq Actions /\ \A a \in owed : Has(queue, a) \/ Replaying(a)
    BY <1>1 DEF TypeOK, ClientInv, OwedOK
  <2> QED
    BY <2>1, Zenon DEF NothingForgotten, Carried, Replaying
<1>2. TypeOK /\ ClientInv => NothingForgotten
  BY <1>1
<1> QED
  BY <1>2, ClientInvariant, PTL
=============================================================================
