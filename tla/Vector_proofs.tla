--------------------------- MODULE Vector_proofs ---------------------------
(***************************************************************************)
(* Facts about sequences and the erase idiom of module Vector, of every    *)
(* length.                                                                 *)
(***************************************************************************)
EXTENDS Vector, FiniteSetTheorems, SequenceTheorems, WellFoundedInduction, TLAPS

(* A nonempty set of naturals has a least element: the induction principle *)
(* behind the search loops and the erase idiom of the selectors.           *)
LEMMA LeastElement ==
  ASSUME NEW T \in SUBSET Nat, T # {}
  PROVE  \E m \in T : \A x \in T : m <= x
<1> DEFINE R == OpToRel(<, Nat)
<1>1. IsWellFoundedOn(R, Nat)
  BY NatLessThanWellFounded
<1>2. PICK m \in T : \A x \in T : ~(<<x, m>> \in R)
  BY <1>1, WFMin
<1>3. \A x \in T : ~ (x < m)
  BY <1>2 DEF OpToRel
<1> QED
  BY <1>3

(* A finite set of naturals has a k-th smallest member for each k up to    *)
(* its size, so erase (selector_poll.cpp:100) has an element for each      *)
(* position it leaves.                                                     *)
LEMMA NthExists ==
  ASSUME NEW S \in SUBSET Nat, IsFiniteSet(S),
         NEW k \in 1..Cardinality(S)
  PROVE  \E i \in S : Cardinality({j \in S : j <= i}) = k
<1> DEFINE Upto(i) == {j \in S : j <= i}
           Bad == {n \in 1..Cardinality(S) : \A i \in S : Cardinality(Upto(i)) # n}
<1>0. Cardinality(S) \in Nat
  BY FS_CardinalityType
<1>1. SUFFICES ASSUME Bad # {} PROVE FALSE
  OBVIOUS
<1>2. PICK b \in Bad : \A x \in Bad : b <= x
  <2>1. Bad \in SUBSET Nat
    BY <1>0
  <2> QED BY <2>1, <1>1, LeastElement
<1>3. \A i \in S : IsFiniteSet(Upto(i)) /\ Cardinality(Upto(i)) \in Nat
  BY FS_Subset, FS_CardinalityType
<1>4. CASE b = 1
  <2>1. S # {}
    BY <1>0, FS_EmptySet
  <2>2. PICK m \in S : \A x \in S : m <= x
    BY <2>1, LeastElement
  <2>3. \A x \in S : x <= m <=> x = m
    BY <2>2
  <2>4. Upto(m) = {m}
    BY <2>3
  <2> QED BY <2>4, FS_Singleton, <1>4
<1>5. CASE b # 1
  <2>1. b - 1 \in 1..Cardinality(S) /\ b - 1 \notin Bad
    BY <1>0, <1>2, <1>5
  <2>2. PICK p \in S : Cardinality(Upto(p)) = b - 1
    BY <2>1
  <2> DEFINE Above == {j \in S : p < j}
  <2>3. Above # {}
    <3>1. SUFFICES ASSUME Above = {} PROVE FALSE
      OBVIOUS
    <3>2. \A x \in S : x <= p
      BY <3>1
    <3>3. Upto(p) = S
      BY <3>2
    <3> QED BY <3>3, <2>2, <1>0, <1>2
  <2>4. PICK m \in Above : \A x \in Above : m <= x
    <3>1. Above \in SUBSET Nat
      OBVIOUS
    <3> QED BY <3>1, <2>3, LeastElement
  <2>5. Upto(m) = Upto(p) \cup {m} /\ m \notin Upto(p)
    <3>1. m \in S /\ p < m /\ ~(m <= p)
      BY <2>4
    <3>2. \A x \in S : x <= m <=> x <= p \/ x = m
      BY <2>4, <3>1
    <3> QED BY <3>1, <3>2
  <2>6. Cardinality(Upto(m)) = b
    <3> HIDE DEF Upto
    <3>1. IsFiniteSet(Upto(p))
      BY <1>3
    <3>2. Cardinality(Upto(p) \cup {m}) = Cardinality(Upto(p)) + 1
      BY <2>5, <3>1, FS_AddElement
    <3> QED BY <2>2, <2>5, <3>2, <1>0
  <2> QED BY <2>6
<1> QED BY <1>4, <1>5

(* The element erase moves to position k comes from a surviving position.  *)
LEMMA NthInSet ==
  ASSUME NEW S \in SUBSET Nat, IsFiniteSet(S), NEW k \in 1..Cardinality(S)
  PROVE  Nth(S, k) \in S
BY NthExists DEF Nth

(* Survivors are positions of the vector, so finitely many naturals.       *)
LEMMA SurvivorsFinite ==
  ASSUME NEW v, Len(v) \in Nat, NEW fd
  PROVE  /\ Survivors(v, fd) \in SUBSET Nat
         /\ IsFiniteSet(Survivors(v, fd))
         /\ Cardinality(Survivors(v, fd)) \in Nat
<1>1. Survivors(v, fd) \in SUBSET (1..Len(v))
  BY DEF Survivors
<1>2. IsFiniteSet(1..Len(v))
  BY FS_Interval
<1> QED
  BY <1>1, <1>2, FS_Subset, FS_CardinalityType

(* What erase returns: as many elements as survive, each of them taken     *)
(* from a surviving position (selector_poll.cpp:100, selector_epoll.cpp:133). *)
LEMMA EraseFacts ==
  ASSUME NEW X, NEW v \in Seq(X), NEW fd
  PROVE  /\ Erase(v, fd) \in Seq(X)
         /\ Len(Erase(v, fd)) = Cardinality(Survivors(v, fd))
         /\ \A k \in 1..Cardinality(Survivors(v, fd)) :
              /\ Nth(Survivors(v, fd), k) \in Survivors(v, fd)
              /\ Erase(v, fd)[k] = v[Nth(Survivors(v, fd), k)]
<1> DEFINE S == Survivors(v, fd)
<1>1. S \in SUBSET Nat /\ IsFiniteSet(S) /\ Cardinality(S) \in Nat
  BY SurvivorsFinite
<1>2. \A k \in 1..Cardinality(S) : Nth(S, k) \in S
  BY <1>1, NthInSet
<1>3. S \subseteq 1..Len(v)
  BY DEF Survivors
<1>4. \A k \in 1..Cardinality(S) : v[Nth(S, k)] \in X
  BY <1>2, <1>3
<1>5. Erase(v, fd) = [k \in 1..Cardinality(S) |-> v[Nth(S, k)]]
  BY DEF Erase, Pack
<1> HIDE DEF S
<1>6. Erase(v, fd) \in Seq(X) /\ Len(Erase(v, fd)) = Cardinality(S)
  BY <1>1, <1>4, <1>5
<1> QED
  BY <1>2, <1>5, <1>6 DEF S

(* Vectors that agree on the descriptor at every position lose the same    *)
(* positions to erase: why two parallel vectors stay parallel.             *)
LEMMA SameSurvivors ==
  ASSUME NEW v, NEW w, NEW fd, Len(v) = Len(w),
         \A i \in 1..Len(w) : v[i].fd = w[i].fd
  PROVE  Survivors(v, fd) = Survivors(w, fd)
BY DEF Survivors

(* The k-th smallest member is the one with k members up to it.            *)
LEMMA NthIs ==
  ASSUME NEW S \in SUBSET Nat, IsFiniteSet(S), NEW i \in S
  PROVE  LET k == Cardinality({j \in S : j <= i})
         IN  k \in 1..Cardinality(S) /\ Nth(S, k) = i
<1> DEFINE Upto(x) == {j \in S : j <= x}
           k == Cardinality(Upto(i))
<1>0. Cardinality(S) \in Nat /\ \A x \in S : IsFiniteSet(Upto(x)) /\ Cardinality(Upto(x)) \in Nat
  BY FS_Subset, FS_CardinalityType
<1>1. k \in 1..Cardinality(S)
  <2>1. Upto(i) \subseteq S /\ i \in Upto(i)
    OBVIOUS
  <2>2. Cardinality(Upto(i)) <= Cardinality(S)
    BY <2>1, FS_Subset
  <2>3. Cardinality(Upto(i)) # 0
    BY <1>0, <2>1, FS_EmptySet
  <2> QED BY <1>0, <2>2, <2>3
<1>2. ASSUME NEW x \in S, NEW y \in S, x < y PROVE Cardinality(Upto(x)) # Cardinality(Upto(y))
  <2>0. /\ \A j \in S : j <= x => j <= y
        /\ y <= y /\ ~(y <= x)
    <3>1. \A a, b, c \in Nat : a < b => (c <= a => c <= b) /\ b <= b /\ ~(b <= a)
      OBVIOUS
    <3> QED BY <1>2, <3>1
  <2>1. Upto(x) \subseteq Upto(y) /\ y \in Upto(y) /\ y \notin Upto(x)
    BY <2>0
  <2>2. Upto(x) # Upto(y)
    BY <2>1
  <2> HIDE DEF Upto
  <2>3. Cardinality(Upto(x)) < Cardinality(Upto(y))
    BY <1>0, <2>1, <2>2, FS_Subset
  <2> QED BY <1>0, <2>3
<1>3. \A x \in S : Cardinality(Upto(x)) = k => x = i
  <2> SUFFICES ASSUME NEW x \in S, Cardinality(Upto(x)) = k PROVE x = i
    OBVIOUS
  <2>1. ~(x < i) /\ ~(i < x)
    BY <1>2
  <2> QED BY <2>1
<1>4. Nth(S, k) = i
  BY <1>3 DEF Nth
<1> QED BY <1>1, <1>4

(* erase keeps every element whose descriptor is another one               *)
(* (selector_epoll.cpp:133).                                               *)
LEMMA EraseKeeps ==
  ASSUME NEW X, NEW v \in Seq(X), NEW fd, NEW i \in 1..Len(v), v[i].fd # fd
  PROVE  \E k \in 1..Len(Erase(v, fd)) : Erase(v, fd)[k] = v[i]
<1> DEFINE S == Survivors(v, fd)
           k == Cardinality({j \in S : j <= i})
<1>1. Len(v) \in Nat /\ i \in S
  BY DEF Survivors
<1>2. S \in SUBSET Nat /\ IsFiniteSet(S)
  BY <1>1, SurvivorsFinite
<1>3. k \in 1..Cardinality(S) /\ Nth(S, k) = i
  BY <1>1, <1>2, NthIs
<1> HIDE DEF S, k
<1>4. Len(Erase(v, fd)) = Cardinality(S) /\ Erase(v, fd)[k] = v[Nth(S, k)]
  BY <1>3, EraseFacts DEF S
<1> QED BY <1>3, <1>4

(* erase of a descriptor that only the last element has drops that one.    *)
LEMMA EraseLast ==
  ASSUME NEW X, NEW v \in Seq(X), v # <<>>, NEW fd,
         \A i \in 1..Len(v) : v[i].fd = fd <=> i = Len(v)
  PROVE  /\ Survivors(v, fd) = 1..(Len(v) - 1)
         /\ Len(Erase(v, fd)) = Len(v) - 1
         /\ \A i \in 1..(Len(v) - 1) : Erase(v, fd)[i] = v[i] /\ Nth(Survivors(v, fd), i) = i
<1> DEFINE n == Len(v) - 1
           S == Survivors(v, fd)
<1>1. Len(v) \in Nat \ {0} /\ n \in Nat
  BY EmptySeq
<1>2. S = 1..n
  BY <1>1 DEF Survivors
<1>3. IsFiniteSet(S) /\ Cardinality(S) = n /\ S \in SUBSET Nat
  BY <1>1, <1>2, FS_Interval
<1>4. \A i \in 1..n : Nth(S, i) = i
  <2> SUFFICES ASSUME NEW i \in 1..n PROVE Nth(S, i) = i
    OBVIOUS
  <2>1. {j \in S : j <= i} = 1..i
    BY <1>1, <1>2
  <2>2. Cardinality(1..i) = i
    BY <1>1, FS_Interval
  <2> QED BY <1>2, <1>3, <2>1, <2>2, NthIs
<1> HIDE DEF n, S
<1>5. Len(Erase(v, fd)) = n /\ \A i \in 1..n : Erase(v, fd)[i] = v[i]
  BY <1>3, <1>4, EraseFacts DEF S
<1> QED BY <1>2, <1>4, <1>5 DEF S, n

(* Where the elements of two sequences are in their concatenation.         *)
LEMMA Joined ==
  ASSUME NEW S, NEW s \in Seq(S), NEW t \in Seq(S)
  PROVE  /\ s \o t \in Seq(S) /\ Len(s \o t) = Len(s) + Len(t)
         /\ \A i \in 1..Len(s) : (s \o t)[i] = s[i]
         /\ \A i \in 1..Len(t) : (s \o t)[Len(s) + i] = t[i]
<1>1. Len(s) \in Nat /\ Len(t) \in Nat
  OBVIOUS
<1>2. /\ s \o t \in Seq(S) /\ Len(s \o t) = Len(s) + Len(t)
      /\ \A i \in 1..(Len(s) + Len(t)) : (s \o t)[i] = IF i <= Len(s) THEN s[i] ELSE t[i - Len(s)]
  BY ConcatProperties
<1>3. \A i \in 1..Len(s) : i \in 1..(Len(s) + Len(t)) /\ i <= Len(s)
  BY <1>1
<1>4. \A i \in 1..Len(t) : /\ Len(s) + i \in 1..(Len(s) + Len(t)) /\ ~(Len(s) + i <= Len(s))
                           /\ (Len(s) + i) - Len(s) = i
  BY <1>1
<1>5. \A i \in 1..Len(s) : (s \o t)[i] = s[i]
  BY <1>2, <1>3
<1>6. \A i \in 1..Len(t) : (s \o t)[Len(s) + i] = t[i]
  BY <1>2, <1>4
<1> QED BY <1>2, <1>5, <1>6
=============================================================================
