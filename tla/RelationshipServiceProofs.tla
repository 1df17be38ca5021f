--------------------- MODULE RelationshipServiceProofs ---------------------
(***************************************************************************)
(* For any stores, links, callers, caps and budget: no link is owned       *)
(* twice, no sync touches what the user decided, what the user decided is  *)
(* reported, an undisturbed sync leaves exactly the links that are derived *)
(* and inferred, no pair is related and linked at once, and the caps and   *)
(* the share of the candidates are kept.                                   *)
(*                                                                         *)
(* A link is never both derived and inferred because the two origins never *)
(* say the same kind of thing: what is inferred of conflicts and           *)
(* duplicates is already derived from the same snapshot and taken out      *)
(* (Split).  The rest needs that one operation runs at a time (Alone), so  *)
(* that the links it has read are still there when it writes               *)
(* (SnapshotHolds), and that what is recorded of memories is about stored  *)
(* ones (Known).                                                           *)
(*                                                                         *)
(* The caps are loops over links in an order without ties (Ranked).  What  *)
(* a loop has taken in its first rounds is what has a place there in the   *)
(* end (TakenInOrder), so a link is taken exactly if its ends have room    *)
(* among the better ones that were (TakenKernel).                          *)
(***************************************************************************)
EXTENDS RelationshipService, FiniteSetTheorems, WellFoundedInduction, TLAPS

----------------------------------------------------------------------------
(* Numbers *)

\* Any numbers have a least one.
LEMMA Least ==
  ASSUME NEW T, T \subseteq Nat, T # {}
  PROVE  \E n \in T : \A m \in T : n <= m
<1>. DEFINE R == OpToRel(<, Nat)
<1>1. IsWellFoundedOn(R, Nat)
  BY NatLessThanWellFounded
<1>2. \A m, n \in Nat : m < n => <<m, n>> \in R
  BY DEF OpToRel
<1>. HIDE DEF R
<1>3. PICK n \in T : \A m \in T : <<m, n>> \notin R
  BY <1>1, WFMin
<1>4. ASSUME NEW m \in T PROVE n <= m
  <2>1. m \in Nat /\ n \in Nat /\ <<m, n>> \notin R
    BY <1>3
  <2>2. ~(m < n)
    BY <1>2, <2>1
  <2>. QED
    BY <2>1, <2>2
<1>. QED
  BY <1>4

\* A set of numbers that has zero, and with a number the next, has them all.
LEMMA Naturals ==
  ASSUME NEW S, 0 \in S, \A n \in Nat : n \in S => n + 1 \in S
  PROVE  Nat \subseteq S
<1>. SUFFICES ASSUME Nat \ S # {} PROVE FALSE
  OBVIOUS
<1>1. PICK n \in Nat \ S : \A m \in Nat \ S : n <= m
  BY Least
<1>2. n # 0 /\ n - 1 \in Nat /\ (n - 1) + 1 = n
  BY <1>1
<1>3. n - 1 \in S
  BY <1>1, <1>2
<1>. QED
  BY <1>1, <1>2, <1>3

\* Two numbers below b in places of weight b.
LEMMA Digits ==
  ASSUME NEW b \in Nat, NEW x \in Int, NEW y \in Int, NEW u \in 0..(b - 1), NEW v \in 0..(b - 1),
         x * b + u = y * b + v
  PROVE  x = y /\ u = v
<1>1. ASSUME NEW m \in Int, NEW n \in Int, NEW i \in 0..(b - 1), NEW j \in 0..(b - 1), m < n
      PROVE  m * b + i < n * b + j
  <2>1. n - m - 1 \in Nat
    BY <1>1
  <2>2. (n - m - 1) * b >= 0 /\ (n - m - 1) * b \in Int
    BY <2>1
  <2>3. (n - m - 1) * b = n * b - m * b - b
    OBVIOUS
  <2>4. m * b \in Int /\ n * b \in Int
    OBVIOUS
  <2>. QED
    BY <2>2, <2>3, <2>4
<1>2. ~(x < y) /\ ~(y < x)
  BY <1>1
<1>3. x = y /\ x * b \in Int
  BY <1>2
<1>. QED
  BY <1>3

----------------------------------------------------------------------------
(* The caps *)

\* Places.
Ranked(S, rank) ==
  /\ IsFiniteSet(S)
  /\ \A x \in S : rank[x] \in Int
  /\ \A x, y \in S : rank[x] = rank[y] => x = y

LEMMA Places ==
  ASSUME NEW S, NEW rank, Ranked(S, rank)
  PROVE  /\ Cardinality(S) \in Nat
         /\ \A x \in S : Place(S, rank, x) \in Nat /\ Place(S, rank, x) < Cardinality(S)
         /\ \A x, y \in S : rank[x] < rank[y] <=> Place(S, rank, x) < Place(S, rank, y)
         /\ \A x, y \in S : Place(S, rank, x) = Place(S, rank, y) => x = y
<1>0. IsFiniteSet(S) /\ Cardinality(S) \in Nat
  BY FS_CardinalityType DEF Ranked
<1>1. ASSUME NEW T \in SUBSET S, NEW U \in SUBSET T
      PROVE  /\ Cardinality(T) \in Nat /\ Cardinality(U) \in Nat
             /\ Cardinality(U) <= Cardinality(T)
             /\ U # T => Cardinality(U) < Cardinality(T)
  <2>1. IsFiniteSet(T)
    BY <1>0, FS_Subset
  <2>2. IsFiniteSet(U) /\ Cardinality(U) <= Cardinality(T) /\ (Cardinality(T) = Cardinality(U) => T = U)
    BY <2>1, FS_Subset
  <2>3. Cardinality(T) \in Nat /\ Cardinality(U) \in Nat
    BY <2>1, <2>2, FS_CardinalityType
  <2>. QED
    BY <2>2, <2>3
<1>2. ASSUME NEW x \in S
      PROVE  /\ Place(S, rank, x) \in Nat /\ Place(S, rank, x) < Cardinality(S)
  <2>. DEFINE A == {y \in S : rank[y] < rank[x]}
  <2>1. A \in SUBSET S /\ A # S
    BY DEF Ranked
  <2>2. Place(S, rank, x) = Cardinality(A)
    BY DEF Place
  <2>. HIDE DEF A
  <2>. QED
    BY <1>1, <2>1, <2>2
<1>3. ASSUME NEW x \in S, NEW y \in S, rank[x] < rank[y]
      PROVE  Place(S, rank, x) < Place(S, rank, y)
  <2>. DEFINE A == {z \in S : rank[z] < rank[x]}
              B == {z \in S : rank[z] < rank[y]}
  <2>1. A \in SUBSET B /\ A # B /\ B \in SUBSET S
    BY <1>3 DEF Ranked
  <2>2. Place(S, rank, x) = Cardinality(A) /\ Place(S, rank, y) = Cardinality(B)
    BY DEF Place
  <2>. HIDE DEF A, B
  <2>. QED
    BY <1>1, <2>1, <2>2
<1>4. \A x, y \in S : rank[x] \in Int /\ rank[y] \in Int /\ (rank[x] = rank[y] => x = y)
  BY DEF Ranked
<1>. QED
  BY <1>0, <1>2, <1>3, <1>4

\* The first of a set are as many as wanted, unless they are all.
LEMMA FirstCount ==
  ASSUME NEW S, NEW rank, Ranked(S, rank), NEW n \in Nat
  PROVE  /\ IsFiniteSet(FirstOf(S, rank, n))
         /\ FirstOf(S, rank, n) = S \/ Cardinality(FirstOf(S, rank, n)) >= n
<1>. DEFINE F == FirstOf(S, rank, n)
<1>1. F \in SUBSET S /\ \A x \in S : x \in F <=> Place(S, rank, x) < n
  BY DEF FirstOf
<1>. HIDE DEF F
<1>2. IsFiniteSet(F) /\ Cardinality(F) \in Nat
  BY <1>1, FS_Subset, FS_CardinalityType DEF Ranked
<1>3. ASSUME F # S PROVE Cardinality(F) >= n
  <2>. DEFINE P == {Place(S, rank, x) : x \in S \ F}
  <2>1. P \subseteq Nat /\ P # {}
    BY <1>1, <1>3, Places
  <2>2. PICK m \in P : \A l \in P : m <= l
    BY <2>1, Least
  <2>3. PICK x \in S \ F : m = Place(S, rank, x)
    BY <2>2
  <2>. DEFINE B == {y \in S : rank[y] < rank[x]}
  <2>4. B \in SUBSET F
    <3>. SUFFICES ASSUME NEW y \in S, rank[y] < rank[x], y \notin F PROVE FALSE
      BY DEF Ranked
    <3>1. Place(S, rank, y) < Place(S, rank, x)
      BY Places
    <3>2. Place(S, rank, y) \in P
      OBVIOUS
    <3>3. Place(S, rank, y) \in Nat /\ m \in Nat
      BY <2>1, <3>2
    <3>. HIDE DEF P
    <3>. QED
      BY <2>2, <2>3, <3>1, <3>2, <3>3
  <2>5. Cardinality(B) <= Cardinality(F)
    <3>. HIDE DEF B
    <3>. QED
      BY <1>2, <2>4, FS_Subset
  <2>6. Cardinality(B) = Place(S, rank, x)
    BY DEF Place
  <2>7. Place(S, rank, x) \in Nat /\ ~(Place(S, rank, x) < n)
    BY <1>1, Places
  <2>. HIDE DEF B
  <2>. QED
    BY <1>2, <2>5, <2>6, <2>7
<1>. QED
  BY <1>2, <1>3 DEF F

\* What the loop does in each round.
Better(S, rank, T, n, max) == {k \in S : Place(S, rank, k) = n /\ Room(T, k, max)}

LEMMA TakenRounds ==
  ASSUME NEW S, IsFiniteSet(S), NEW rank, NEW max
  PROVE  LET T == Taken(S, rank, max)
         IN  /\ T[0] = {}
             /\ \A n \in Nat : n < Cardinality(S) => T[n + 1] = T[n] \cup Better(S, rank, T[n], n, max)
<1>. DEFINE N == Cardinality(S)
            Step(f, n) == f[n - 1] \cup Better(S, rank, f[n - 1], n - 1, max)
            F(f, m) == [n \in 0..m |-> IF n = 0 THEN {} ELSE Step(f, n)]
            A == {m \in Nat : \E f : f = F(f, m)}
<1>0. N \in Nat
  BY FS_CardinalityType
<1>1. 0 \in A
  <2>. DEFINE f == [n \in {0} |-> {}]
  <2>1. f = F(f, 0)
    OBVIOUS
  <2>. QED
    BY <2>1
<1>2. ASSUME NEW m \in Nat, m \in A PROVE m + 1 \in A
  <2>1. PICK f : f = F(f, m)
    BY <1>2
  <2>. DEFINE g == [n \in 0..(m + 1) |-> IF n = 0 THEN {} ELSE Step(f, n)]
  <2>. HIDE DEF Step
  <2>2. \A n \in 0..m : g[n] = f[n]
    BY <2>1
  <2>3. \A n \in 1..(m + 1) : g[n - 1] = f[n - 1]
    BY <2>2
  <2>4. \A n \in 1..(m + 1) : Step(g, n) = Step(f, n)
    BY <2>3 DEF Step
  <2>5. g = F(g, m + 1)
    BY <2>4
  <2>6. m + 1 \in Nat
    OBVIOUS
  <2>. HIDE DEF g, F
  <2>. QED
    BY <2>5, <2>6
<1>3. N \in A
  <2>. HIDE DEF A
  <2>. QED
    BY <1>0, <1>1, <1>2, Naturals
<1>4. \E f : f = F(f, N)
  BY <1>3
<1>5. Taken(S, rank, max) = CHOOSE f : f = F(f, N)
  BY DEF Taken, Better
<1>6. Taken(S, rank, max) = F(Taken(S, rank, max), N)
  BY <1>4, <1>5
<1>. DEFINE T == Taken(S, rank, max)
<1>. HIDE DEF T
<1>7. T[0] = {}
  BY <1>0, <1>6 DEF T
<1>8. ASSUME NEW n \in Nat, n < N PROVE T[n + 1] = T[n] \cup Better(S, rank, T[n], n, max)
  <2>1. n + 1 \in 0..N /\ n + 1 # 0 /\ (n + 1) - 1 = n
    BY <1>0, <1>8
  <2>2. T[n + 1] = Step(T, n + 1)
    <3>. HIDE DEF Step
    <3>. QED BY <1>6, <2>1 DEF T
  <2>. QED
    BY <2>1, <2>2
<1>. QED
  BY <1>7, <1>8 DEF T

\* What was taken in the first rounds is what has a place there.
LEMMA TakenInOrder ==
  ASSUME NEW S, NEW rank, NEW max, Ranked(S, rank), NEW n \in Nat, n <= Cardinality(S)
  PROVE  LET T == Taken(S, rank, max)
         IN  /\ T[n] \subseteq S
             /\ \A m \in 0..n : T[m] = {k \in T[n] : Place(S, rank, k) < m}
<1>. DEFINE T == Taken(S, rank, max)
            N == Cardinality(S)
            Good(i) == /\ T[i] \subseteq S
                       /\ \A m \in 0..i : T[m] = {k \in T[i] : Place(S, rank, k) < m}
            A == {i \in Nat : i <= N => Good(i)}
<1>0. N \in Nat /\ \A x \in S : Place(S, rank, x) \in Nat
  BY Places
<1>1. /\ T[0] = {}
      /\ \A i \in Nat : i < N => T[i + 1] = T[i] \cup Better(S, rank, T[i], i, max)
  BY TakenRounds DEF Ranked
<1>. HIDE DEF T, N
<1>2. 0 \in A
  BY <1>1
<1>3. ASSUME NEW i \in Nat, i \in A PROVE i + 1 \in A
  <2>. SUFFICES ASSUME i + 1 <= N PROVE Good(i + 1)
    OBVIOUS
  <2>1. Good(i) /\ T[i + 1] = T[i] \cup Better(S, rank, T[i], i, max)
    BY <1>0, <1>1, <1>3
  <2>2. \A k \in Better(S, rank, T[i], i, max) : k \in S /\ Place(S, rank, k) = i
    BY DEF Better
  <2>3. \A k \in T[i] : Place(S, rank, k) < i
    <3>1. T[i] = {k \in T[i] : Place(S, rank, k) < i}
      BY <2>1
    <3>. QED
      BY <3>1
  <2>4. T[i + 1] \subseteq S
    BY <2>1, <2>2
  <2>5. ASSUME NEW m \in 0..(i + 1)
        PROVE  T[m] = {k \in T[i + 1] : Place(S, rank, k) < m}
    <3>1. CASE m = i + 1
      <4>1. \A k \in T[i + 1] : Place(S, rank, k) < m
        BY <2>1, <2>2, <2>3, <3>1, <1>0
      <4>. QED
        BY <3>1, <4>1
    <3>2. CASE m \in 0..i
      <4>1. T[m] = {k \in T[i] : Place(S, rank, k) < m}
        BY <2>1, <3>2
      <4>2. \A k \in Better(S, rank, T[i], i, max) : ~(Place(S, rank, k) < m)
        BY <2>2, <3>2
      <4>. QED
        BY <2>1, <4>1, <4>2
    <3>. QED
      BY <3>1, <3>2
  <2>. QED
    BY <2>4, <2>5
<1>4. n \in A
  <2>. HIDE DEF A
  <2>. QED
    BY <1>2, <1>3, Naturals
<1>. QED
  BY <1>4 DEF T, N

\* A link is taken exactly if its ends have room among the better ones that
\* were.
LEMMA TakenKernel ==
  ASSUME NEW S, NEW rank, NEW max, Ranked(S, rank)
  PROVE  LET C == Capped(S, rank, max)
         IN  /\ C \subseteq S
             /\ \A k \in S : k \in C <=> Room({l \in C : rank[l] < rank[k]}, k, max)
<1>. DEFINE T == Taken(S, rank, max)
            N == Cardinality(S)
            C == Capped(S, rank, max)
<1>0. N \in Nat /\ N <= N /\ C = T[N]
  BY Places DEF Capped
<1>1. /\ T[N] \subseteq S
      /\ \A m \in 0..N : T[m] = {k \in T[N] : Place(S, rank, k) < m}
  BY <1>0, TakenInOrder
<1>2. \A i \in Nat : i < N => T[i + 1] = T[i] \cup Better(S, rank, T[i], i, max)
  BY TakenRounds DEF Ranked
<1>. HIDE DEF T, C
<1>3. ASSUME NEW k \in S
      PROVE  k \in C <=> Room({l \in C : rank[l] < rank[k]}, k, max)
  <2>. DEFINE p == Place(S, rank, k)
  <2>1. p \in Nat /\ p < N
    BY Places
  <2>. HIDE DEF N
  <2>2. p \in 0..N /\ p + 1 \in 0..N
    BY <1>0, <2>1
  <2>3. T[p] = {l \in C : Place(S, rank, l) < p} /\ T[p + 1] = {l \in C : Place(S, rank, l) < p + 1}
    BY <1>0, <1>1, <2>2
  <2>4. T[p] = {l \in C : rank[l] < rank[k]}
    BY <1>0, <1>1, <2>3, Places
  <2>5. T[p + 1] = T[p] \cup Better(S, rank, T[p], p, max)
    BY <1>2, <2>1
  <2>6. k \in Better(S, rank, T[p], p, max) <=> Room(T[p], k, max)
    BY DEF Better
  <2>7. k \in C <=> k \in T[p + 1]
    BY <2>1, <2>3
  <2>8. k \notin T[p]
    BY <2>1, <2>3
  <2>. QED
    BY <2>4, <2>5, <2>6, <2>7, <2>8
<1>. QED
  BY <1>0, <1>1, <1>3 DEF C


\* No entity has more than max of the links that were taken.
LEMMA TakenBounded ==
  ASSUME NEW S, NEW rank, NEW max \in Nat, Ranked(S, rank), NEW r
  PROVE  Degree(Capped(S, rank, max), r) <= max
<1>. DEFINE T == Taken(S, rank, max)
            N == Cardinality(S)
            D(i) == {k \in T[i] : r \in Ends(k)}
            A == {i \in Nat : i <= N => IsFiniteSet(D(i)) /\ Cardinality(D(i)) <= max}
<1>0. N \in Nat
  BY Places
<1>1. /\ T[0] = {}
      /\ \A i \in Nat : i < N => T[i + 1] = T[i] \cup Better(S, rank, T[i], i, max)
  BY TakenRounds DEF Ranked
<1>. HIDE DEF T, N
<1>2. 0 \in A
  <2>1. D(0) = {}
    BY <1>1
  <2>. HIDE DEF D
  <2>. QED
    BY <2>1, FS_EmptySet
<1>3. ASSUME NEW i \in Nat, i \in A PROVE i + 1 \in A
  <2>. SUFFICES ASSUME i + 1 <= N
                PROVE  IsFiniteSet(D(i + 1)) /\ Cardinality(D(i + 1)) <= max
    OBVIOUS
  <2>1. /\ IsFiniteSet(D(i)) /\ Cardinality(D(i)) <= max
        /\ T[i + 1] = T[i] \cup Better(S, rank, T[i], i, max)
    BY <1>0, <1>1, <1>3
  <2>2. Cardinality(D(i)) \in Nat
    BY <2>1, FS_CardinalityType
  <2>3. \A k, l \in Better(S, rank, T[i], i, max) : k = l
    BY Places DEF Better
  <2>4. CASE \E k \in Better(S, rank, T[i], i, max) : r \in Ends(k)
    <3>1. PICK k \in Better(S, rank, T[i], i, max) : r \in Ends(k)
      BY <2>4
    <3>. DEFINE F == D(i)
                G == D(i + 1)
    <3>2. G = F \cup {k}
      BY <2>1, <2>3, <3>1
    <3>3. Cardinality(F) < max
      BY <3>1 DEF Better, Room, Degree
    <3>4. IsFiniteSet(F) /\ Cardinality(F) \in Nat
      BY <2>1, <2>2
    <3>. HIDE DEF F, G
    <3>5. /\ IsFiniteSet(F \cup {k})
          /\ Cardinality(F \cup {k}) = IF k \in F THEN Cardinality(F) ELSE Cardinality(F) + 1
      BY <3>4, FS_AddElement
    <3>6. IsFiniteSet(G) /\ Cardinality(G) <= max
      BY <3>2, <3>3, <3>4, <3>5
    <3>. QED
      BY <3>6 DEF G
  <2>5. CASE \A k \in Better(S, rank, T[i], i, max) : r \notin Ends(k)
    <3>1. D(i + 1) = D(i)
      BY <2>1, <2>5
    <3>. QED
      BY <2>1, <3>1
  <2>. QED
    BY <2>4, <2>5
<1>4. N \in A
  <2>. HIDE DEF A
  <2>. QED
    BY <1>0, <1>2, <1>3, Naturals
<1>. QED
  BY <1>0, <1>4 DEF Degree, Capped, T, N

----------------------------------------------------------------------------
(* The orders of entities and links *)

LEMMA RefRanks ==
  /\ \A r \in Refs : Rank(r) \in 1..(2 * MaxId)
  /\ \A r, s \in Refs : Rank(r) = Rank(s) => r = s
<1>1. ASSUME NEW r \in Refs
      PROVE  /\ r = [kind |-> r.kind, id |-> r.id] /\ r.kind \in {"candidate", "memory"}
             /\ r.id \in 1..MaxId
  BY DEF Refs, Ids
<1>2. ASSUME NEW r \in Refs
      PROVE  /\ r.kind = "memory" => Rank(r) = r.id + MaxId
             /\ r.kind = "candidate" => Rank(r) = r.id
  BY <1>1, InferenceAssumption DEF Rank
<1>3. ASSUME NEW r \in Refs, NEW s \in Refs, Rank(r) = Rank(s)
      PROVE  r.kind = s.kind /\ r.id = s.id
  BY <1>1, <1>2, <1>3, InferenceAssumption
<1>4. ASSUME NEW r \in Refs, NEW s \in Refs, Rank(r) = Rank(s)
      PROVE  r = s
  BY <1>1, <1>3, <1>4
<1>5. ASSUME NEW r \in Refs PROVE Rank(r) \in 1..(2 * MaxId)
  BY <1>1, <1>2, InferenceAssumption
<1>. QED
  BY <1>4, <1>5

LEMMA KeyRanks ==
  /\ \A k \in Keys : KeyRank[k] \in 0..(8 * (MaxId + 1) * (2 * MaxId + 1) - 1)
  /\ \A k, l \in Keys : KeyRank[k] = KeyRank[l] => k = l
<1>. DEFINE b == 2 * MaxId + 1
            High(k) == Rank(k.source) * 4 + TypeRank(k.type)
<1>0. b \in Nat /\ MaxId \in Nat /\ b = 2 * MaxId + 1
  BY InferenceAssumption
<1>1. ASSUME NEW k \in Keys
      PROVE  /\ k = [source |-> k.source, type |-> k.type, target |-> k.target]
             /\ k.source \in Refs /\ k.target \in Refs /\ k.type \in Types
             /\ Rank(k.source) \in 1..(2 * MaxId) /\ Rank(k.target) \in 1..(2 * MaxId)
  BY RefRanks DEF Keys
<1>2. /\ \A t \in Types : TypeRank(t) \in 0..3
      /\ \A t, u \in Types : TypeRank(t) = TypeRank(u) => t = u
  <2>1. /\ TypeRank("conflicts_with") = 0 /\ TypeRank("duplicate_of") = 1
        /\ TypeRank("related_to") = 2 /\ TypeRank("supersedes") = 3
    BY DEF TypeRank
  <2>. QED
    BY <2>1 DEF Types
<1>3. \A k \in Keys : KeyRank[k] = High(k) * b + Rank(k.target)
  BY DEF KeyRank
<1>4. ASSUME NEW k \in Keys
      PROVE  High(k) \in Nat /\ High(k) <= 8 * MaxId + 3 /\ Rank(k.target) \in 0..(b - 1)
  BY <1>0, <1>1, <1>2
<1>. HIDE DEF b
<1>5. ASSUME NEW k \in Keys
      PROVE  KeyRank[k] \in 0..(8 * (MaxId + 1) * b - 1)
  <2>. DEFINE h == High(k)
  <2>1. h \in Nat /\ h <= 8 * MaxId + 3
    BY <1>4
  <2>2. KeyRank[k] = h * b + Rank(k.target) /\ Rank(k.target) \in 0..(b - 1)
    BY <1>3, <1>4
  <2>. HIDE DEF h
  <2>3. 8 * MaxId + 3 - h \in Nat
    BY <1>0, <2>1
  <2>4. (8 * MaxId + 3 - h) * b \in Nat
    BY <1>0, <2>3
  <2>5. h * b \in Nat
    BY <1>0, <2>1
  <2>6. h * b + (8 * MaxId + 3 - h) * b = (8 * MaxId + 3) * b
    BY <1>0, <2>1
  <2>7. 8 * (MaxId + 1) * b = (8 * MaxId + 3) * b + 5 * b
    BY <1>0
  <2>. QED
    BY <1>0, <2>2, <2>4, <2>5, <2>6, <2>7
<1>6. ASSUME NEW k \in Keys, NEW l \in Keys, KeyRank[k] = KeyRank[l]
      PROVE  k = l
  <2>1. High(k) * b + Rank(k.target) = High(l) * b + Rank(l.target)
    BY <1>3, <1>6
  <2>2. High(k) = High(l) /\ Rank(k.target) = Rank(l.target)
    <3>. DEFINE x == High(k)
                y == High(l)
    <3>1. x \in Int /\ y \in Int
      BY <1>4
    <3>. HIDE DEF x, y
    <3>. QED
      BY <1>0, <1>4, <2>1, <3>1, Digits DEF x, y
  <2>3. Rank(k.source) = Rank(l.source) /\ TypeRank(k.type) = TypeRank(l.type)
    BY <1>1, <1>2, <2>2
  <2>. QED
    BY <1>1, <1>2, <2>2, <2>3, RefRanks
<1>. QED
  BY <1>5, <1>6 DEF b

LEMMA KeysFinite == IsFiniteSet(Keys)
<1>. DEFINE n == 8 * (MaxId + 1) * (2 * MaxId + 1) - 1
<1>1. n \in Int
  BY InferenceAssumption
<1>2. \A k \in Keys : KeyRank[k] \in 0..n
  BY KeyRanks
<1>. HIDE DEF n
<1>3. KeyRank \in [Keys -> 0..n]
  BY <1>2 DEF KeyRank
<1>4. KeyRank \in Injection(Keys, 0..n)
  BY <1>3, KeyRanks DEF Injection, IsInjective
<1>5. IsFiniteSet(0..n)
  BY <1>1, FS_Interval
<1>. QED
  BY <1>4, <1>5, FS_Injection

LEMMA Confidence ==
  ASSUME NEW i \in Ids, NEW j \in Ids
  PROVE  Score(i, j).confidence \in Int
<1>1. ASSUME NEW A, NEW B, IsFiniteSet(A), IsFiniteSet(B)
      PROVE  Cardinality(A \cap B) \in Nat /\ Cardinality(A \cup B) \in Nat
  BY <1>1, FS_Intersection, FS_Union, FS_CardinalityType
<1>2. /\ Cardinality(Tags[i] \cap Tags[j]) \in Nat
      /\ Cardinality(Tokens[i] \cap Tokens[j]) \in Nat
      /\ Cardinality(Tokens[i] \cup Tokens[j]) \in Nat
  BY <1>1, InferenceAssumption
<1>. DEFINE shared == Cardinality(Tags[i] \cap Tags[j])
            tag == IF shared > 2 THEN 12 ELSE 6 * shared
            session == IF Session[i] # NoSession /\ Session[i] = Session[j] THEN 7 ELSE 0
            common == Cardinality(Tokens[i] \cap Tokens[j])
            union == Cardinality(Tokens[i] \cup Tokens[j])
            text == 100 * common >= 15 * union /\ common > 0
            compatible == IF Class[i] = Class[j] THEN 3 ELSE 0
            all == 8000 * (IF union = 0 THEN 1 ELSE union)
            rest == IF union = 0 THEN 1 ELSE IF text THEN union - common ELSE union
            miss == (20 - tag) * (20 - session) * (20 - compatible) * rest
<1>3. shared \in Nat /\ common \in Nat /\ union \in Nat
  BY <1>2
<1>4. Score(i, j).confidence = (200 * (all - miss) + all) \div (2 * all)
  BY DEF Score
<1>. HIDE DEF shared, common, union
<1>5. tag \in Int /\ session \in Int /\ compatible \in Int /\ rest \in Int
  BY <1>3
<1>6. all \in Int /\ all > 0
  BY <1>3
<1>. HIDE DEF tag, session, compatible, rest, all
<1>7. miss \in Int
  BY <1>5
<1>. HIDE DEF miss
<1>8. 200 * (all - miss) + all \in Int /\ 2 * all \in Int /\ 2 * all > 0
  BY <1>6, <1>7
<1>. QED
  BY <1>4, <1>8


LEMMA RelatedRanks ==
  /\ \A k \in Keys : RelatedRank[k] \in Int
  /\ \A k, l \in Keys : RelatedRank[k] = RelatedRank[l] => k = l
<1>. DEFINE b == 8 * (MaxId + 1) * (2 * MaxId + 1)
            d(k) == 100 - Score(k.source.id, k.target.id).confidence
<1>0. b \in Nat
  BY InferenceAssumption
<1>1. ASSUME NEW k \in Keys
      PROVE  d(k) \in Int /\ KeyRank[k] \in 0..(b - 1)
  <2>1. k.source.id \in Ids /\ k.target.id \in Ids
    BY DEF Keys, Refs
  <2>2. Score(k.source.id, k.target.id).confidence \in Int
    BY <2>1, Confidence
  <2>. QED
    BY <2>2, KeyRanks
<1>2. ASSUME NEW k \in Keys
      PROVE  RelatedRank[k] = d(k) * b + KeyRank[k]
  <2>. DEFINE x == d(k)
  <2>1. RelatedRank[k] = KeyRank[k] + x * 8 * (MaxId + 1) * (2 * MaxId + 1)
    BY DEF RelatedRank
  <2>2. x \in Int /\ KeyRank[k] \in Int
    BY <1>0, <1>1
  <2>. HIDE DEF x
  <2>3. x * 8 * (MaxId + 1) * (2 * MaxId + 1) = x * (8 * (MaxId + 1) * (2 * MaxId + 1))
    BY <2>2, InferenceAssumption
  <2>4. x * b \in Int
    BY <1>0, <2>2
  <2>5. RelatedRank[k] = x * b + KeyRank[k]
    BY <2>1, <2>2, <2>3, <2>4
  <2>. QED
    BY <2>5 DEF x
<1>. HIDE DEF b
<1>3. ASSUME NEW k \in Keys, NEW l \in Keys, RelatedRank[k] = RelatedRank[l]
      PROVE  k = l
  <2>. DEFINE x == d(k)
              y == d(l)
  <2>1. x * b + KeyRank[k] = y * b + KeyRank[l]
    BY <1>2, <1>3
  <2>2. /\ x \in Int /\ y \in Int
        /\ KeyRank[k] \in 0..(b - 1) /\ KeyRank[l] \in 0..(b - 1)
    BY <1>1
  <2>. HIDE DEF x, y
  <2>3. KeyRank[k] = KeyRank[l]
    BY <1>0, <2>1, <2>2, Digits
  <2>. QED
    BY <2>3, KeyRanks
<1>4. ASSUME NEW k \in Keys PROVE RelatedRank[k] \in Int
  <2>. DEFINE x == d(k)
  <2>1. x \in Int /\ KeyRank[k] \in Int /\ RelatedRank[k] = x * b + KeyRank[k]
    BY <1>0, <1>1, <1>2
  <2>. HIDE DEF x
  <2>2. x * b \in Int
    BY <1>0, <2>1
  <2>. QED
    BY <2>1, <2>2
<1>. QED
  BY <1>3, <1>4

LEMMA PreferenceRanks ==
  ASSUME NEW w
  PROVE  /\ \A r \in Refs : Preference(w)[r] \in Int
         /\ \A r, s \in Refs : Preference(w)[r] = Preference(w)[s] => r = s
<1>. DEFINE b == 2 * MaxId
            c(r) == CASE r.kind = "candidate" -> 2
                      [] r.kind = "memory" /\ r.id \in Active(w) -> 0
                      [] OTHER -> 1
<1>0. b \in Nat
  BY InferenceAssumption
<1>1. ASSUME NEW r \in Refs
      PROVE  c(r) \in Int /\ Rank(r) - 1 \in 0..(b - 1) /\ Rank(r) \in Int
  <2>1. c(r) \in Int
    <3>1. CASE r.kind = "candidate"
      BY <3>1
    <3>2. CASE r.kind = "memory" /\ r.id \in Active(w)
      BY <3>2
    <3>3. CASE r.kind = "memory" /\ r.id \notin Active(w)
      BY <3>3
    <3>. QED
      BY <3>1, <3>2, <3>3 DEF Refs
  <2>2. Rank(r) \in 1..(2 * MaxId)
    BY RefRanks
  <2>. QED
    BY <1>0, <2>1, <2>2
<1>2. \A r \in Refs : Preference(w)[r] = Rank(r) + b * c(r)
  BY DEF Preference
<1>. HIDE DEF b
<1>3. ASSUME NEW r \in Refs, NEW s \in Refs, Preference(w)[r] = Preference(w)[s]
      PROVE  r = s
  <2>. DEFINE x == c(r)
              y == c(s)
              u == Rank(r) - 1
              v == Rank(s) - 1
  <2>1. Rank(r) + b * x = Rank(s) + b * y
    BY <1>2, <1>3
  <2>2. /\ x \in Int /\ y \in Int /\ u \in 0..(b - 1) /\ v \in 0..(b - 1)
        /\ Rank(r) = u + 1 /\ Rank(s) = v + 1
    BY <1>1
  <2>. HIDE DEF x, y, u, v
  <2>3. x * b + u = y * b + v
    <3>1. b * x = x * b /\ b * y = y * b /\ x * b \in Int /\ y * b \in Int
      BY <1>0, <2>2
    <3>. QED
      BY <1>0, <2>1, <2>2, <3>1
  <2>4. u = v
    BY <1>0, <2>2, <2>3, Digits
  <2>. QED
    BY <2>2, <2>4, RefRanks
<1>4. ASSUME NEW r \in Refs PROVE Preference(w)[r] \in Int
  <2>. DEFINE x == c(r)
  <2>1. x \in Int /\ Rank(r) \in Int /\ Preference(w)[r] = Rank(r) + b * x
    BY <1>1, <1>2
  <2>. HIDE DEF x
  <2>2. b * x \in Int
    BY <1>0, <2>1
  <2>. QED
    BY <2>1, <2>2
<1>. QED
  BY <1>3, <1>4

LEMMA RefsFinite == IsFiniteSet(Refs)
<1>. DEFINE f == [r \in Refs |-> Rank(r)]
<1>1. 2 * MaxId \in Int
  BY InferenceAssumption
<1>2. f \in Injection(Refs, 1..(2 * MaxId))
  BY RefRanks DEF Injection, IsInjective
<1>3. IsFiniteSet(1..(2 * MaxId))
  BY <1>1, FS_Interval
<1>. HIDE DEF f
<1>. QED
  BY <1>2, <1>3, FS_Injection

LEMMA LinksRanked ==
  ASSUME NEW S \in SUBSET Keys
  PROVE  Ranked(S, KeyRank) /\ Ranked(S, RelatedRank)
<1>1. IsFiniteSet(S)
  BY KeysFinite, FS_Subset
<1>2. \A k \in S : KeyRank[k] \in Int
  BY KeyRanks, InferenceAssumption
<1>. QED
  BY <1>1, <1>2, KeyRanks, RelatedRanks DEF Ranked

LEMMA EntitiesRanked ==
  ASSUME NEW S \in SUBSET Refs, NEW w
  PROVE  Ranked(S, RefRank) /\ Ranked(S, Preference(w))
<1>1. IsFiniteSet(S)
  BY RefsFinite, FS_Subset
<1>2. \A r \in S : RefRank[r] = Rank(r) /\ Rank(r) \in Int
  BY RefRanks, InferenceAssumption DEF RefRank
<1>. QED
  BY <1>1, <1>2, RefRanks, PreferenceRanks DEF Ranked

----------------------------------------------------------------------------
(* Entities and links *)

\* No candidate is recorded as a duplicate of itself.
NoSelf(w) == \A d \in w.dups : d[2] # Candidate(d[1])

LEMMA RefsAreRefs ==
  ASSUME NEW i \in Ids
  PROVE  /\ Candidate(i) \in Refs /\ Memory(i) \in Refs
         /\ Candidate(i).kind = "candidate" /\ Candidate(i).id = i
         /\ Memory(i).kind = "memory" /\ Memory(i).id = i
  BY DEF Candidate, Memory, Refs

LEMMA LinkFields ==
  ASSUME NEW r \in Refs, NEW t \in Types, NEW s \in Refs
  PROVE  /\ Link(r, t, s) \in Keys /\ Link(r, t, s).source = r
         /\ Link(r, t, s).type = t /\ Link(r, t, s).target = s
  BY DEF Link, Keys

LEMMA ConsideredRefs ==
  ASSUME NEW w \in World
  PROVE  Considered(w) \subseteq Entities(w) /\ Entities(w) \subseteq Refs
<1>1. w.queue \subseteq Ids /\ Stored(w) \subseteq Ids
  BY DEF World, Stored
<1>2. Entities(w) \subseteq Refs
  BY <1>1, RefsAreRefs DEF Entities
<1>3. Reserved(w) \subseteq Entities(w)
  BY DEF Reserved, FirstOf, Entities
<1>4. \A rank, n : FirstOf(Entities(w) \ Reserved(w), rank, n) \subseteq Entities(w)
  BY DEF FirstOf
<1>. QED
  BY <1>2, <1>3, <1>4 DEF Considered

LEMMA DerivedKeys ==
  ASSUME NEW w \in World, NEW k \in DerivedDrafts(w)
  PROVE  /\ k \in Keys
         /\ NoSelf(w) => k.source # k.target
<1>1. CASE \E i \in w.queue : \E j \in w.conflicts[i] :
             k = Link(Candidate(i), "conflicts_with", Memory(j))
  <2>0. PICK i \in w.queue : \E j \in w.conflicts[i] :
          k = Link(Candidate(i), "conflicts_with", Memory(j))
    BY <1>1
  <2>1. PICK j \in w.conflicts[i] : k = Link(Candidate(i), "conflicts_with", Memory(j))
    BY <2>0
  <2>2. i \in Ids /\ j \in Ids
    BY <2>1 DEF World
  <2>. QED
    BY <2>1, <2>2, RefsAreRefs, LinkFields DEF Types
<1>2. CASE \E d \in w.dups : k = Link(Candidate(d[1]), "duplicate_of", d[2])
  <2>1. PICK d \in w.dups : k = Link(Candidate(d[1]), "duplicate_of", d[2])
    BY <1>2
  <2>2. d[1] \in Ids /\ d[2] \in Refs
    BY <2>1 DEF World
  <2>. QED
    BY <2>1, <2>2, RefsAreRefs, LinkFields DEF Types, NoSelf
<1>. QED
  BY <1>1, <1>2 DEF DerivedDrafts

LEMMA MetadataKeys ==
  ASSUME NEW w \in World, NEW E, NEW k \in Metadata(w, E)
  PROVE  k \in Keys /\ k.type # "related_to" /\ k.source # k.target
<1>1. k \in MetadataDrafts(w, E) /\ k.source # k.target
  BY DEF Metadata
<1>2. CASE \E i \in w.queue : \E j \in w.conflicts[i] :
             k = Link(Candidate(i), "conflicts_with", Memory(j))
  <2>0. PICK i \in w.queue : \E j \in w.conflicts[i] :
          k = Link(Candidate(i), "conflicts_with", Memory(j))
    BY <1>2
  <2>1. PICK j \in w.conflicts[i] : k = Link(Candidate(i), "conflicts_with", Memory(j))
    BY <2>0
  <2>2. i \in Ids /\ j \in Ids
    BY <2>1 DEF World
  <2>. QED
    BY <1>1, <2>1, <2>2, RefsAreRefs, LinkFields DEF Types
<1>3. CASE \E s \in w.supers : \E r \in Resolve(E, s[2]) :
             k = Link(r, "supersedes", Memory(s[1]))
  <2>0. PICK s \in w.supers : \E r \in Resolve(E, s[2]) : k = Link(r, "supersedes", Memory(s[1]))
    BY <1>3
  <2>1. PICK r \in Resolve(E, s[2]) : k = Link(r, "supersedes", Memory(s[1]))
    BY <2>0
  <2>2. s[1] \in Ids /\ s[2] \in Refs /\ s[2].id \in Ids
    BY <2>1 DEF World, Refs
  <2>3. r \in Refs
    BY <2>1, <2>2, RefsAreRefs DEF Resolve
  <2>. QED
    BY <1>1, <2>1, <2>2, <2>3, RefsAreRefs, LinkFields DEF Types
<1>. QED
  BY <1>1, <1>2, <1>3, Zenon DEF MetadataDrafts

\* Metadata links what is considered.
LEMMA MetadataEnds ==
  ASSUME NEW w \in World, NEW E, NEW k \in Metadata(w, E)
  PROVE  Ends(k) \subseteq E
<1>1. k \in MetadataDrafts(w, E)
  BY DEF Metadata
<1>2. CASE \E i \in {x \in w.queue : Candidate(x) \in E} :
           \E j \in {x \in w.conflicts[i] : Memory(x) \in E} :
             k = Link(Candidate(i), "conflicts_with", Memory(j))
  <2>1. PICK i \in {x \in w.queue : Candidate(x) \in E} :
          \E j \in {x \in w.conflicts[i] : Memory(x) \in E} :
             k = Link(Candidate(i), "conflicts_with", Memory(j))
    BY <1>2
  <2>2. PICK j \in {x \in w.conflicts[i] : Memory(x) \in E} :
          k = Link(Candidate(i), "conflicts_with", Memory(j))
    BY <2>1
  <2>3. Ends(k) = {Candidate(i), Memory(j)}
    BY <2>2 DEF Ends, Link
  <2>. QED
    BY <2>3
<1>3. CASE \E s \in {x \in w.supers : Memory(x[1]) \in E} : \E r \in Resolve(E, s[2]) :
             k = Link(r, "supersedes", Memory(s[1]))
  <2>1. PICK s \in {x \in w.supers : Memory(x[1]) \in E} : \E r \in Resolve(E, s[2]) :
          k = Link(r, "supersedes", Memory(s[1]))
    BY <1>3
  <2>2. PICK r \in Resolve(E, s[2]) : k = Link(r, "supersedes", Memory(s[1]))
    BY <2>1
  <2>3. Ends(k) = {r, Memory(s[1])}
    BY <2>2 DEF Ends, Link
  <2>4. r \in E
    BY DEF Resolve
  <2>. QED
    BY <2>3, <2>4
<1>. QED
  BY <1>1, <1>2, <1>3, Zenon DEF MetadataDrafts

LEMMA RelatedKeys ==
  ASSUME NEW E \in SUBSET Refs, NEW linked, NEW k \in Related(E, linked)
  PROVE  /\ k \in Keys /\ k.type = "related_to" /\ Ends(k) \notin linked
         /\ Ends(k) \subseteq E /\ k.source # k.target
<1>1. PICK r \in E, s \in E : k = Link(r, "related_to", s)
  BY DEF Related
<1>2. k \in Keys /\ k.type = "related_to" /\ k.source = r /\ k.target = s
  BY <1>1, LinkFields DEF Types
<1>3. Rank(k.source) < Rank(k.target) /\ Ends(k) \notin linked
  BY DEF Related
<1>4. Rank(r) \in Int
  BY RefRanks, InferenceAssumption
<1>. QED
  BY <1>2, <1>3, <1>4 DEF Ends

\* What a cap leaves, for either order.
LEMMA CappedLinks ==
  ASSUME NEW S \in SUBSET Keys, NEW max \in Nat, NEW rank \in {KeyRank, RelatedRank}
  PROVE  /\ Capped(S, rank, max) \subseteq S
         /\ CapKernel(S, rank, max, Capped(S, rank, max))
         /\ \A r : Degree(Capped(S, rank, max), r) <= max
<1>. DEFINE C == Capped(S, rank, max)
<1>1. Ranked(S, rank)
  BY LinksRanked
<1>2. /\ C \subseteq S
      /\ \A k \in S : k \in C <=> Room({l \in C : rank[l] < rank[k]}, k, max)
  BY <1>1, TakenKernel
<1>3. \A r : Degree(C, r) <= max
  BY <1>1, TakenBounded
<1>. HIDE DEF C
<1>4. \A k, r : {x \in {l \in C : rank[l] < rank[k]} : r \in Ends(x)}
                 = {x \in C : r \in Ends(x) /\ rank[x] < rank[k]}
  OBVIOUS
<1>5. \A k : Room({l \in C : rank[l] < rank[k]}, k, max)
             <=> \A r \in Ends(k) :
                   Cardinality({x \in C : r \in Ends(x) /\ rank[x] < rank[k]}) < max
  BY <1>4 DEF Room, Degree
<1>6. CapKernel(S, rank, max, C)
  BY <1>2, <1>5, Zenon DEF CapKernel
<1>. QED
  BY <1>2, <1>3, <1>6 DEF C

\* What is inferred of a world, in its two parts.
Linked(w) == {Ends(k) : k \in Metadata(w, Considered(w))}
Resembling(w) == Related(Considered(w), Linked(w))
MetadataLinks(w) == Capped(Metadata(w, Considered(w)), KeyRank, MaxMetadataLinks)
RelatedLinks(w) == Capped(Resembling(w), RelatedRank, MaxLinks)

LEMMA InferredParts ==
  ASSUME NEW w \in World
  PROVE  /\ Inferred(w) = MetadataLinks(w) \cup RelatedLinks(w)
         /\ Metadata(w, Considered(w)) \in SUBSET Keys
         /\ Resembling(w) \in SUBSET Keys
         /\ MetadataLinks(w) \subseteq Metadata(w, Considered(w))
         /\ RelatedLinks(w) \subseteq Resembling(w)
<1>1. Considered(w) \in SUBSET Refs
  BY ConsideredRefs
<1>2. Metadata(w, Considered(w)) \in SUBSET Keys
  BY MetadataKeys
<1>3. Resembling(w) \in SUBSET Keys
  BY <1>1, RelatedKeys DEF Resembling
<1>4. MetadataLinks(w) \subseteq Metadata(w, Considered(w)) /\ RelatedLinks(w) \subseteq Resembling(w)
  BY <1>2, <1>3, CappedLinks, InferenceAssumption DEF MetadataLinks, RelatedLinks
<1>5. Inferred(w) = MetadataLinks(w) \cup RelatedLinks(w)
  BY DEF Inferred, MetadataLinks, RelatedLinks, Resembling, Linked
<1>. QED
  BY <1>2, <1>3, <1>4, <1>5

\* The types of links tell the parts apart; no link leads from an entity to
\* itself, and no pair is both related and linked by metadata.
LEMMA InferredKeys ==
  ASSUME NEW w \in World
  PROVE  /\ Inferred(w) \subseteq Keys
         /\ \A k \in MetadataLinks(w) : k.type # "related_to"
         /\ \A k \in RelatedLinks(w) : k.type = "related_to"
         /\ \A k \in Inferred(w) : k.source # k.target /\ Ends(k) \subseteq Entities(w)
         /\ \A k, l \in Inferred(w) :
              k.type = "related_to" /\ l.type # "related_to" => Ends(k) # Ends(l)
<1>1. /\ Considered(w) \in SUBSET Refs /\ Considered(w) \subseteq Entities(w)
  BY ConsideredRefs
<1>2. \A k \in Metadata(w, Considered(w)) :
        /\ k \in Keys /\ k.type # "related_to" /\ Ends(k) \in Linked(w)
        /\ k.source # k.target /\ Ends(k) \subseteq Considered(w)
  BY MetadataKeys, MetadataEnds DEF Linked
<1>3. \A k \in Resembling(w) :
        /\ k \in Keys /\ k.type = "related_to" /\ Ends(k) \notin Linked(w)
        /\ k.source # k.target /\ Ends(k) \subseteq Considered(w)
  BY <1>1, RelatedKeys DEF Resembling
<1>4. \A k \in Inferred(w) :
        k \in Metadata(w, Considered(w)) \/ k \in Resembling(w)
  BY InferredParts
<1>. QED
  BY <1>1, <1>2, <1>3, <1>4, InferredParts

LEMMA WithMemoriesWorld ==
  ASSUME world \in World, NEW w \in World
  PROVE  WithMemories(w) \in World
<1>1. {s \in world.supers : s[2].kind = "memory"} \in SUBSET (Ids \X Refs)
  BY DEF World
<1>. QED
  BY <1>1 DEF WithMemories, World

LEMMA SnapshotWorld ==
  ASSUME world \in World, NEW op, op.world \in World
  PROVE  /\ Snapshot(op) \in World
         /\ NoSelf(world) /\ NoSelf(op.world) => NoSelf(Snapshot(op))
  BY DEF Snapshot, World, NoSelf

----------------------------------------------------------------------------
(* Owners *)

DerivedTypes == {"conflicts_with", "duplicate_of"}
InferredTypes == {"related_to", "supersedes"}

Split(E) ==
  \A r \in E :
    /\ r.origin = "derived" => r.key.type \in DerivedTypes
    /\ r.origin = "inferred" => r.key.type \in InferredTypes

IInv ==
  /\ Split(evidence)
  /\ \A c \in Callers : ops[c].at \in {"derive", "infer"} => Split(ops[c].evidence)
  /\ DOMAIN ops = Callers

\* What metadataDrafts and scorePair return of each type.
LEMMA MetadataTypes ==
  ASSUME NEW w, NEW E, NEW k \in Metadata(w, E)
  PROVE  \/ /\ k.type = "conflicts_with"
            /\ \E i \in w.queue : \E j \in w.conflicts[i] :
                 k = Link(Candidate(i), "conflicts_with", Memory(j))
         \/ k.type = "supersedes"
<1>1. k \in MetadataDrafts(w, E)
  BY DEF Metadata
<1>2. CASE \E i \in w.queue : \E j \in w.conflicts[i] :
             k = Link(Candidate(i), "conflicts_with", Memory(j))
  BY <1>2 DEF Link
<1>3. CASE \E r, s : k = Link(r, "supersedes", s)
  BY <1>3 DEF Link
<1>4. QED
  BY <1>1, <1>2, <1>3, Zenon DEF MetadataDrafts

LEMMA InferredSplit ==
  ASSUME world \in World, NEW w \in World, NEW k \in InferredDrafts(w)
  PROVE  k.type \in InferredTypes
<1> DEFINE v == WithMemories(w)
<1>1. k \in Inferred(v) /\ k \notin DerivedDrafts(w) /\ v \in World
  BY WithMemoriesWorld DEF InferredDrafts
<1>2. k \in Metadata(v, Considered(v)) \/ k \in RelatedLinks(v)
  BY <1>1, InferredParts
<1>3. CASE k \in RelatedLinks(v)
  BY <1>1, <1>3, InferredKeys DEF InferredTypes
<1>4. CASE k \in Metadata(v, Considered(v))
  <2>1. v.queue = w.queue /\ v.conflicts = w.conflicts
    BY DEF WithMemories
  <2>2. CASE k.type = "supersedes"
    BY <2>2 DEF InferredTypes
  <2>3. CASE \E i \in v.queue : \E j \in v.conflicts[i] :
               k = Link(Candidate(i), "conflicts_with", Memory(j))
    BY <1>1, <2>1, <2>3 DEF DerivedDrafts
  <2>4. QED
    BY <1>4, <2>2, <2>3, MetadataTypes
<1>5. QED
  BY <1>2, <1>3, <1>4

LEMMA DerivedSplit ==
  ASSUME NEW w, NEW k \in DerivedDrafts(w)
  PROVE  k.type \in DerivedTypes
BY DEF DerivedDrafts, DerivedTypes, Link

\* What replaceSystemRelationshipsUnlocked writes is of its own origin.
LEMMA ReplacementSplit ==
  ASSUME NEW origin, NEW drafts, NEW w, NEW E, Split(E),
         \/ origin = "derived" /\ \A k \in drafts : k.type \in DerivedTypes
         \/ origin = "inferred" /\ \A k \in drafts : k.type \in InferredTypes
  PROVE  /\ Split(Replacement(origin, drafts, w, E))
         /\ \A r \in Replacement(origin, drafts, w, E) : r.origin = origin
BY DEF Replacement, Record, Split, Of

LEMMA SaveManySplit ==
  ASSUME NEW E, NEW batch, Split(E), Split(batch)
  PROVE  Split(SaveMany(E, batch))
BY DEF Split, SaveMany

Snapshots == {"queue", "audit", "derive", "infer"}

\* The operations.
LEMMA OpFields ==
  ASSUME NEW op \in Ops
  PROVE  /\ op.at \in Snapshots => op.world \in World /\ op.inferring \in BOOLEAN
         /\ op.at \in {"derive", "infer"} => op.evidence \in SUBSET Records
         /\ op.at \in {"save", "report"} =>
              /\ op.key \in Keys /\ op.active \in BOOLEAN
              /\ op.overridden \in SUBSET (Origins \ {"manual"})
         /\ op.at # "idle" => op # Idle
         /\ op.at = "idle" => op = Idle
         /\ op.at \in {"idle", "save", "report"} \cup Snapshots
<1>. DEFINE A == [at : {"queue", "audit"}, inferring : BOOLEAN, world : World]
            B == [at : {"derive", "infer"}, inferring : BOOLEAN, world : World,
                  evidence : SUBSET Records]
            C == [at : {"save", "report"}, key : Keys, active : BOOLEAN,
                  overridden : SUBSET (Origins \ {"manual"})]
<1>1. op = Idle \/ op \in A \/ op \in B \/ op \in C
  BY DEF Ops
<1>2. CASE op = Idle
  BY <1>2 DEF Idle, Snapshots
<1>3. CASE op \in A
  BY <1>3 DEF Idle, Snapshots
<1>4. CASE op \in B
  BY <1>4 DEF Idle, Snapshots
<1>5. CASE op \in C
  BY <1>5 DEF Idle, Snapshots
<1>. QED
  BY <1>1, <1>2, <1>3, <1>4, <1>5

LEMMA InitInv == Init => IInv
BY DEF Init, IInv, Split, Idle

LEMMA Moved ==
  ASSUME NEW c \in Callers, NEW op, DOMAIN ops = Callers, Move(c, op)
  PROVE  /\ DOMAIN ops' = Callers
         /\ ops'[c] = op
         /\ \A d \in Callers : d # c => ops'[d] = ops[d]
BY DEF Move

LEMMA NextInv == TypeOK /\ IInv /\ [Next]_vars => IInv'
<1> SUFFICES ASSUME TypeOK, IInv, [Next]_vars PROVE IInv'
  OBVIOUS
<1> USE DEF IInv
<1>1. CASE WorldStep
  BY <1>1 DEF WorldStep
<1>2. CASE UNCHANGED vars
  BY <1>2 DEF vars
<1>3. ASSUME NEW c \in Callers, NEW inferring \in BOOLEAN, BeginSync(c, inferring) PROVE IInv'
  <2>1. PICK first \in {"queue", "audit"} :
          Move(c, [at |-> first, inferring |-> inferring, world |-> world])
    BY <1>3 DEF BeginSync
  <2>2. evidence' = evidence
    BY <1>3 DEF BeginSync
  <2>3. QED
    BY <2>1, <2>2, Moved
<1>4. ASSUME NEW c \in Callers, EndSnapshot(c) PROVE IInv'
  <2>1. Move(c, [at |-> "derive", inferring |-> ops[c].inferring,
                 world |-> Snapshot(ops[c]), evidence |-> evidence])
    BY <1>4 DEF EndSnapshot
  <2>2. ops'[c].evidence = evidence /\ evidence' = evidence
    BY <1>4, <2>1, Moved DEF EndSnapshot
  <2>3. QED
    BY <2>1, <2>2, Moved
<1>5. ASSUME NEW c \in Callers, WriteDerived(c) PROVE IInv'
  <2> DEFINE w == ops[c].world
             batch == Replacement("derived", DerivedDrafts(w), w, ops[c].evidence)
  <2>1. Split(ops[c].evidence)
    BY <1>5 DEF WriteDerived
  <2>2. evidence' = SaveMany(evidence, batch)
    BY <1>5 DEF WriteDerived
  <2>3. Split(batch)
    BY <2>1, DerivedSplit, ReplacementSplit
  <2>4. Split(evidence')
    BY <2>2, <2>3, SaveManySplit
  <2>5. CASE Move(c, [at |-> "infer", inferring |-> TRUE,
                       world |-> ops[c].world, evidence |-> ops[c].evidence])
    BY <2>1, <2>4, <2>5, Moved
  <2>6. CASE Move(c, Idle)
    BY <2>4, <2>6, Moved DEF Idle
  <2>7. QED
    BY <1>5, <2>5, <2>6 DEF WriteDerived
<1>6. ASSUME NEW c \in Callers, WriteInferred(c) PROVE IInv'
  <2> DEFINE w == ops[c].world
             batch == Replacement("inferred", InferredDrafts(w), w, ops[c].evidence)
  <2>1. Split(ops[c].evidence)
    BY <1>6 DEF WriteInferred
  <2>2. evidence' = SaveMany(evidence, batch) \/ evidence' = evidence
    BY <1>6 DEF WriteInferred
  <2>3. Split(batch)
    <3>1. world \in World /\ w \in World
      BY <1>6, OpFields DEF TypeOK, WriteInferred, Snapshots
    <3>2. \A k \in InferredDrafts(w) : k.type \in InferredTypes
      BY <3>1, InferredSplit
    <3>. QED
      BY <2>1, <3>2, ReplacementSplit
  <2>4. Split(evidence')
    BY <2>2, <2>3, SaveManySplit
  <2>5. Move(c, Idle)
    BY <1>6 DEF WriteInferred
  <2>6. QED
    BY <2>4, <2>5, Moved DEF Idle
<1>7. ASSUME NEW c \in Callers, NEW k, NEW active, Decide(c, k, active) PROVE IInv'
  <2>1. Move(c, [at |-> "save", key |-> k, active |-> active, overridden |-> SystemOrigins(k)])
    BY <1>7 DEF Decide
  <2>2. evidence' = evidence
    BY <1>7 DEF Decide
  <2>3. QED
    BY <2>1, <2>2, Moved
<1>8. ASSUME NEW c \in Callers, SaveDecision(c) PROVE IInv'
  <2> DEFINE batch == {Record(ops[c].key, "manual", ops[c].active)}
  <2>1. Split(batch)
    BY DEF Split, Record
  <2>2. Split(evidence')
    BY <1>8, <2>1, SaveManySplit DEF SaveDecision
  <2>3. Move(c, Reporting(ops[c]))
    BY <1>8 DEF SaveDecision
  <2>4. QED
    BY <2>2, <2>3, Moved DEF Reporting
<1>9. ASSUME NEW c \in Callers, ReportDecision(c) PROVE IInv'
  BY <1>9, Moved DEF ReportDecision, Idle
<1>10. ASSUME NEW c \in Callers, CutShort(c) PROVE IInv'
  BY <1>10, Moved DEF CutShort, Idle
<1>11. QED
  BY <1>1, <1>2, <1>3, <1>4, <1>5, <1>6, <1>7, <1>8, <1>9, <1>10
  DEF Next, CreateManual, RemoveLink

LEMMA InvImpliesSingleOwner == IInv => SingleOwner
BY DEF IInv, Split, SingleOwner, ActiveKeys, Of, DerivedTypes, InferredTypes

----------------------------------------------------------------------------
(* What the user decided *)

\* Writing links of other origins and decisions about other links leave what
\* is decided of k, and so whether it is shown.
LEMMA Untouched ==
  ASSUME NEW E, NEW batch, NEW k, \A r \in batch : r.origin # "manual" \/ r.key # k
  PROVE  /\ \A b \in BOOLEAN : Record(k, "manual", b) \in E
                                 <=> Record(k, "manual", b) \in SaveMany(E, batch)
         /\ k \in ManualKeys(E) <=> k \in ManualKeys(SaveMany(E, batch))
         /\ k \in ActiveKeys("manual", E) <=> k \in ActiveKeys("manual", SaveMany(E, batch))
<1> DEFINE F == SaveMany(E, batch)
<1>1. ASSUME NEW r, r.origin = "manual", r.key = k
      PROVE  r \in E <=> r \in F
  BY <1>1 DEF SaveMany
<1>2. \A b : Record(k, "manual", b).origin = "manual" /\ Record(k, "manual", b).key = k
  BY DEF Record
<1>3. \A b \in BOOLEAN : Record(k, "manual", b) \in E <=> Record(k, "manual", b) \in F
  BY <1>1, <1>2
<1>4. k \in ManualKeys(E) <=> k \in ManualKeys(F)
  BY <1>1 DEF ManualKeys, Of
<1>5. k \in ActiveKeys("manual", E) <=> k \in ActiveKeys("manual", F)
  BY <1>1 DEF ActiveKeys, Of
<1>6. QED
  BY <1>3, <1>4, <1>5

\* What ManualDecides says of one step and one link.
Stands(k) ==
  /\ \A b \in BOOLEAN : Record(k, "manual", b) \in evidence
                          <=> Record(k, "manual", b) \in evidence'
  /\ k \in Shown(evidence) <=> k \in Shown(evidence')

LEMMA StandsUntouched ==
  ASSUME NEW batch, NEW k \in ManualKeys(evidence) \cup ManualKeys(evidence'),
         evidence' = SaveMany(evidence, batch),
         \A r \in batch : r.origin # "manual" \/ r.key # k
  PROVE  Stands(k)
<1>1. /\ k \in ManualKeys(evidence) /\ k \in ManualKeys(evidence')
      /\ k \in ActiveKeys("manual", evidence) <=> k \in ActiveKeys("manual", evidence')
  BY Untouched
<1>2. k \in Shown(evidence) <=> k \in Shown(evidence')
  BY <1>1 DEF Shown
<1>3. QED
  BY <1>2, Untouched DEF Stands

LEMMA ReplacementOrigin ==
  ASSUME NEW origin, NEW drafts, NEW w, NEW E, NEW r \in Replacement(origin, drafts, w, E)
  PROVE  r.origin = origin
BY DEF Replacement, Record

LEMMA DecidesStep ==
  ASSUME [Next]_vars, NEW k \in ManualKeys(evidence) \cup ManualKeys(evidence')
  PROVE  (\E c \in Callers : ops[c].at = "save" /\ ops[c].key = k) \/ Stands(k)
<1>1. CASE evidence' = evidence
  BY <1>1 DEF Stands
<1>2. ASSUME NEW c \in Callers, WriteDerived(c) PROVE Stands(k)
  <2> DEFINE w == ops[c].world
             batch == Replacement("derived", DerivedDrafts(w), w, ops[c].evidence)
  <2>1. evidence' = SaveMany(evidence, batch)
    BY <1>2 DEF WriteDerived
  <2>2. \A r \in batch : r.origin # "manual"
    BY ReplacementOrigin
  <2>3. QED
    BY <2>1, <2>2, StandsUntouched
<1>3. ASSUME NEW c \in Callers, WriteInferred(c) PROVE Stands(k)
  <2> DEFINE w == ops[c].world
             batch == Replacement("inferred", InferredDrafts(w), w, ops[c].evidence)
  <2>1. evidence' = SaveMany(evidence, batch) \/ evidence' = evidence
    BY <1>3 DEF WriteInferred
  <2>2. \A r \in batch : r.origin # "manual"
    BY ReplacementOrigin
  <2>3. QED
    BY <1>1, <2>1, <2>2, StandsUntouched DEF Stands
<1>4. ASSUME NEW c \in Callers, SaveDecision(c), ops[c].key # k PROVE Stands(k)
  <2> DEFINE batch == {Record(ops[c].key, "manual", ops[c].active)}
  <2>1. evidence' = SaveMany(evidence, batch)
    BY <1>4 DEF SaveDecision
  <2>2. \A r \in batch : r.key # k
    BY <1>4 DEF Record
  <2>3. QED
    BY <2>1, <2>2, StandsUntouched
<1>5. CASE \/ WorldStep \/ UNCHANGED vars
           \/ \E c \in Callers :
                \/ \E inferring \in BOOLEAN : BeginSync(c, inferring)
                \/ EndSnapshot(c)
                \/ \E l, active : Decide(c, l, active)
                \/ ReportDecision(c)
                \/ CutShort(c)
  BY <1>1, <1>5
  DEF WorldStep, vars, BeginSync, EndSnapshot, Decide, ReportDecision, CutShort
<1>6. QED
  BY <1>2, <1>3, <1>4, <1>5 DEF Next, SaveDecision, CreateManual, RemoveLink

\* Whatever is synced, only the user's own decision changes a manual link or,
\* while there is one, whether the link is shown.
THEOREM ManualDecidesAlways == Spec => ManualDecides
<1>1. [Next]_vars =>
        [\A k \in ManualKeys(evidence) \cup ManualKeys(evidence') :
           \/ \E c \in Callers : ops[c].at = "save" /\ ops[c].key = k
           \/ /\ \A b \in BOOLEAN : Record(k, "manual", b) \in evidence
                                      <=> Record(k, "manual", b) \in evidence'
              /\ k \in Shown(evidence) <=> k \in Shown(evidence')]_vars
  BY DecidesStep, Zenon DEF Stands
<1>2. QED
  BY <1>1, PTL DEF Spec, ManualDecides

----------------------------------------------------------------------------
(* The types of the state, and what a snapshot holds *)

\* serialize: one operation at a time.
Alone == \A c, d \in Callers : ops[c] # Idle /\ ops[d] # Idle => c = d

\* What is recorded of memories is about stored ones.
Known ==
  /\ \A i \in world.queue : world.conflicts[i] \subseteq Stored(world)
  /\ \A d \in world.dups : d[2].kind = "memory" => d[2].id \in Stored(world)
  /\ unseen \cap world.queue = {}
  /\ NoSelf(world)
  /\ \A c \in Callers : ops[c].at \in Snapshots => NoSelf(ops[c].world)

\* The links a sync has read are the links it finds when it writes.
SnapshotHolds ==
  \A c \in Callers :
    /\ ops[c].at = "derive" => ops[c].evidence = evidence
    /\ ops[c].at = "infer" => Of("inferred", ops[c].evidence) = Of("inferred", evidence)

\* What is about to be saved by the user is a link between two entities.
SavesLinks ==
  \A c \in Callers : ops[c].at = "save" => ops[c].key.source # ops[c].key.target

GraphInv == TypeOK /\ IInv /\ Alone /\ Known /\ SnapshotHolds /\ SavesLinks

\* Records.
LEMMA RecordFields ==
  ASSUME NEW k, NEW o, NEW a
  PROVE  /\ Record(k, o, a).key = k /\ Record(k, o, a).origin = o /\ Record(k, o, a).active = a
         /\ k \in Keys /\ o \in Origins /\ a \in BOOLEAN => Record(k, o, a) \in Records
  BY DEF Record, Records

\* No two records of a set are of one link and one origin.
OnePerLink(E) == \A r, s \in E : r.key = s.key /\ r.origin = s.origin => r = s
NoLoops(E) == \A r \in E : r.key.source # r.key.target

LEMMA ReplacementRecords ==
  ASSUME NEW o \in Origins, NEW drafts \in SUBSET Keys, NEW w, NEW E \in SUBSET Records,
         NoLoops(E), \A k \in drafts : k.source # k.target
  PROVE  LET batch == Replacement(o, drafts, w, E)
         IN  batch \subseteq Records /\ OnePerLink(batch) /\ NoLoops(batch)
<1>. DEFINE batch == Replacement(o, drafts, w, E)
            wanted == {k \in drafts : \A r \in Ends(k) : Eligible(w, r)}
<1>1. \A r \in batch : \/ \E k \in wanted : r = Record(k, o, TRUE)
                       \/ \E x \in E : x.key \notin wanted /\ r = Record(x.key, o, FALSE)
  BY DEF Replacement, Of
<1>2. \A x \in E : x.key \in Keys /\ x.key.source # x.key.target
  BY DEF Records, NoLoops
<1>3. \A r \in batch : /\ r.origin = o /\ r.key \in Keys /\ r.key.source # r.key.target
                       /\ r \in Records
                       /\ \/ r.key \in wanted /\ r = Record(r.key, o, TRUE)
                          \/ r.key \notin wanted /\ r = Record(r.key, o, FALSE)
  <2>. SUFFICES ASSUME NEW r \in batch
       PROVE  /\ r.origin = o /\ r.key \in Keys /\ r.key.source # r.key.target /\ r \in Records
              /\ \/ r.key \in wanted /\ r = Record(r.key, o, TRUE)
                 \/ r.key \notin wanted /\ r = Record(r.key, o, FALSE)
    OBVIOUS
  <2>. HIDE DEF wanted, batch
  <2>1. ASSUME NEW k, r = Record(k, o, TRUE) PROVE r.key = k /\ r.origin = o /\ (k \in Keys => r \in Records)
    BY <2>1 DEF Record, Records
  <2>2. ASSUME NEW k, r = Record(k, o, FALSE) PROVE r.key = k /\ r.origin = o /\ (k \in Keys => r \in Records)
    BY <2>2 DEF Record, Records
  <2>3. wanted \subseteq drafts
    BY DEF wanted
  <2>4. CASE \E k \in wanted : r = Record(k, o, TRUE)
    BY <2>1, <2>3, <2>4
  <2>5. CASE \E x \in E : x.key \notin wanted /\ r = Record(x.key, o, FALSE)
    BY <1>2, <2>2, <2>5
  <2>. QED
    BY <1>1, <2>4, <2>5
<1>. HIDE DEF wanted
<1>. QED
  BY <1>3 DEF OnePerLink, NoLoops

LEMMA SaveManyRecords ==
  ASSUME NEW E \in SUBSET Records, NEW batch \in SUBSET Records, OnePerLink(E), OnePerLink(batch),
         NoLoops(E), NoLoops(batch)
  PROVE  /\ SaveMany(E, batch) \in SUBSET Records /\ OnePerLink(SaveMany(E, batch))
         /\ NoLoops(SaveMany(E, batch))
  BY DEF SaveMany, OnePerLink, NoLoops

\* The memories superseded are memories still.
LEMMA SupersedingFields ==
  ASSUME NEW w \in World, NEW M \in SUBSET Ids, NEW R \in SUBSET Refs
  PROVE  LET v == Superseding(w, M, R)
         IN  /\ v \in World /\ v.queue = w.queue /\ v.conflicts = w.conflicts /\ v.dups = w.dups
             /\ Stored(w) \subseteq Stored(v)
<1>. DEFINE memories == [i \in Ids |-> IF i \in M THEN "superseded" ELSE w.memories[i]]
            v == [w EXCEPT !.memories = memories, !.supers = w.supers \cup (M \X R)]
<1>1. memories \in [Ids -> {"none", "active", "superseded"}]
  BY DEF World
<1>2. w.supers \cup (M \X R) \in SUBSET (Ids \X Refs)
  BY DEF World
<1>3. Superseding(w, M, R) = v
  BY DEF Superseding
<1>4. \A i \in Ids : w.memories[i] # "none" => memories[i] # "none"
  OBVIOUS
<1>. HIDE DEF memories
<1>5. /\ v \in World /\ v.queue = w.queue /\ v.conflicts = w.conflicts /\ v.dups = w.dups
      /\ v.memories = memories
  BY <1>1, <1>2 DEF World
<1>. HIDE DEF v
<1>6. Stored(w) \subseteq Stored(v)
  BY <1>4, <1>5 DEF Stored
<1>. QED
  BY <1>3, <1>5, <1>6

\* A memory becomes active.
LEMMA ActivatedFields ==
  ASSUME NEW w \in World, NEW i \in Ids
  PROVE  LET v == [w EXCEPT !.memories[i] = "active"]
         IN  /\ v \in World /\ v.queue = w.queue /\ v.conflicts = w.conflicts /\ v.dups = w.dups
             /\ Stored(w) \subseteq Stored(v)
<1>. DEFINE memories == [w.memories EXCEPT ![i] = "active"]
            v == [w EXCEPT !.memories = memories]
<1>1. memories \in [Ids -> {"none", "active", "superseded"}]
  BY DEF World
<1>2. [w EXCEPT !.memories[i] = "active"] = v
  BY DEF World
<1>3. \A j \in Ids : w.memories[j] # "none" => memories[j] # "none"
  BY DEF World
<1>. HIDE DEF memories
<1>4. /\ v \in World /\ v.queue = w.queue /\ v.conflicts = w.conflicts /\ v.dups = w.dups
      /\ v.memories = memories
  BY <1>1 DEF World
<1>. HIDE DEF v
<1>5. Stored(w) \subseteq Stored(v)
  BY <1>3, <1>4 DEF Stored
<1>. QED
  BY <1>2, <1>4, <1>5

\* What the pipeline, the approval and the supersession leave.
LEMMA WorldSteps ==
  ASSUME world \in World, unseen \subseteq Ids, Known, WorldStep
  PROVE  /\ world' \in World /\ unseen' \subseteq unseen
         /\ Stored(world) \subseteq Stored(world')
         /\ \A i \in world'.queue : world'.conflicts[i] \subseteq Stored(world)
         /\ \A d \in world'.dups : d[2].kind = "memory" => d[2].id \in Stored(world)
         /\ unseen' \cap world'.queue = {}
         /\ NoSelf(world')
<1>. DEFINE Goal == /\ world' \in World /\ unseen' \subseteq unseen
                    /\ Stored(world) \subseteq Stored(world')
                    /\ \A i \in world'.queue : world'.conflicts[i] \subseteq Stored(world)
                    /\ \A d \in world'.dups : d[2].kind = "memory" => d[2].id \in Stored(world)
                    /\ unseen' \cap world'.queue = {}
                    /\ NoSelf(world')
<1>0. /\ world.queue \subseteq Ids /\ Active(world) \subseteq Stored(world)
      /\ Stored(world) \subseteq Ids /\ Active(world) \subseteq Ids
  BY DEF World, Active, Stored
<1>1. ASSUME NEW i \in unseen, NEW S \in SUBSET Active(world), QueueCandidate(i, S) PROVE Goal
  <2>1. i \in Ids /\ S \in SUBSET Ids /\ world.queue \cup {i} \in SUBSET Ids
    BY <1>0
  <2>2. world' = [world EXCEPT !.queue = world.queue \cup {i}, !.conflicts[i] = S]
        /\ unseen' = unseen \ {i}
    BY <1>1 DEF QueueCandidate
  <2>. DEFINE q == world.queue \cup {i}
  <2>. HIDE DEF q
  <2>a. q \in SUBSET Ids /\ world' = [world EXCEPT !.queue = q, !.conflicts = [world.conflicts EXCEPT ![i] = S]]
    BY <2>1, <2>2 DEF q, World
  <2>. DEFINE conflicts == [world.conflicts EXCEPT ![i] = S]
  <2>b. /\ conflicts \in [Ids -> SUBSET Ids] /\ conflicts[i] = S
        /\ \A j \in Ids \ {i} : conflicts[j] = world.conflicts[j]
    BY <2>1 DEF World
  <2>c. world' = [world EXCEPT !.queue = q, !.conflicts = conflicts]
    BY <2>a
  <2>. HIDE DEF conflicts
  <2>d. /\ world' \in World /\ world'.queue = q /\ world'.dups = world.dups
        /\ world'.memories = world.memories /\ world'.conflicts = conflicts
    BY <2>a, <2>b, <2>c DEF World
  <2>3. /\ world' \in World /\ world'.queue = world.queue \cup {i} /\ world'.dups = world.dups
        /\ world'.memories = world.memories /\ world'.conflicts[i] = S
        /\ \A j \in Ids \ {i} : world'.conflicts[j] = world.conflicts[j]
    BY <2>b, <2>d DEF q
  <2>4. Stored(world') = Stored(world)
    BY <2>3 DEF Stored
  <2>. QED
    BY <1>0, <1>1, <2>1, <2>2, <2>3, <2>4 DEF Known, NoSelf
<1>2. ASSUME NEW i \in unseen, NEW S \in SUBSET Active(world), SaveCandidate(i, S) PROVE Goal
  <2>. DEFINE v == Superseding(world, S, {Candidate(i)})
  <2>1. i \in Ids /\ S \in SUBSET Ids /\ {Candidate(i)} \in SUBSET Refs
    BY <1>0, RefsAreRefs
  <2>2. world' = [v EXCEPT !.memories[i] = "active"] /\ unseen' = unseen \ {i}
    BY <1>2 DEF SaveCandidate
  <2>3. /\ v \in World /\ v.queue = world.queue /\ v.conflicts = world.conflicts
        /\ v.dups = world.dups /\ Stored(world) \subseteq Stored(v)
    BY <2>1, SupersedingFields
  <2>. HIDE DEF v
  <2>4. /\ world' \in World /\ world'.queue = v.queue /\ world'.conflicts = v.conflicts
        /\ world'.dups = v.dups /\ Stored(v) \subseteq Stored(world')
    BY <2>1, <2>2, <2>3, ActivatedFields
  <2>. QED
    BY <2>2, <2>3, <2>4 DEF Known, NoSelf
<1>3. ASSUME NEW i \in unseen, NEW r \in Entities(world),
             r.kind = "memory" => r.id \in Active(world), RejectDuplicate(i, r)
      PROVE  Goal
  <2>1. i \in Ids /\ i \notin world.queue /\ r \in Refs
    BY <1>0, RefsAreRefs DEF Known, Entities
  <2>2. r # Candidate(i)
    <3>1. \A j \in Ids : Candidate(j) = Candidate(i) => j = i
      BY <2>1, RefsAreRefs
    <3>2. \A j \in Ids : Memory(j) # Candidate(i)
      BY <2>1, RefsAreRefs
    <3>. QED
      BY <1>0, <2>1, <3>1, <3>2 DEF Entities
  <2>3. world' = [world EXCEPT !.dups = world.dups \cup {<<i, r>>}] /\ unseen' = unseen \ {i}
    BY <1>3 DEF RejectDuplicate
  <2>4. /\ world' \in World /\ world'.queue = world.queue /\ world'.conflicts = world.conflicts
        /\ world'.memories = world.memories /\ world'.dups = world.dups \cup {<<i, r>>}
    BY <2>1, <2>3 DEF World
  <2>5. Stored(world') = Stored(world)
    BY <2>4 DEF Stored
  <2>6. NoSelf(world')
    BY <2>2, <2>4 DEF Known, NoSelf
  <2>7. \A d \in world'.dups : d[2].kind = "memory" => d[2].id \in Stored(world)
    BY <1>0, <1>3, <2>4 DEF Known
  <2>. QED
    BY <2>3, <2>4, <2>5, <2>6, <2>7 DEF Known
<1>4. ASSUME NEW i \in world.queue
      PROVE  /\ Leaving(i) \in World /\ Leaving(i).queue = world.queue \ {i}
             /\ Leaving(i).dups = world.dups /\ Leaving(i).memories = world.memories
             /\ \A j \in Ids \ {i} : Leaving(i).conflicts[j] = world.conflicts[j]
             /\ Stored(Leaving(i)) = Stored(world)
  <2>1. i \in Ids /\ world.queue \ {i} \in SUBSET Ids
    BY <1>0
  <2>2. Leaving(i) = [world EXCEPT !.queue = world.queue \ {i}, !.conflicts[i] = {}]
    BY DEF Leaving
  <2>. DEFINE q == world.queue \ {i}
  <2>. HIDE DEF q
  <2>a. q \in SUBSET Ids /\ Leaving(i) = [world EXCEPT !.queue = q, !.conflicts = [world.conflicts EXCEPT ![i] = {}]]
        /\ {} \in SUBSET Ids
    BY <2>1, <2>2 DEF q, World
  <2>. DEFINE conflicts == [world.conflicts EXCEPT ![i] = {}]
  <2>b. /\ conflicts \in [Ids -> SUBSET Ids]
        /\ \A j \in Ids \ {i} : conflicts[j] = world.conflicts[j]
    BY <2>1 DEF World
  <2>c. Leaving(i) = [world EXCEPT !.queue = q, !.conflicts = conflicts]
    BY <2>a
  <2>. HIDE DEF conflicts
  <2>d. /\ Leaving(i) \in World /\ Leaving(i).queue = q /\ Leaving(i).dups = world.dups
        /\ Leaving(i).memories = world.memories /\ Leaving(i).conflicts = conflicts
    BY <2>a, <2>b, <2>c DEF World
  <2>. QED
    BY <2>b, <2>d DEF q, Stored
<1>5. ASSUME NEW i \in world.queue, NEW m \in Active(world) \cup {i}, Approve(i, m) PROVE Goal
  <2>. DEFINE M == (world.conflicts[i] \cap Active(world)) \ {m}
              v == Superseding(Leaving(i), M, {Memory(m)})
  <2>1. m \in Ids /\ M \in SUBSET Ids /\ {Memory(m)} \in SUBSET Refs
    BY <1>0, RefsAreRefs
  <2>2. world' = [v EXCEPT !.memories[m] = "active"] /\ unseen' = unseen
    BY <1>5 DEF Approve
  <2>. HIDE DEF M
  <2>3. /\ v \in World /\ v.queue = Leaving(i).queue /\ v.conflicts = Leaving(i).conflicts
        /\ v.dups = Leaving(i).dups /\ Stored(Leaving(i)) \subseteq Stored(v)
    BY <1>4, <2>1, SupersedingFields
  <2>. HIDE DEF v
  <2>4. /\ world' \in World /\ world'.queue = v.queue /\ world'.conflicts = v.conflicts
        /\ world'.dups = v.dups /\ Stored(v) \subseteq Stored(world')
    BY <2>1, <2>2, <2>3, ActivatedFields
  <2>. QED
    BY <1>0, <1>4, <2>2, <2>3, <2>4 DEF Known, NoSelf
<1>6. ASSUME NEW i \in world.queue, Reject(i) PROVE Goal
  BY <1>0, <1>4, <1>6 DEF Reject, Known, NoSelf
<1>7. ASSUME NEW i \in Active(world), NEW R \in {{}} \cup {{Memory(j)} : j \in Replacements},
             SupersedeMemory(i, R)
      PROVE  Goal
  <2>1. {i} \in SUBSET Ids /\ R \in SUBSET Refs
    BY <1>0, RefsAreRefs, ServiceAssumption
  <2>2. world' = Superseding(world, {i}, R) /\ unseen' = unseen
    BY <1>7 DEF SupersedeMemory
  <2>3. /\ world' \in World /\ world'.queue = world.queue /\ world'.conflicts = world.conflicts
        /\ world'.dups = world.dups /\ Stored(world) \subseteq Stored(world')
    BY <2>1, <2>2, SupersedingFields
  <2>. QED
    BY <2>2, <2>3 DEF Known, NoSelf
<1>. HIDE DEF Goal
<1>8. Goal
  BY <1>1, <1>2, <1>3, <1>5, <1>6, <1>7 DEF WorldStep
<1>. QED
  BY <1>8 DEF Goal

LEMMA OpTypes ==
  /\ Idle \in Ops
  /\ \A a \in {"queue", "audit"}, b \in BOOLEAN, w \in World :
       [at |-> a, inferring |-> b, world |-> w] \in Ops
  /\ \A a \in {"derive", "infer"}, b \in BOOLEAN, w \in World, E \in SUBSET Records :
       [at |-> a, inferring |-> b, world |-> w, evidence |-> E] \in Ops
  /\ \A a \in {"save", "report"}, k \in Keys, b \in BOOLEAN, o \in SUBSET (Origins \ {"manual"}) :
       [at |-> a, key |-> k, active |-> b, overridden |-> o] \in Ops
  BY DEF Ops

LEMMA MovedAlone ==
  ASSUME IInv, Alone, \A d \in Callers : ops[d] \in Ops,
         NEW c \in Callers, Free(c) \/ ops[c] # Idle, NEW op \in Ops, Move(c, op)
  PROVE  /\ ops'[c] = op
         /\ \A d \in Callers : d # c => ops[d] = Idle /\ ops'[d] = Idle
         /\ \A d \in Callers : ops'[d] \in Ops
         /\ Alone'
<1>1. /\ ops'[c] = op
      /\ \A d \in Callers : d # c => ops'[d] = ops[d]
  BY Moved DEF IInv
<1>2. \A d \in Callers : d # c => ops[d] = Idle
  BY DEF Alone, Free
<1>. QED
  BY <1>1, <1>2, OpTypes DEF Alone

\* One operation moves while the world stands still.
LEMMA MovedGraph ==
  ASSUME GraphInv, IInv', NEW c \in Callers, Free(c) \/ ops[c] # Idle, NEW op \in Ops, Move(c, op),
         op.at \in Snapshots => NoSelf(op.world),
         op.at = "save" => op.key.source # op.key.target,
         op.at = "derive" => op.evidence = evidence',
         op.at = "infer" => Of("inferred", op.evidence) = Of("inferred", evidence'),
         UNCHANGED <<world, unseen, changes>>,
         evidence' \in SUBSET Records, OnePerLink(evidence'), NoLoops(evidence'),
         events' \subseteq Events, decisions' \in 0..MaxDecisions, failures' \in 0..MaxFailures
  PROVE  GraphInv'
<1>1. /\ ops'[c] = op
      /\ \A d \in Callers : d # c => ops[d] = Idle /\ ops'[d] = Idle
      /\ \A d \in Callers : ops'[d] \in Ops
      /\ Alone'
  BY MovedAlone DEF GraphInv, TypeOK
<1>2. TypeOK'
  BY <1>1 DEF GraphInv, TypeOK, OnePerLink, NoLoops
<1>3. Known'
  <2>1. \A d \in Callers : ops'[d].at \in Snapshots => NoSelf(ops'[d].world)
    BY <1>1 DEF Idle, Snapshots
  <2>. QED
    BY <2>1 DEF GraphInv, Known, NoSelf, Stored
<1>4. SnapshotHolds' /\ SavesLinks'
  BY <1>1 DEF SnapshotHolds, SavesLinks, Idle
<1>. QED
  BY <1>1, <1>2, <1>3, <1>4 DEF GraphInv

LEMMA InitGraph == Init => GraphInv
<1>. SUFFICES ASSUME Init PROVE GraphInv
  OBVIOUS
<1>1. /\ world \in World /\ world.queue = {} /\ world.dups = {}
  BY DEF Init, World
<1>2. TypeOK
  BY <1>1, OpTypes, ServiceAssumption DEF Init, TypeOK
<1>3. \A c \in Callers : ops[c].at = "idle" /\ ops[c] = Idle
  BY DEF Init, Idle
<1>4. Alone /\ SnapshotHolds /\ SavesLinks
  BY <1>3 DEF Alone, SnapshotHolds, SavesLinks
<1>5. Known
  BY <1>1, <1>3 DEF Known, NoSelf, Snapshots
<1>. QED
  BY <1>2, <1>4, <1>5, InitInv DEF GraphInv

LEMMA NextGraph == GraphInv /\ [Next]_vars => GraphInv'
<1>. SUFFICES ASSUME GraphInv, [Next]_vars PROVE GraphInv'
  OBVIOUS
<1>0. /\ IInv' /\ world \in World /\ unseen \subseteq Ids
      /\ evidence \in SUBSET Records /\ OnePerLink(evidence) /\ NoLoops(evidence)
      /\ events \subseteq Events /\ \A c \in Callers : ops[c] \in Ops
      /\ decisions \in 0..MaxDecisions /\ changes \in 0..MaxChanges /\ failures \in 0..MaxFailures
      /\ IInv /\ Alone /\ Known /\ SnapshotHolds /\ SavesLinks
  BY NextInv DEF GraphInv, TypeOK, OnePerLink, NoLoops
<1>1. CASE WorldStep
  <2>1. /\ world' \in World /\ unseen' \subseteq unseen
        /\ Stored(world) \subseteq Stored(world')
        /\ \A i \in world'.queue : world'.conflicts[i] \subseteq Stored(world)
        /\ \A d \in world'.dups : d[2].kind = "memory" => d[2].id \in Stored(world)
        /\ unseen' \cap world'.queue = {}
        /\ NoSelf(world')
    BY <1>0, <1>1, WorldSteps
  <2>2. /\ changes' = changes + 1 /\ changes < MaxChanges
        /\ UNCHANGED <<evidence, events, ops, decisions, failures>>
    BY <1>1 DEF WorldStep
  <2>3. changes' \in 0..MaxChanges
    BY <1>0, <2>2, ServiceAssumption
  <2>4. TypeOK'
    BY <1>0, <2>1, <2>2, <2>3 DEF TypeOK, OnePerLink, NoLoops
  <2>5. Known'
    <3>1. /\ \A i \in world'.queue : world'.conflicts[i] \subseteq Stored(world')
          /\ \A d \in world'.dups : d[2].kind = "memory" => d[2].id \in Stored(world')
      BY <2>1
    <3>2. \A c \in Callers : ops'[c].at \in Snapshots => NoSelf(ops'[c].world)
      BY <1>0, <2>2 DEF Known
    <3>. QED
      BY <2>1, <3>1, <3>2 DEF Known, NoSelf, Stored
  <2>6. Alone' /\ SnapshotHolds' /\ SavesLinks'
    BY <1>0, <2>2 DEF Alone, SnapshotHolds, SavesLinks
  <2>. QED
    BY <1>0, <2>4, <2>5, <2>6 DEF GraphInv
<1>2. CASE UNCHANGED vars
  BY <1>0, <1>2 DEF vars, GraphInv, TypeOK, Alone, Known, SnapshotHolds, SavesLinks,
                    NoSelf, Stored, OnePerLink, NoLoops
<1>3. ASSUME NEW c \in Callers, NEW inferring \in BOOLEAN, BeginSync(c, inferring) PROVE GraphInv'
  <2>1. PICK first \in {"queue", "audit"} :
          Move(c, [at |-> first, inferring |-> inferring, world |-> world])
    BY <1>3 DEF BeginSync
  <2>2. Free(c) /\ UNCHANGED <<world, unseen, evidence, events, decisions, changes, failures>>
    BY <1>3 DEF BeginSync
  <2>. DEFINE op == [at |-> first, inferring |-> inferring, world |-> world]
  <2>3. op \in Ops /\ op.at \notin {"save", "derive", "infer"} /\ op.world = world
    BY <1>0, OpTypes
  <2>. HIDE DEF op
  <2>. QED
    BY <1>0, <2>1, <2>2, <2>3, MovedGraph DEF op, Known
<1>4. ASSUME NEW c \in Callers, EndSnapshot(c) PROVE GraphInv'
  <2>. DEFINE op == [at |-> "derive", inferring |-> ops[c].inferring,
                     world |-> Snapshot(ops[c]), evidence |-> evidence]
  <2>1. /\ Move(c, op) /\ ops[c].at \in {"queue", "audit"}
        /\ UNCHANGED <<world, unseen, evidence, events, decisions, changes, failures>>
    BY <1>4 DEF EndSnapshot
  <2>2. /\ ops[c].world \in World /\ ops[c].inferring \in BOOLEAN /\ ops[c] # Idle
        /\ NoSelf(ops[c].world) /\ NoSelf(world)
    BY <1>0, <2>1, OpFields DEF Snapshots, Known
  <2>3. Snapshot(ops[c]) \in World /\ NoSelf(Snapshot(ops[c]))
    BY <1>0, <2>2, SnapshotWorld
  <2>4. /\ op \in Ops /\ op.at = "derive" /\ op.world = Snapshot(ops[c]) /\ op.evidence = evidence
    BY <1>0, <2>2, <2>3, OpTypes
  <2>. HIDE DEF op
  <2>. QED
    BY <1>0, <2>1, <2>2, <2>3, <2>4, MovedGraph
<1>5. ASSUME NEW c \in Callers, WriteDerived(c) PROVE GraphInv'
  <2>. DEFINE w == ops[c].world
              batch == Replacement("derived", DerivedDrafts(w), w, ops[c].evidence)
              op == [at |-> "infer", inferring |-> TRUE, world |-> w, evidence |-> ops[c].evidence]
  <2>1. /\ ops[c].at = "derive" /\ evidence' = SaveMany(evidence, batch)
        /\ Move(c, IF ops[c].inferring THEN op ELSE Idle)
        /\ UNCHANGED <<world, unseen, events, decisions, changes, failures>>
    BY <1>5 DEF WriteDerived
  <2>2. /\ w \in World /\ NoSelf(w) /\ ops[c] # Idle /\ ops[c].evidence = evidence
    BY <1>0, <2>1, OpFields DEF Snapshots, Known, SnapshotHolds
  <2>3. DerivedDrafts(w) \in SUBSET Keys /\ \A k \in DerivedDrafts(w) : k.source # k.target
    BY <2>2, DerivedKeys
  <2>4. batch \in SUBSET Records /\ OnePerLink(batch) /\ NoLoops(batch)
    BY <1>0, <2>2, <2>3, ReplacementRecords DEF Origins
  <2>5. \A r \in batch : r.origin = "derived"
    BY ReplacementOrigin
  <2>6. op \in Ops /\ op.at = "infer" /\ op.world = w /\ op.evidence = evidence
    BY <1>0, <2>2, OpTypes
  <2>. HIDE DEF batch, op, w
  <2>7. evidence' \in SUBSET Records /\ OnePerLink(evidence') /\ NoLoops(evidence')
    BY <1>0, <2>1, <2>4, SaveManyRecords
  <2>8. Of("inferred", evidence') = Of("inferred", evidence)
    BY <2>1, <2>5 DEF SaveMany, Of
  <2>9. CASE Move(c, op)
    BY <1>0, <2>1, <2>2, <2>6, <2>7, <2>8, <2>9, MovedGraph
  <2>10. CASE Move(c, Idle)
    <3>1. Idle \in Ops /\ Idle.at = "idle"
      BY OpTypes DEF Idle
    <3>. QED
      BY <1>0, <2>1, <2>2, <2>7, <2>10, <3>1, MovedGraph DEF Snapshots
  <2>. QED
    BY <2>1, <2>9, <2>10
<1>6. ASSUME NEW c \in Callers, WriteInferred(c) PROVE GraphInv'
  <2>. DEFINE w == ops[c].world
              batch == Replacement("inferred", InferredDrafts(w), w, ops[c].evidence)
  <2>1. /\ ops[c].at = "infer" /\ Move(c, Idle)
        /\ \/ Valid(InferredDrafts(w)) /\ evidence' = SaveMany(evidence, batch)
           \/ evidence' = evidence
        /\ UNCHANGED <<world, unseen, events, decisions, changes, failures>>
    BY <1>6 DEF WriteInferred
  <2>2. /\ w \in World /\ ops[c] # Idle
        /\ Of("inferred", ops[c].evidence) = Of("inferred", evidence)
    BY <1>0, <2>1, OpFields DEF Snapshots, SnapshotHolds
  <2>3. InferredDrafts(w) \in SUBSET Keys
    BY <1>0, <2>2, WithMemoriesWorld, InferredKeys DEF InferredDrafts
  <2>4. batch = Replacement("inferred", InferredDrafts(w), w, evidence)
    BY <2>2 DEF Replacement
  <2>. HIDE DEF w, batch
  <2>5. ASSUME Valid(InferredDrafts(w))
        PROVE  batch \in SUBSET Records /\ OnePerLink(batch) /\ NoLoops(batch)
    BY <1>0, <2>3, <2>4, <2>5, ReplacementRecords DEF Origins, Valid
  <2>6. evidence' \in SUBSET Records /\ OnePerLink(evidence') /\ NoLoops(evidence')
    BY <1>0, <2>1, <2>5, SaveManyRecords
  <2>7. Idle \in Ops /\ Idle.at = "idle"
    BY OpTypes DEF Idle
  <2>. QED
    BY <1>0, <2>1, <2>2, <2>6, <2>7, MovedGraph DEF Snapshots
<1>7. ASSUME NEW c \in Callers, NEW k \in Keys, NEW active \in BOOLEAN, k.source # k.target,
             Decide(c, k, active)
      PROVE  GraphInv'
  <2>. DEFINE op == [at |-> "save", key |-> k, active |-> active, overridden |-> SystemOrigins(k)]
  <2>1. /\ Free(c) /\ decisions < MaxDecisions /\ Move(c, op) /\ decisions' = decisions + 1
        /\ UNCHANGED <<world, unseen, evidence, events, changes, failures>>
    BY <1>7 DEF Decide
  <2>2. SystemOrigins(k) \in SUBSET (Origins \ {"manual"})
    BY <1>0 DEF SystemOrigins, Records
  <2>3. op \in Ops /\ op.at = "save" /\ op.key = k
    BY <2>2, OpTypes
  <2>4. decisions' \in 0..MaxDecisions
    BY <1>0, <2>1, ServiceAssumption
  <2>. HIDE DEF op
  <2>. QED
    BY <1>0, <1>7, <2>1, <2>3, <2>4, MovedGraph DEF Snapshots
<1>8. ASSUME NEW c \in Callers, SaveDecision(c) PROVE GraphInv'
  <2>. DEFINE k == ops[c].key
              a == ops[c].active
              batch == {Record(k, "manual", a)}
              op == Reporting(ops[c])
  <2>1. /\ ops[c].at = "save" /\ evidence' = SaveMany(evidence, batch) /\ Move(c, op)
        /\ UNCHANGED <<world, unseen, events, decisions, changes, failures>>
    BY <1>8 DEF SaveDecision
  <2>2. /\ k \in Keys /\ a \in BOOLEAN /\ k.source # k.target
        /\ ops[c].overridden \in SUBSET (Origins \ {"manual"}) /\ ops[c] # Idle
    BY <1>0, <2>1, OpFields DEF SavesLinks
  <2>3. op \in Ops /\ op.at = "report"
    BY <2>2, OpTypes DEF Reporting
  <2>. HIDE DEF k, a, op
  <2>4. /\ Record(k, "manual", a) \in Records /\ Record(k, "manual", a).key = k
    BY <2>2, RecordFields DEF Origins
  <2>5. batch \in SUBSET Records /\ OnePerLink(batch) /\ NoLoops(batch)
    BY <2>2, <2>4 DEF OnePerLink, NoLoops
  <2>. HIDE DEF batch
  <2>6. evidence' \in SUBSET Records /\ OnePerLink(evidence') /\ NoLoops(evidence')
    BY <1>0, <2>1, <2>5, SaveManyRecords
  <2>. QED
    BY <1>0, <2>1, <2>2, <2>3, <2>6, MovedGraph DEF Snapshots
<1>9. ASSUME NEW c \in Callers, ReportDecision(c) PROVE GraphInv'
  <2>. DEFINE e == [key |-> ops[c].key, active |-> ops[c].active, overridden |-> ops[c].overridden]
  <2>1. /\ ops[c].at = "report" /\ events' = events \cup {e} /\ Move(c, Idle)
        /\ UNCHANGED <<world, unseen, evidence, decisions, changes, failures>>
    BY <1>9 DEF ReportDecision
  <2>2. e \in Events /\ ops[c] # Idle
    BY <1>0, <2>1, OpFields DEF Events
  <2>3. Idle \in Ops /\ Idle.at = "idle"
    BY OpTypes DEF Idle
  <2>. HIDE DEF e
  <2>. QED
    BY <1>0, <2>1, <2>2, <2>3, MovedGraph DEF Snapshots
<1>10. ASSUME NEW c \in Callers, CutShort(c) PROVE GraphInv'
  <2>1. /\ ops[c] # Idle /\ failures < MaxFailures /\ failures' = failures + 1 /\ Move(c, Idle)
        /\ UNCHANGED <<world, unseen, evidence, events, decisions, changes>>
    BY <1>10 DEF CutShort
  <2>2. Idle \in Ops /\ Idle.at = "idle"
    BY OpTypes DEF Idle
  <2>3. failures' \in 0..MaxFailures
    BY <1>0, <2>1, ServiceAssumption
  <2>. QED
    BY <1>0, <2>1, <2>2, <2>3, MovedGraph DEF Snapshots
<1>11. ASSUME NEW c \in Callers, NEW k \in Links, CreateManual(c, k) PROVE GraphInv'
  BY <1>7, <1>11, ServiceAssumption DEF CreateManual
<1>12. ASSUME NEW c \in Callers, NEW r \in evidence, RemoveLink(c, r.key) PROVE GraphInv'
  <2>1. r.key \in Keys /\ r.key.source # r.key.target
    BY <1>0 DEF Records, NoLoops
  <2>. QED
    BY <1>7, <1>12, <2>1 DEF RemoveLink
<1>. QED
  BY <1>1, <1>2, <1>3, <1>4, <1>5, <1>6, <1>8, <1>9, <1>10, <1>11, <1>12 DEF Next

\* One operation at a time, each with a snapshot that still holds where it
\* matters, and records that are about stored memories (serialize).
THEOREM GraphInvariant == Spec => []GraphInv
<1>. QED
  BY InitGraph, NextGraph, PTL DEF Spec

\* The state keeps its types, and no link is stored twice or leads from an
\* entity to itself (saveMany, validateRelationship).
THEOREM TypesKept == Spec => []TypeOK
<1>1. GraphInv => TypeOK
  BY DEF GraphInv
<1>. QED
  BY <1>1, GraphInvariant, PTL

\* Each link has a single owner, whatever is synced in which order while the
\* stores change.
THEOREM SingleOwnerAlways == Spec => []SingleOwner
<1>1. GraphInv => SingleOwner
  BY InvImpliesSingleOwner DEF GraphInv
<1>. QED
  BY <1>1, GraphInvariant, PTL

\* No link is stored twice with one origin, or by both syncs at once.
THEOREM LinksAlwaysOwned == Spec => []LinksOwned
<1>1. TypeOK /\ SingleOwner => LinksOwned
  BY DEF LinksOwned
<1>. QED
  BY <1>1, TypesKept, SingleOwnerAlways, PTL

----------------------------------------------------------------------------
(* What a sync leaves *)

\* A batch of one origin leaves the links of another as they are,
LEMMA OtherOrigin ==
  ASSUME NEW E, NEW batch, NEW o, \A r \in batch : r.origin # o
  PROVE  Of(o, SaveMany(E, batch)) = Of(o, E)
  BY DEF Of, SaveMany

\* and makes those of its own the wanted ones, if the links it has read are
\* the links there are.
LEMMA Replaced ==
  ASSUME NEW o, NEW drafts, NEW w, NEW E, NEW F, Of(o, E) = Of(o, F)
  PROVE  ActiveKeys(o, SaveMany(F, Replacement(o, drafts, w, E)))
           = {k \in drafts : \A r \in Ends(k) : Eligible(w, r)}
<1>. DEFINE wanted == {k \in drafts : \A r \in Ends(k) : Eligible(w, r)}
            batch == Replacement(o, drafts, w, E)
            G == SaveMany(F, batch)
<1>1. batch = {Record(k, o, TRUE) : k \in wanted}
                \cup {Record(r.key, o, FALSE) : r \in {x \in Of(o, F) : x.key \notin wanted}}
  BY DEF Replacement
<1>2. \A k : /\ Record(k, o, TRUE).key = k /\ Record(k, o, TRUE).origin = o
             /\ Record(k, o, TRUE).active
             /\ Record(k, o, FALSE).key = k /\ Record(k, o, FALSE).origin = o
             /\ ~Record(k, o, FALSE).active
  BY DEF Record
<1>3. G = {r \in F : \A b \in batch : ~(b.key = r.key /\ b.origin = r.origin)} \cup batch
  BY DEF SaveMany
<1>. HIDE DEF wanted, batch, G
<1>4. ASSUME NEW r \in G, r.origin = o, r.active PROVE r.key \in wanted
  <2>1. CASE r \in batch
    <3>1. ASSUME NEW k \in wanted, r = Record(k, o, TRUE) PROVE r.key \in wanted
      BY <1>2, <3>1, Zenon
    <3>2. ASSUME NEW k, r = Record(k, o, FALSE) PROVE FALSE
      BY <1>2, <1>4, <3>2, Zenon
    <3>. QED
      BY <1>1, <2>1, <3>1, <3>2
  <2>2. CASE r \in F /\ \A b \in batch : ~(b.key = r.key /\ b.origin = r.origin)
    <3>1. r \in Of(o, F)
      BY <1>4, <2>2 DEF Of
    <3>2. r.key \in wanted \/ Record(r.key, o, FALSE) \in batch
      BY <1>1, <3>1
    <3>. QED
      BY <1>2, <1>4, <2>2, <3>2
  <2>. QED
    BY <1>3, <2>1, <2>2
<1>5. ASSUME NEW k \in wanted PROVE k \in ActiveKeys(o, G)
  <2>1. Record(k, o, TRUE) \in G
    BY <1>1, <1>3
  <2>. QED
    <3>. DEFINE r == Record(k, o, TRUE)
    <3>1. r \in G /\ r.origin = o /\ r.active /\ r.key = k
      BY <1>2, <2>1
    <3>. HIDE DEF r
    <3>2. r \in {x \in Of(o, G) : x.active}
      BY <3>1 DEF Of
    <3>. QED
      BY <3>1, <3>2 DEF ActiveKeys
<1>6. ActiveKeys(o, G) \subseteq wanted
  BY <1>4 DEF ActiveKeys, Of
<1>7. ActiveKeys(o, G) = wanted
  BY <1>5, <1>6
<1>. QED
  BY <1>7 DEF wanted, batch, G

\* The inferred links change when a sync writes them, and at no other time.
LEMMA InferredKept ==
  ASSUME [Next]_vars
  PROVE  \/ Of("inferred", evidence') = Of("inferred", evidence)
         \/ \E c \in Callers : WriteInferred(c)
<1>1. ASSUME NEW c \in Callers, WriteDerived(c)
      PROVE  Of("inferred", evidence') = Of("inferred", evidence)
  <2>. DEFINE w == ops[c].world
              batch == Replacement("derived", DerivedDrafts(w), w, ops[c].evidence)
  <2>1. evidence' = SaveMany(evidence, batch)
    BY <1>1 DEF WriteDerived
  <2>2. \A r \in batch : r.origin # "inferred"
    BY ReplacementOrigin
  <2>. HIDE DEF batch
  <2>. QED
    BY <2>1, <2>2, OtherOrigin
<1>2. ASSUME NEW c \in Callers, SaveDecision(c)
      PROVE  Of("inferred", evidence') = Of("inferred", evidence)
  <2>. DEFINE batch == {Record(ops[c].key, "manual", ops[c].active)}
  <2>1. evidence' = SaveMany(evidence, batch)
    BY <1>2 DEF SaveDecision
  <2>2. \A r \in batch : r.origin # "inferred"
    BY DEF Record
  <2>. HIDE DEF batch
  <2>. QED
    BY <2>1, <2>2, OtherOrigin
<1>3. CASE \/ WorldStep \/ UNCHANGED vars
           \/ \E c \in Callers :
                \/ \E inferring \in BOOLEAN : BeginSync(c, inferring)
                \/ EndSnapshot(c)
                \/ \E l, active : Decide(c, l, active)
                \/ ReportDecision(c)
                \/ CutShort(c)
  BY <1>3 DEF WorldStep, vars, BeginSync, EndSnapshot, Decide, ReportDecision, CutShort
<1>. QED
  BY <1>1, <1>2, <1>3 DEF Next, CreateManual, RemoveLink

LEMMA RedundantStep ==
  ASSUME GraphInv, NoRedundant, [Next]_vars
  PROVE  NoRedundant'
<1>1. CASE Of("inferred", evidence') = Of("inferred", evidence)
  BY <1>1 DEF NoRedundant, ActiveKeys
<1>2. ASSUME NEW c \in Callers, WriteInferred(c) PROVE NoRedundant'
  <2>. DEFINE w == ops[c].world
              drafts == InferredDrafts(w)
              batch == Replacement("inferred", drafts, w, ops[c].evidence)
  <2>1. /\ ops[c].at = "infer"
        /\ evidence' = SaveMany(evidence, batch) \/ evidence' = evidence
    BY <1>2 DEF WriteInferred
  <2>2. /\ w \in World /\ world \in World
        /\ Of("inferred", ops[c].evidence) = Of("inferred", evidence)
    BY <2>1, OpFields DEF Snapshots, SnapshotHolds, GraphInv, TypeOK
  <2>3. ActiveKeys("inferred", SaveMany(evidence, batch)) \subseteq drafts
    BY <2>2, Replaced
  <2>4. \A k, l \in drafts : k.type = "related_to" /\ l.type # "related_to" => Ends(k) # Ends(l)
    BY <2>2, WithMemoriesWorld, InferredKeys DEF InferredDrafts
  <2>. HIDE DEF drafts, batch
  <2>5. CASE evidence' = SaveMany(evidence, batch)
    BY <2>3, <2>4, <2>5 DEF NoRedundant
  <2>. QED
    BY <1>1, <2>1, <2>5
<1>. QED
  BY <1>1, <1>2, InferredKept

\* No pair is shown as related and with a recorded link at once, whatever was
\* decided, synced and changed before (inferRelationships).
THEOREM NeverRedundant == Spec => []NoRedundant
<1>1. Init => NoRedundant
  BY DEF Init, NoRedundant, ActiveKeys, Of
<1>2. GraphInv /\ NoRedundant /\ [Next]_vars => NoRedundant'
  BY RedundantStep
<1>. QED
  BY <1>1, <1>2, GraphInvariant, PTL DEF Spec

\* When nothing has changed since the snapshot, the drafts are what the stores
\* speak of,
LEMMA DraftsTrue ==
  ASSUME world \in World, NEW w \in World, w.queue = world.queue,
         w.conflicts = world.conflicts, w.dups = world.dups
  PROVE  DerivedDrafts(w) = TrueDerived
<1>1. ASSUME NEW k \in DerivedDrafts(w) PROVE k \in TrueDerived
  <2>0. k \in Keys
    BY DerivedKeys
  <2>1. CASE \E i \in w.queue : \E j \in w.conflicts[i] :
               k = Link(Candidate(i), "conflicts_with", Memory(j))
    BY <2>0, <2>1 DEF TrueDerived, Link, Candidate, Memory
  <2>2. CASE \E d \in w.dups : k = Link(Candidate(d[1]), "duplicate_of", d[2])
    <3>1. PICK d \in w.dups : k = Link(Candidate(d[1]), "duplicate_of", d[2])
      BY <2>2
    <3>2. d = <<d[1], d[2]>>
      BY DEF World
    <3>3. /\ k.source.kind = "candidate" /\ k.source.id = d[1] /\ k.type = "duplicate_of"
          /\ k.target = d[2]
      BY <3>1 DEF Link, Candidate
    <3>. QED
      BY <2>0, <3>2, <3>3 DEF TrueDerived
  <2>. QED
    BY <2>1, <2>2 DEF DerivedDrafts
<1>2. ASSUME NEW k \in TrueDerived PROVE k \in DerivedDrafts(w)
  <2>1. /\ k \in Keys /\ k.source.kind = "candidate"
    BY DEF TrueDerived
  <2>2. /\ k = Link(k.source, k.type, k.target) /\ k.source = Candidate(k.source.id)
        /\ k.target.kind = "memory" => k.target = Memory(k.target.id)
    BY <2>1 DEF Keys, Refs, Link, Candidate, Memory
  <2>3. CASE /\ k.type = "conflicts_with" /\ k.target.kind = "memory"
             /\ k.source.id \in world.queue
             /\ k.target.id \in world.conflicts[k.source.id]
    <3>1. k = Link(Candidate(k.source.id), "conflicts_with", Memory(k.target.id))
      BY <2>2, <2>3
    <3>. QED
      BY <2>3, <3>1 DEF DerivedDrafts
  <2>4. CASE k.type = "duplicate_of" /\ <<k.source.id, k.target>> \in world.dups
    <3>. DEFINE d == <<k.source.id, k.target>>
    <3>1. k = Link(Candidate(d[1]), "duplicate_of", d[2]) /\ d \in w.dups
      BY <2>2, <2>4
    <3>. QED
      BY <3>1 DEF DerivedDrafts
  <2>. QED
    BY <2>3, <2>4 DEF TrueDerived
<1>. QED
  BY <1>1, <1>2

\* and both ends of each exist.
LEMMA DraftsEligible ==
  ASSUME world \in World, Known, NEW w \in World, w.queue = world.queue,
         w.conflicts = world.conflicts, w.dups = world.dups, NEW k \in DerivedDrafts(w)
  PROVE  \A r \in Ends(k) : Eligible(w, r)
<1>1. CASE \E i \in w.queue : \E j \in w.conflicts[i] :
             k = Link(Candidate(i), "conflicts_with", Memory(j))
  <2>0. PICK i \in w.queue : \E j \in w.conflicts[i] :
          k = Link(Candidate(i), "conflicts_with", Memory(j))
    BY <1>1
  <2>1. PICK j \in w.conflicts[i] : k = Link(Candidate(i), "conflicts_with", Memory(j))
    BY <2>0
  <2>2. i \in EligibleCandidates(w) /\ j \in Stored(world)
    BY DEF EligibleCandidates, Known
  <2>3. Eligible(w, Candidate(i)) /\ Eligible(w, Memory(j))
    BY <2>2 DEF Eligible, Candidate, Memory
  <2>4. Ends(k) = {Candidate(i), Memory(j)}
    BY <2>1 DEF Ends, Link
  <2>. QED
    BY <2>3, <2>4
<1>2. CASE \E d \in w.dups : k = Link(Candidate(d[1]), "duplicate_of", d[2])
  <2>1. PICK d \in w.dups : k = Link(Candidate(d[1]), "duplicate_of", d[2])
    BY <1>2
  <2>2. d[1] \in EligibleCandidates(w)
    BY DEF EligibleCandidates
  <2>3. d[2] \in Refs
    BY DEF World
  <2>4. d[2].kind = "candidate" => d[2].id \in EligibleCandidates(w)
    BY DEF EligibleCandidates
  <2>5. d[2].kind # "candidate" => d[2].id \in Stored(world)
    BY <2>3 DEF Known, Refs
  <2>6. Eligible(w, Candidate(d[1])) /\ Eligible(w, d[2])
    BY <2>2, <2>4, <2>5 DEF Eligible, Candidate
  <2>7. Ends(k) = {Candidate(d[1]), d[2]}
    BY <2>1 DEF Ends, Link
  <2>. QED
    BY <2>6, <2>7
<1>. QED
  BY <1>1, <1>2 DEF DerivedDrafts

\* While an operation is between its snapshot and its derived links, no other
\* step writes a link.
LEMMA OnlyItsOwn ==
  ASSUME GraphInv, [Next]_vars, NEW c \in Callers, ops[c].at = "derive", evidence' # evidence
  PROVE  WriteDerived(c)
<1>1. \A d \in Callers : ops[d].at \in {"derive", "infer", "save"} => d = c
  BY DEF GraphInv, Alone, Idle
<1>2. ops[c].at # "infer" /\ ops[c].at # "save"
  OBVIOUS
<1>3. \A d \in Callers : ~WriteInferred(d) /\ ~SaveDecision(d)
  BY <1>1, <1>2, Zenon DEF WriteInferred, SaveDecision
<1>4. \A d \in Callers : WriteDerived(d) => d = c
  BY <1>1 DEF WriteDerived
<1>5. ~WorldStep /\ ~UNCHANGED vars
  BY DEF WorldStep, vars
<1>6. \A d \in Callers :
        /\ \A inferring \in BOOLEAN : ~BeginSync(d, inferring)
        /\ ~EndSnapshot(d) /\ ~ReportDecision(d) /\ ~CutShort(d)
        /\ \A k : ~CreateManual(d, k) /\ ~RemoveLink(d, k)
  BY DEF BeginSync, EndSnapshot, ReportDecision, CutShort, CreateManual, RemoveLink, Decide
<1>. QED
  BY <1>3, <1>4, <1>5, <1>6, Zenon DEF Next

LEMMA ExactStep ==
  ASSUME GraphInv, [Next]_vars, NEW c \in Callers, ops[c].at = "derive", evidence' # evidence,
         Undisturbed(c)
  PROVE  ActiveKeys("derived", evidence') = TrueDerived
<1>. DEFINE w == ops[c].world
            batch == Replacement("derived", DerivedDrafts(w), w, ops[c].evidence)
<1>1. evidence' = SaveMany(evidence, batch)
  BY OnlyItsOwn DEF WriteDerived
<1>2. /\ world \in World /\ w \in World /\ Known /\ ops[c].evidence = evidence
      /\ w.queue = world.queue /\ w.conflicts = world.conflicts /\ w.dups = world.dups
  BY OpFields DEF GraphInv, TypeOK, SnapshotHolds, Undisturbed, Snapshots
<1>3. ActiveKeys("derived", SaveMany(evidence, batch))
        = {k \in DerivedDrafts(w) : \A r \in Ends(k) : Eligible(w, r)}
  BY <1>2, Replaced
<1>. HIDE DEF w, batch
<1>4. DerivedDrafts(w) = TrueDerived
  BY <1>2, DraftsTrue
<1>5. \A k \in DerivedDrafts(w) : \A r \in Ends(k) : Eligible(w, r)
  BY <1>2, DraftsEligible
<1>. QED
  BY <1>1, <1>3, <1>4, <1>5

\* A sync that nothing disturbed leaves exactly the derived links the stores
\* speak of (syncDerivedUnlocked).
THEOREM DerivedAlwaysExact == Spec => DerivedExact
<1>1. ASSUME GraphInv, [Next]_vars
      PROVE  [\A c \in Callers :
                ops[c].at = "derive" /\ evidence' # evidence /\ Undisturbed(c)
                  => ActiveKeys("derived", evidence') = TrueDerived]_vars
  BY <1>1, ExactStep
<1>. QED
  BY <1>1, GraphInvariant, PTL DEF Spec, DerivedExact

----------------------------------------------------------------------------
(* The caps and the budget *)

\* Fewer links have fewer ends.
LEMMA FewerEnds ==
  ASSUME NEW S \in SUBSET Keys, NEW T \in SUBSET S, NEW r
  PROVE  Degree(S, r) \in Nat /\ Degree(T, r) \in Nat /\ Degree(T, r) <= Degree(S, r)
<1>. DEFINE A == {k \in S : r \in Ends(k)}
            B == {k \in T : r \in Ends(k)}
<1>1. A \in SUBSET Keys /\ B \in SUBSET A
  OBVIOUS
<1>2. Degree(S, r) = Cardinality(A) /\ Degree(T, r) = Cardinality(B)
  BY DEF Degree
<1>. HIDE DEF A, B
<1>3. IsFiniteSet(A)
  BY <1>1, KeysFinite, FS_Subset
<1>4. IsFiniteSet(B) /\ Cardinality(B) <= Cardinality(A)
  BY <1>1, <1>3, FS_Subset
<1>. QED
  BY <1>2, <1>3, <1>4, FS_CardinalityType

Bounded(links, r) ==
  /\ Degree({k \in links : k.type = "related_to"}, r) <= MaxLinks
  /\ Degree({k \in links : k.type # "related_to"}, r) <= MaxMetadataLinks

LEMMA InferredBounded ==
  ASSUME NEW w \in World, NEW links \in SUBSET Inferred(w), NEW r
  PROVE  Bounded(links, r)
<1>. DEFINE L == {k \in links : k.type = "related_to"}
            M == {k \in links : k.type # "related_to"}
<1>1. /\ RelatedLinks(w) \in SUBSET Keys /\ MetadataLinks(w) \in SUBSET Keys
      /\ L \in SUBSET RelatedLinks(w) /\ M \in SUBSET MetadataLinks(w)
  BY InferredParts, InferredKeys
<1>2. Degree(RelatedLinks(w), r) <= MaxLinks /\ Degree(MetadataLinks(w), r) <= MaxMetadataLinks
  BY InferredParts, CappedLinks, InferenceAssumption DEF RelatedLinks, MetadataLinks
<1>. HIDE DEF L, M
<1>3. Degree(L, r) <= MaxLinks
  BY <1>1, <1>2, FewerEnds, InferenceAssumption
<1>4. Degree(M, r) <= MaxMetadataLinks
  BY <1>1, <1>2, FewerEnds, InferenceAssumption
<1>. QED
  BY <1>3, <1>4 DEF Bounded, L, M

LEMMA BoundedStep ==
  ASSUME GraphInv, DegreesBounded, [Next]_vars
  PROVE  DegreesBounded'
<1>1. CASE Of("inferred", evidence') = Of("inferred", evidence)
  BY <1>1 DEF DegreesBounded, ActiveKeys, Degree
<1>2. ASSUME NEW c \in Callers, WriteInferred(c) PROVE DegreesBounded'
  <2>. DEFINE w == ops[c].world
              drafts == InferredDrafts(w)
              batch == Replacement("inferred", drafts, w, ops[c].evidence)
              links == ActiveKeys("inferred", SaveMany(evidence, batch))
  <2>1. /\ ops[c].at = "infer"
        /\ evidence' = SaveMany(evidence, batch) \/ evidence' = evidence
    BY <1>2 DEF WriteInferred
  <2>2. /\ w \in World /\ world \in World
        /\ Of("inferred", ops[c].evidence) = Of("inferred", evidence)
    BY <2>1, OpFields DEF Snapshots, SnapshotHolds, GraphInv, TypeOK
  <2>3. links \subseteq drafts
    BY <2>2, Replaced
  <2>4. WithMemories(w) \in World /\ drafts \subseteq Inferred(WithMemories(w))
    BY <2>2, WithMemoriesWorld DEF InferredDrafts
  <2>5. CASE evidence' = SaveMany(evidence, batch)
    <3>1. ActiveKeys("inferred", evidence') = links
      BY <2>5
    <3>. HIDE DEF drafts, batch, links
    <3>2. \A r : Bounded(links, r)
      BY <2>3, <2>4, InferredBounded
    <3>. QED
      BY <3>1, <3>2 DEF DegreesBounded, Bounded, Degree
  <2>. HIDE DEF drafts, batch
  <2>. QED
    BY <1>1, <2>1, <2>5
<1>. QED
  BY <1>1, <1>2, InferredKept

\* The candidates considered are a fifth of the budget, or all there are.
LEMMA Guaranteed == ASSUME world \in World PROVE NotStarved
<1>. DEFINE Q == {Candidate(i) : i \in world.queue}
            share == (MaxEntities + 4) \div 5
            D == {r \in Considered(world) : r.kind = "candidate"}
<1>1. share \in Nat
  BY InferenceAssumption
<1>2. world.queue \subseteq Ids
  BY DEF World
<1>3. Q \in SUBSET Refs /\ \A r \in Q : r.kind = "candidate"
  BY <1>2, RefsAreRefs
<1>4. Reserved(world) = FirstOf(Q, RefRank, share)
  BY DEF Reserved
<1>5. D \subseteq Q /\ Reserved(world) \cap Q \subseteq D /\ D \in SUBSET Refs
  <2>1. Considered(world) \subseteq Entities(world) /\ Entities(world) \subseteq Refs
    BY ConsideredRefs
  <2>2. \A r \in Entities(world) : r.kind = "candidate" => r \in Q
    BY RefsAreRefs DEF Entities, Stored
  <2>3. Reserved(world) \subseteq Considered(world)
    BY DEF Considered
  <2>. HIDE DEF Q
  <2>. QED
    BY <1>3, <2>1, <2>2, <2>3
<1>6. Cardinality(Q) = Cardinality(world.queue)
  <2>. DEFINE f == [i \in world.queue |-> Candidate(i)]
  <2>1. f \in Bijection(world.queue, Q)
    BY <1>2, RefsAreRefs DEF Bijection, Injection, Surjection, IsInjective
  <2>2. IsFiniteSet(world.queue)
    <3>1. IsFiniteSet(Ids)
      BY FS_Interval, InferenceAssumption DEF Ids
    <3>. QED
      BY <1>2, <3>1, FS_Subset
  <2>. HIDE DEF f, Q
  <2>. QED
    BY <2>1, <2>2, FS_Bijection DEF ExistsBijection
<1>. HIDE DEF Q, share, D
<1>7. IsFiniteSet(D) /\ Cardinality(D) \in Nat
  BY <1>5, RefsFinite, FS_Subset, FS_CardinalityType
<1>8. Ranked(Q, RefRank)
  BY <1>3, EntitiesRanked
<1>9. Reserved(world) = Q \/ Cardinality(Reserved(world)) >= share
  BY <1>1, <1>4, <1>8, FirstCount
<1>10. CASE Reserved(world) = Q
  <2>1. D = Q
    BY <1>5, <1>10
  <2>. QED
    BY <1>6, <2>1 DEF NotStarved, D
<1>11. CASE Cardinality(Reserved(world)) >= share
  <2>1. Reserved(world) \in SUBSET D
    BY <1>4, <1>5 DEF FirstOf
  <2>2. Cardinality(Reserved(world)) <= Cardinality(D) /\ IsFiniteSet(Reserved(world))
    BY <1>7, <2>1, FS_Subset
  <2>3. Cardinality(Reserved(world)) \in Nat
    BY <2>2, FS_CardinalityType
  <2>4. Cardinality(D) >= share
    BY <1>1, <1>7, <1>11, <2>2, <2>3
  <2>. QED
    BY <2>4 DEF NotStarved, D, share
<1>. QED
  BY <1>9, <1>10, <1>11

\* No entity has more links than the caps allow, and candidates are not
\* starved by memories, for any caps and budget (inferRelationships,
\* collectEntities).
THEOREM AlwaysProper == Spec => []ProperGraph
<1>1. Init => DegreesBounded
  <2>. SUFFICES ASSUME Init PROVE DegreesBounded
    OBVIOUS
  <2>1. ActiveKeys("inferred", evidence) = {}
    BY DEF Init, ActiveKeys, Of
  <2>2. world \in World
    BY InitGraph DEF GraphInv, TypeOK
  <2>3. \A r : Bounded({}, r)
    BY <2>2, InferredBounded
  <2>. QED
    BY <2>1, <2>3 DEF DegreesBounded, Bounded
<1>2. GraphInv /\ DegreesBounded /\ [Next]_vars => DegreesBounded'
  BY BoundedStep
<1>3. GraphInv /\ DegreesBounded => ProperGraph
  BY Guaranteed DEF GraphInv, TypeOK, ProperGraph
<1>. QED
  BY <1>1, <1>2, <1>3, GraphInvariant, PTL DEF Spec

----------------------------------------------------------------------------
(* The inferred links of an undisturbed sync *)

\* An operation that ends there, and is not cut short, has written its inferred
\* links.
LEMMA OnlyItWrites ==
  ASSUME GraphInv, [Next]_vars, NEW c \in Callers, ops[c].at = "infer", ops'[c] = Idle,
         failures' = failures
  PROVE  WriteInferred(c)
<1>1. ops[c] # Idle /\ ops[c] \in Ops
  BY DEF GraphInv, TypeOK, Idle
<1>2. \A d \in Callers : d # c => ops[d].at = "idle"
  BY <1>1 DEF GraphInv, Alone, Idle
<1>3. \A d \in Callers : ~Free(d)
  BY <1>1 DEF Free
<1>4. ~WorldStep /\ ~UNCHANGED vars
  BY <1>1 DEF WorldStep, vars
<1>5. \A d \in Callers :
        /\ \A inferring \in BOOLEAN : ~BeginSync(d, inferring)
        /\ \A k : ~CreateManual(d, k) /\ ~RemoveLink(d, k)
  BY <1>3 DEF BeginSync, CreateManual, RemoveLink, Decide
<1>6. \A d \in Callers :
        ~EndSnapshot(d) /\ ~WriteDerived(d) /\ ~SaveDecision(d) /\ ~ReportDecision(d)
  BY <1>2 DEF EndSnapshot, WriteDerived, SaveDecision, ReportDecision
<1>7. \A d \in Callers : WriteInferred(d) => d = c
  BY <1>2 DEF WriteInferred
<1>8. \A d \in Callers : ~CutShort(d)
  BY DEF CutShort, GraphInv, TypeOK
<1>. QED
  BY <1>4, <1>5, <1>6, <1>7, <1>8, Zenon DEF Next

\* With the memories it lists, the sync knows the world as it is.
LEMMA WorldKnown ==
  ASSUME world \in World, NEW w \in World, w.queue = world.queue,
         w.conflicts = world.conflicts, w.dups = world.dups, w.supers = world.supers
  PROVE  WithMemories(w) = world
<1>. DEFINE v == WithMemories(w)
<1>1. /\ v.queue = world.queue /\ v.conflicts = world.conflicts /\ v.dups = world.dups
      /\ v.memories = world.memories /\ v.supers = world.supers
  BY DEF WithMemories, World
<1>2. v \in World
  BY WithMemoriesWorld
<1>. HIDE DEF v
<1>3. v = world
  BY <1>1, <1>2 DEF World
<1>. QED
  BY <1>3 DEF v

LEMMA EntitiesEligible ==
  ASSUME NEW w, w.queue = world.queue, NEW r \in Entities(world)
  PROVE  Eligible(w, r)
<1>1. CASE \E i \in world.queue : r = Candidate(i)
  BY <1>1 DEF Eligible, EligibleCandidates, Candidate
<1>2. CASE \E i \in Stored(world) : r = Memory(i)
  BY <1>2 DEF Eligible, Memory
<1>. QED
  BY <1>1, <1>2 DEF Entities

\* What is inferred and not derived is what inferRelationships promises.
LEMMA InferredProper ==
  ASSUME world \in World
  PROVE  ProperlyInferred(Inferred(world) \ TrueDerived)
<1>. DEFINE all == Metadata(world, Considered(world))
            X == Inferred(world) \ TrueDerived
            M == MetadataLinks(world)
            L == RelatedLinks(world)
            metadata == {k \in X : k.type # "related_to"}
<1>1. \A k \in TrueDerived : k.type # "related_to"
  BY DEF TrueDerived
<1>2. /\ Inferred(world) = M \cup L /\ M \subseteq all
      /\ all \in SUBSET Keys /\ Resembling(world) \in SUBSET Keys
  BY InferredParts
<1>3. (\A k \in M : k.type # "related_to") /\ \A k \in L : k.type = "related_to"
  BY InferredKeys
<1>4. CapKernel(all, KeyRank, MaxMetadataLinks, M)
  BY <1>2, CappedLinks, InferenceAssumption DEF MetadataLinks
<1>5. CapKernel(Resembling(world), RelatedRank, MaxLinks, L)
  BY <1>2, CappedLinks, InferenceAssumption DEF RelatedLinks
<1>6. M = Capped(all, KeyRank, MaxMetadataLinks)
  BY DEF MetadataLinks
<1>7. Resembling(world) = Related(Considered(world), {Ends(k) : k \in all})
  BY DEF Resembling, Linked
<1>. HIDE DEF M, L, all
<1>8. metadata = M \ (all \cap TrueDerived)
  BY <1>2, <1>3
<1>9. X \ metadata = L
  BY <1>1, <1>2, <1>3
<1>. HIDE DEF X, metadata
<1>10. ProperlyInferred(X)
  BY <1>4, <1>5, <1>6, <1>7, <1>8, <1>9, Zenon DEF ProperlyInferred, all, metadata
<1>. QED
  BY <1>10 DEF X

LEMMA InferredStep ==
  ASSUME GraphInv, [Next]_vars, NEW c \in Callers, ops[c].at = "infer", ops'[c] = Idle,
         failures' = failures, Undisturbed(c)
  PROVE  ProperlyInferred(ActiveKeys("inferred", evidence'))
<1>. DEFINE w == ops[c].world
            drafts == InferredDrafts(w)
            batch == Replacement("inferred", drafts, w, ops[c].evidence)
<1>1. evidence' = IF Valid(drafts) THEN SaveMany(evidence, batch) ELSE evidence
  BY OnlyItWrites DEF WriteInferred
<1>2. /\ world \in World /\ w \in World
      /\ Of("inferred", ops[c].evidence) = Of("inferred", evidence)
      /\ w.queue = world.queue /\ w.conflicts = world.conflicts
      /\ w.dups = world.dups /\ w.supers = world.supers
  BY OpFields DEF GraphInv, TypeOK, SnapshotHolds, Undisturbed, Snapshots
<1>3. drafts = Inferred(world) \ TrueDerived
  <2>1. WithMemories(w) = world /\ DerivedDrafts(w) = TrueDerived
    BY <1>2, WorldKnown, DraftsTrue
  <2>. QED
    BY <2>1 DEF InferredDrafts
<1>4. ActiveKeys("inferred", SaveMany(evidence, batch))
        = {k \in drafts : \A r \in Ends(k) : Eligible(w, r)}
  BY <1>2, Replaced
<1>. HIDE DEF w, drafts, batch
<1>5. \A k \in drafts : k.source # k.target /\ Ends(k) \subseteq Entities(world)
  BY <1>2, <1>3, InferredKeys
<1>6. \A k \in drafts : \A r \in Ends(k) : Eligible(w, r)
  BY <1>2, <1>5, EntitiesEligible
<1>7. Valid(drafts)
  BY <1>5 DEF Valid
<1>8. ActiveKeys("inferred", evidence') = Inferred(world) \ TrueDerived
  BY <1>1, <1>3, <1>4, <1>6, <1>7
<1>. QED
  BY <1>2, <1>8, InferredProper

\* A sync that nothing disturbed leaves exactly the inferred links that the
\* caps leave of what the stores imply (syncInferredUnlocked).
THEOREM InferredAlwaysExact == Spec => InferredExact
<1>1. ASSUME GraphInv, [Next]_vars
      PROVE  [\A c \in Callers :
                ops[c].at = "infer" /\ ops'[c] = Idle /\ failures' = failures /\ Undisturbed(c)
                  => ProperlyInferred(ActiveKeys("inferred", evidence'))]_vars
  BY <1>1, InferredStep
<1>. QED
  BY <1>1, GraphInvariant, PTL DEF Spec, InferredExact

----------------------------------------------------------------------------
(* What the user decided is reported *)

\* A manual link is reported, or on its way.
Reported(r, V, O) ==
  \/ \E e \in V : e.key = r.key /\ e.active = r.active
  \/ \E c \in Callers : O[c].at = "report" /\ O[c].key = r.key

Unreported(E, V, O) == {r \in Of("manual", E) : ~Reported(r, V, O)}

\* What is to be reported has been saved, and stands.
ReportsSaved ==
  \A c \in Callers :
    ops[c].at = "report" => Record(ops[c].key, "manual", ops[c].active) \in evidence

ReportInv ==
  /\ IsFiniteSet(Of("manual", evidence))
  /\ Cardinality(Unreported(evidence, events, ops)) <= failures
  /\ ReportsSaved

LEMMA InitReports == Init => ReportInv
<1>. SUFFICES ASSUME Init PROVE ReportInv
  OBVIOUS
<1>1. Of("manual", evidence) = {} /\ Unreported(evidence, events, ops) = {}
  BY DEF Init, Of, Unreported
<1>2. ReportsSaved
  BY DEF Init, Idle, ReportsSaved
<1>. QED
  BY <1>1, <1>2, FS_EmptySet DEF Init, ReportInv

\* Fewer unreported links are no more than there were.
LEMMA FewerUnreported ==
  ASSUME ReportInv, NEW E, NEW V, NEW O, Unreported(E, V, O) \subseteq Unreported(evidence, events, ops)
  PROVE  Cardinality(Unreported(E, V, O)) <= Cardinality(Unreported(evidence, events, ops))
<1>1. IsFiniteSet(Unreported(evidence, events, ops))
  BY FS_Subset DEF ReportInv, Unreported
<1>. QED
  BY <1>1, FS_Subset

LEMMA ReportsStep ==
  ASSUME GraphInv, ReportInv, [Next]_vars
  PROVE  ReportInv'
<1>0. /\ OnePerLink(evidence) /\ IInv /\ Alone /\ \A c \in Callers : ops[c] \in Ops
      /\ failures \in Nat
  BY DEF GraphInv, TypeOK, OnePerLink
<1>. DEFINE U == Unreported(evidence, events, ops)
<1>f. IsFiniteSet(U) /\ Cardinality(U) \in Nat /\ Cardinality(U) <= failures
  BY FS_Subset, FS_CardinalityType DEF ReportInv, Unreported
\* What is done of the manual links, the reports and the failures.
<1>1. ASSUME UNCHANGED <<evidence, events, ops, failures>> PROVE ReportInv'
  BY <1>1 DEF ReportInv, ReportsSaved, Unreported, Reported
<1>2. ASSUME NEW c \in Callers, NEW op \in Ops, Free(c) \/ ops[c] # Idle, Move(c, op),
             ops[c].at # "report", op.at # "report",
             Of("manual", evidence') = Of("manual", evidence), events' = events,
             failures' \in Nat, failures <= failures'
      PROVE  ReportInv'
  <2>1. /\ ops'[c] = op
        /\ \A d \in Callers : d # c => ops[d] = Idle /\ ops'[d] = Idle
    BY <1>0, <1>2, MovedAlone
  <2>2. \A d \in Callers : ops[d].at # "report" /\ ops'[d].at # "report"
    BY <1>2, <2>1 DEF Idle
  <2>3. Unreported(evidence', events', ops') = U
    BY <1>2, <2>2 DEF Unreported, Reported
  <2>4. Unreported(evidence, events, ops)' = Unreported(evidence', events', ops')
    BY DEF Unreported, Reported
  <2>. HIDE DEF U
  <2>5. IsFiniteSet(Of("manual", evidence'))
    BY <1>2 DEF ReportInv
  <2>6. ReportsSaved'
    BY <2>2 DEF ReportsSaved
  <2>7. Cardinality(Unreported(evidence', events', ops')) <= failures'
    BY <1>0, <1>2, <1>f, <2>3
  <2>. QED
    BY <2>5, <2>6, <2>7 DEF ReportInv
<1>3. ASSUME NEW c \in Callers, NEW inferring \in BOOLEAN, BeginSync(c, inferring) PROVE ReportInv'
  <2>1. PICK first \in {"queue", "audit"} :
          Move(c, [at |-> first, inferring |-> inferring, world |-> world])
    BY <1>3 DEF BeginSync
  <2>. DEFINE op == [at |-> first, inferring |-> inferring, world |-> world]
  <2>2. op \in Ops /\ op.at # "report"
    BY OpTypes DEF GraphInv, TypeOK
  <2>3. /\ Free(c) /\ ops[c].at # "report"
        /\ UNCHANGED <<evidence, events, failures>>
    BY <1>3 DEF BeginSync, Free, Idle
  <2>. HIDE DEF op
  <2>. QED
    BY <1>0, <1>2, <2>1, <2>2, <2>3 DEF op
<1>4. ASSUME NEW c \in Callers, EndSnapshot(c) PROVE ReportInv'
  <2>. DEFINE op == [at |-> "derive", inferring |-> ops[c].inferring,
                     world |-> Snapshot(ops[c]), evidence |-> evidence]
  <2>1. /\ Move(c, op) /\ ops[c].at \in {"queue", "audit"}
        /\ UNCHANGED <<evidence, events, failures>>
    BY <1>4 DEF EndSnapshot
  <2>2. /\ ops[c].world \in World /\ ops[c].inferring \in BOOLEAN /\ ops[c] # Idle
        /\ world \in World /\ evidence \in SUBSET Records
    BY <1>0, <2>1, OpFields DEF Snapshots, GraphInv, TypeOK
  <2>3. op \in Ops /\ op.at = "derive"
    BY <2>2, SnapshotWorld, OpTypes
  <2>. HIDE DEF op
  <2>. QED
    BY <1>0, <1>2, <2>1, <2>2, <2>3
<1>5. ASSUME NEW c \in Callers, WriteDerived(c) PROVE ReportInv'
  <2>. DEFINE w == ops[c].world
              batch == Replacement("derived", DerivedDrafts(w), w, ops[c].evidence)
              op == [at |-> "infer", inferring |-> TRUE, world |-> w, evidence |-> ops[c].evidence]
  <2>1. /\ ops[c].at = "derive" /\ evidence' = SaveMany(evidence, batch)
        /\ Move(c, IF ops[c].inferring THEN op ELSE Idle)
        /\ UNCHANGED <<events, failures>>
    BY <1>5 DEF WriteDerived
  <2>2. \A r \in batch : r.origin # "manual"
    BY ReplacementOrigin
  <2>3. w \in World /\ ops[c].evidence \in SUBSET Records /\ ops[c] # Idle
    BY <1>0, <2>1, OpFields DEF Snapshots
  <2>4. /\ op \in Ops /\ op.at # "report" /\ Idle \in Ops /\ Idle.at # "report"
    BY <2>3, OpTypes DEF Idle
  <2>. HIDE DEF batch, op, w
  <2>5. Of("manual", evidence') = Of("manual", evidence)
    BY <2>1, <2>2, OtherOrigin
  <2>. QED
    BY <1>0, <1>2, <2>1, <2>3, <2>4, <2>5
<1>6. ASSUME NEW c \in Callers, WriteInferred(c) PROVE ReportInv'
  <2>. DEFINE w == ops[c].world
              batch == Replacement("inferred", InferredDrafts(w), w, ops[c].evidence)
  <2>1. /\ ops[c].at = "infer" /\ Move(c, Idle)
        /\ evidence' = SaveMany(evidence, batch) \/ evidence' = evidence
        /\ UNCHANGED <<events, failures>>
    BY <1>6 DEF WriteInferred
  <2>2. \A r \in batch : r.origin # "manual"
    BY ReplacementOrigin
  <2>3. ops[c] # Idle /\ Idle \in Ops /\ Idle.at # "report"
    BY <2>1, OpTypes DEF Idle
  <2>. HIDE DEF batch
  <2>4. Of("manual", evidence') = Of("manual", evidence)
    BY <2>1, <2>2, OtherOrigin
  <2>. QED
    BY <1>0, <1>2, <2>1, <2>3, <2>4
<1>7. ASSUME NEW c \in Callers, NEW k \in Keys, NEW active \in BOOLEAN, Decide(c, k, active)
      PROVE  ReportInv'
  <2>. DEFINE op == [at |-> "save", key |-> k, active |-> active, overridden |-> SystemOrigins(k)]
  <2>1. /\ Free(c) /\ Move(c, op) /\ ops[c].at # "report"
        /\ UNCHANGED <<evidence, events, failures>>
    BY <1>7 DEF Decide, Free, Idle
  <2>2. SystemOrigins(k) \in SUBSET (Origins \ {"manual"})
    BY DEF SystemOrigins, Records, GraphInv, TypeOK
  <2>3. op \in Ops /\ op.at # "report"
    BY <2>2, OpTypes
  <2>. HIDE DEF op
  <2>. QED
    BY <1>0, <1>2, <2>1, <2>3
<1>8. ASSUME NEW c \in Callers, SaveDecision(c) PROVE ReportInv'
  <2>. DEFINE k == ops[c].key
              a == ops[c].active
              rec == Record(k, "manual", a)
              op == Reporting(ops[c])
  <2>1. /\ ops[c].at = "save" /\ evidence' = SaveMany(evidence, {rec}) /\ Move(c, op)
        /\ UNCHANGED <<events, failures>>
    BY <1>8 DEF SaveDecision
  <2>2. /\ k \in Keys /\ a \in BOOLEAN /\ ops[c].overridden \in SUBSET (Origins \ {"manual"})
        /\ ops[c] # Idle
    BY <1>0, <2>1, OpFields DEF SavesLinks
  <2>3. op \in Ops /\ op.at = "report" /\ op.key = k /\ op.active = a
    BY <2>2, OpTypes DEF Reporting
  <2>4. rec.key = k /\ rec.origin = "manual"
    BY RecordFields
  <2>. HIDE DEF k, a, op, rec
  <2>5. /\ ops'[c] = op
        /\ \A d \in Callers : d # c => ops[d] = Idle /\ ops'[d] = Idle
    BY <1>0, <2>1, <2>2, <2>3, MovedAlone
  <2>6. Of("manual", evidence') \subseteq Of("manual", evidence) \cup {rec}
    BY <2>1 DEF Of, SaveMany
  <2>7. IsFiniteSet(Of("manual", evidence'))
    <3>1. IsFiniteSet(Of("manual", evidence) \cup {rec})
      BY FS_AddElement DEF ReportInv
    <3>. QED
      BY <2>6, <3>1, FS_Subset
  <2>8. ASSUME NEW r \in Unreported(evidence', events', ops') PROVE r \in U
    <3>1. r \in Of("manual", evidence') /\ ~Reported(r, events', ops')
      BY <2>8 DEF Unreported
    <3>2. r # rec
      BY <2>3, <2>4, <2>5, <3>1 DEF Reported
    <3>3. \A d \in Callers : ops[d].at # "report"
      BY <2>1, <2>5 DEF Idle
    <3>4. ~Reported(r, events, ops)
      BY <2>1, <3>1, <3>3 DEF Reported
    <3>. QED
      BY <2>6, <3>1, <3>2, <3>4 DEF Unreported
  <2>9. ReportsSaved'
    <3>1. rec \in evidence'
      BY <2>1 DEF SaveMany
    <3>2. \A d \in Callers : ops'[d].at = "report" => d = c
      BY <2>5 DEF Idle
    <3>3. Record(ops'[c].key, "manual", ops'[c].active) = rec
      BY <2>3, <2>5 DEF rec
    <3>. QED
      BY <3>1, <3>2, <3>3 DEF ReportsSaved
  <2>10. Cardinality(Unreported(evidence', events', ops')) <= failures'
    <3>1. Cardinality(Unreported(evidence', events', ops')) <= Cardinality(U)
      BY <2>8, FewerUnreported
    <3>2. Cardinality(Unreported(evidence', events', ops')) \in Nat
      BY <2>8, <1>f, FS_Subset, FS_CardinalityType
    <3>. QED
      BY <1>0, <1>f, <2>1, <3>1, <3>2
  <2>. QED
    BY <2>7, <2>9, <2>10 DEF ReportInv
<1>9. ASSUME NEW c \in Callers, ReportDecision(c) \/ CutShort(c), ops[c].at = "report" PROVE ReportInv'
  <2>. DEFINE rec == Record(ops[c].key, "manual", ops[c].active)
  <2>1. /\ Move(c, Idle) /\ evidence' = evidence /\ ops[c] # Idle
    BY <1>9 DEF ReportDecision, CutShort, Idle
  <2>2. rec \in evidence /\ rec.key = ops[c].key /\ rec.origin = "manual" /\ rec.active = ops[c].active
    BY <1>9, RecordFields DEF ReportInv, ReportsSaved
  <2>. HIDE DEF rec
  <2>3. /\ ops'[c] = Idle
        /\ \A d \in Callers : d # c => ops[d] = Idle /\ ops'[d] = Idle
    BY <1>0, <2>1, OpTypes, MovedAlone
  <2>4. \A d \in Callers : ops'[d].at # "report"
    BY <2>3 DEF Idle
  <2>5. ReportsSaved' /\ IsFiniteSet(Of("manual", evidence'))
    BY <2>1, <2>4 DEF ReportsSaved, ReportInv
  \* Only the link that was to be reported can become one that is not.
  <2>6. ASSUME NEW r \in Unreported(evidence', events', ops'), events \subseteq events' PROVE r \in U \cup {rec}
    <3>1. r \in Of("manual", evidence) /\ ~Reported(r, events', ops')
      BY <2>1, <2>6 DEF Unreported
    <3>2. CASE r.key = ops[c].key
      BY <1>0, <2>2, <3>1, <3>2 DEF OnePerLink, Of
    <3>3. CASE r.key # ops[c].key
      <4>1. \A d \in Callers : ops[d].at = "report" => d = c
        BY <2>3 DEF Idle
      <4>2. ~Reported(r, events, ops)
        BY <2>6, <3>1, <3>3, <4>1 DEF Reported
      <4>. QED
        BY <3>1, <4>2 DEF Unreported
    <3>. QED
      BY <3>2, <3>3
  <2>7. CASE ReportDecision(c)
    <3>. DEFINE e == [key |-> ops[c].key, active |-> ops[c].active, overridden |-> ops[c].overridden]
    <3>1. events' = events \cup {e} /\ failures' = failures
      BY <2>7 DEF ReportDecision
    <3>a. e.key = rec.key /\ e.active = rec.active
      BY <2>2
    <3>. HIDE DEF e
    <3>2. Reported(rec, events', ops')
      BY <3>a, <3>1, Zenon DEF Reported
    <3>3. Unreported(evidence', events', ops') \subseteq U
      BY <2>6, <3>1, <3>2 DEF Unreported
    <3>4. Cardinality(Unreported(evidence', events', ops')) <= Cardinality(U)
      BY <3>3, FewerUnreported
    <3>5. Cardinality(Unreported(evidence', events', ops')) \in Nat
      BY <3>3, <1>f, FS_Subset, FS_CardinalityType
    <3>6. Cardinality(Unreported(evidence', events', ops')) <= failures'
      BY <1>0, <1>f, <3>1, <3>4, <3>5
    <3>. QED
      BY <2>5, <3>6 DEF ReportInv
  <2>8. CASE CutShort(c)
    <3>1. events' = events /\ failures' = failures + 1
      BY <2>8 DEF CutShort
    <3>. DEFINE X == Unreported(evidence', events', ops')
    <3>2. X \subseteq U \cup {rec}
      BY <2>6, <3>1
    <3>. HIDE DEF X, U
    <3>3. /\ IsFiniteSet(U \cup {rec}) /\ Cardinality(U \cup {rec}) \in Nat
          /\ Cardinality(U \cup {rec}) <= Cardinality(U) + 1
      <4>1. /\ IsFiniteSet(U \cup {rec})
            /\ Cardinality(U \cup {rec}) = IF rec \in U THEN Cardinality(U) ELSE Cardinality(U) + 1
        BY <1>f, FS_AddElement
      <4>. QED
        BY <1>f, <4>1
    <3>4. Cardinality(X) <= Cardinality(U \cup {rec}) /\ Cardinality(X) \in Nat
      BY <3>2, <3>3, FS_Subset, FS_CardinalityType
    <3>5. Cardinality(X) <= failures'
      BY <1>0, <1>f, <3>1, <3>3, <3>4
    <3>. QED
      BY <2>5, <3>5 DEF ReportInv, X
  <2>. QED
    BY <1>9, <2>7, <2>8
<1>10. ASSUME NEW c \in Callers, CutShort(c), ops[c].at # "report" PROVE ReportInv'
  <2>1. /\ ops[c] # Idle /\ failures' = failures + 1 /\ Move(c, Idle)
        /\ UNCHANGED <<evidence, events>>
    BY <1>10 DEF CutShort
  <2>2. Idle \in Ops /\ Idle.at # "report"
    BY OpTypes DEF Idle
  <2>3. failures' \in Nat /\ failures <= failures'
    BY <1>0, <2>1
  <2>. QED
    BY <1>0, <1>2, <1>10, <2>1, <2>2, <2>3
<1>11. ASSUME NEW c \in Callers, ReportDecision(c) PROVE ReportInv'
  BY <1>9, <1>11 DEF ReportDecision
<1>12. ASSUME NEW c \in Callers, NEW k \in Links, CreateManual(c, k) PROVE ReportInv'
  BY <1>7, <1>12, ServiceAssumption DEF CreateManual
<1>13. ASSUME NEW c \in Callers, NEW r \in evidence, RemoveLink(c, r.key) PROVE ReportInv'
  <2>1. r.key \in Keys
    BY DEF Records, GraphInv, TypeOK
  <2>. QED
    BY <1>7, <1>13, <2>1 DEF RemoveLink
<1>14. CASE WorldStep \/ UNCHANGED vars
  BY <1>1, <1>14 DEF WorldStep, vars
<1>. QED
  BY <1>3, <1>4, <1>5, <1>6, <1>8, <1>9, <1>10, <1>11, <1>12, <1>13, <1>14 DEF Next

\* A manual decision that is not on its way, and was not cut short, is in the
\* audit log: each failure leaves at most one decision unreported.
THEOREM DecisionsAlwaysReported == Spec => []DecisionsReported
<1>1. GraphInv /\ ReportInv /\ [Next]_vars => ReportInv'
  BY ReportsStep
<1>2. ReportInv => DecisionsReported
  BY DEF ReportInv, Unreported, Reported, DecisionsReported
<1>. QED
  BY <1>1, <1>2, InitReports, GraphInvariant, PTL DEF Spec
=============================================================================
