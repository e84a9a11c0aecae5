-------------------------------- MODULE Folding --------------------------------
(***************************************************************************)
(* Induction over data for the loops of the program, which are folds over  *)
(* finite sets: of positions in a list, of rows.  The principles are       *)
(* stated with sets where one would expect a predicate, and with tables    *)
(* (functions) where one would expect an operator.                         *)
(***************************************************************************)
EXTENDS FiniteSetTheorems, TLAPS

(* A family of finite sets has a member without a smaller one. *)
LEMMA LeastSubset ==
  ASSUME NEW S, NEW F \in SUBSET FiniteSubsetsOf(S), F # {}
  PROVE  \E T \in F : \A U \in F : ~(U \subseteq T /\ U # T)
<1>1. \E T \in F : \A U \in F : <<U, T>> \notin StrictSubsetOrdering(S)
  BY FS_StrictSubsetOrderingWellFounded, WFMin
<1>2. \A T, U \in F : T \in SUBSET S /\ U \in SUBSET S
  BY DEF FiniteSubsetsOf
<1> QED BY <1>1, <1>2 DEF StrictSubsetOrdering

(* Every natural number is in a set with 0 and with successors. *)
LEMMA Successors ==
  ASSUME NEW A, 0 \in A, \A n \in Nat : n \in A => n + 1 \in A
  PROVE  Nat \subseteq A
<1> SUFFICES ASSUME NEW k \in Nat, k \notin A PROVE FALSE
  OBVIOUS
<1> DEFINE F == {T \in SUBSET Nat : \E n \in Nat \ A : T = 0..n}
<1>1. F \subseteq FiniteSubsetsOf(Nat) /\ F # {}
  <2>1. \A n \in Nat : 0..n \in SUBSET Nat /\ IsFiniteSet(0..n)
    BY FS_Interval
  <2> QED BY <2>1 DEF FiniteSubsetsOf
<1>2. PICK m \in Nat \ A : \A n \in Nat \ A : ~(0..n \subseteq 0..m /\ 0..n # 0..m)
  <2>1. PICK T \in F : \A U \in F : ~(U \subseteq T /\ U # T)
    <3> HIDE DEF F
    <3> QED BY <1>1, LeastSubset
  <2>2. PICK m \in Nat \ A : T = 0..m
    OBVIOUS
  <2>3. \A n \in Nat \ A : 0..n \in F
    OBVIOUS
  <2> QED BY <2>1, <2>2, <2>3
<1>3. m - 1 \in Nat
  BY <1>2
<1>4. m - 1 \in A
  BY <1>2, <1>3
<1> QED BY <1>2, <1>3, <1>4

(* A finite set is in every family with the empty set that takes each of   *)
(* its subsets from a smaller one.                                         *)
LEMMA Growing ==
  ASSUME NEW S, IsFiniteSet(S), NEW G, {} \in G,
         \A T \in SUBSET S : T # {} => \E x \in T : T \ {x} \in G => T \in G
  PROVE  SUBSET S \subseteq G
<1> SUFFICES ASSUME NEW R \in SUBSET S, R \notin G PROVE FALSE
  OBVIOUS
<1> DEFINE F == {T \in SUBSET S : T \notin G}
<1>1. F \subseteq FiniteSubsetsOf(S) /\ F # {}
  <2>1. FiniteSubsetsOf(S) = SUBSET S
    BY FS_FiniteSubsetsOfFinite
  <2> QED BY <2>1
<1>2. PICK T \in F : \A U \in F : ~(U \subseteq T /\ U # T)
  <2> HIDE DEF F
  <2> QED BY <1>1, LeastSubset
<1>3. T \in SUBSET S /\ T \notin G /\ T # {}
  <2>1. T \in SUBSET S /\ T \notin G
    BY <1>2, Zenon
  <2>2. CASE T = {}
    BY <2>1, <2>2, SMT
  <2> QED BY <2>1, <2>2
<1>4. PICK x \in T : T \ {x} \in G => T \in G
  <2> HIDE DEF F
  <2> QED BY <1>3
<1>5. T \ {x} \in F
  BY <1>3, <1>4
<1> HIDE DEF F
<1> QED BY <1>2, <1>5

(* A finite set of integers has a greatest and a least member. *)
LEMMA Extremes ==
  ASSUME NEW S \in SUBSET Int, IsFiniteSet(S), S # {}
  PROVE  \E l, m \in S : \A x \in S : l <= x /\ x <= m
<1> DEFINE G == {T \in SUBSET S : T # {} => \E l, m \in T : \A x \in T : l <= x /\ x <= m}
<1>1. ASSUME NEW T \in SUBSET S, NEW x \in T, T \ {x} \in G PROVE T \in G
  <2>1. CASE T \ {x} = {}
    BY <2>1
  <2>2. CASE T \ {x} # {}
    <3>1. PICK l, m \in T \ {x} : \A y \in T \ {x} : l <= y /\ y <= m
      BY <1>1, <2>2
    <3>2. l \in Int /\ m \in Int /\ x \in Int /\ T \subseteq Int /\ l \in T /\ m \in T
      BY <3>1
    <3>3. CASE x < l
      <4>1. \A y \in T : x <= y /\ y <= m
        BY <3>1, <3>2, <3>3
      <4> QED BY <3>2, <4>1
    <3>4. CASE x > m
      <4>1. \A y \in T : l <= y /\ y <= x
        BY <3>1, <3>2, <3>4
      <4> QED BY <3>2, <4>1
    <3>5. CASE l <= x /\ x <= m
      <4>1. \A y \in T : l <= y /\ y <= m
        BY <3>1, <3>2, <3>5
      <4> QED BY <3>2, <4>1
    <3> HIDE DEF G
    <3> QED BY <3>2, <3>3, <3>4, <3>5
  <2> QED BY <2>1, <2>2
<1>2. SUBSET S \subseteq G
  <2>1. \A T \in SUBSET S : T # {} => \E x \in T : T \ {x} \in G => T \in G
    BY <1>1
  <2>2. {} \in G
    OBVIOUS
  <2> HIDE DEF G
  <2> QED BY <2>1, <2>2, Growing
<1> QED BY <1>2

(* A fold over a set picks a member and takes a step from what the rest    *)
(* gives; a table of it lists its value for every subset.                  *)
Foldable(S, V, base, pick, step) ==
  /\ IsFiniteSet(S) /\ base \in V
  /\ \A T \in SUBSET S : T # {} => pick[T] \in T
  /\ \A T \in SUBSET S, v \in V : step[<<T, v>>] \in V
IsTable(g, S, V, base, pick, step) ==
  /\ g \in [SUBSET S -> V]
  /\ \A T \in SUBSET S : g[T] = IF T = {} THEN base ELSE step[<<T, g[T \ {pick[T]}]>>]

(* The table exists. *)
LEMMA FoldTable ==
  ASSUME NEW S, NEW V, NEW base, NEW pick, NEW step, Foldable(S, V, base, pick, step)
  PROVE  \E g : IsTable(g, S, V, base, pick, step)
<1> DEFINE Value(g, T) == IF T = {} THEN base ELSE step[<<T, g[T \ {pick[T]}]>>]
           A == {n \in Nat : \E g \in [SUBSET S -> V] :
                   \A T \in SUBSET S : Cardinality(T) <= n => g[T] = Value(g, T)}
<1> USE DEF Foldable
<1>1. \A T \in SUBSET S : IsFiniteSet(T) /\ Cardinality(T) \in Nat /\ Cardinality(T) <= Cardinality(S)
  BY FS_Subset, FS_CardinalityType
<1>2. \A T \in SUBSET S : T # {} => Cardinality(T \ {pick[T]}) = Cardinality(T) - 1
  BY <1>1, FS_RemoveElement
<1>3. 0 \in A
  <2> DEFINE g == [T \in SUBSET S |-> base]
  <2>1. \A T \in SUBSET S : Cardinality(T) <= 0 => T = {}
    BY <1>1, FS_EmptySet
  <2>2. g \in [SUBSET S -> V] /\ \A T \in SUBSET S : Cardinality(T) <= 0 => g[T] = Value(g, T)
    BY <2>1
  <2> HIDE DEF g, Value
  <2> QED BY <2>2
<1>4. ASSUME NEW n \in Nat, n \in A PROVE n + 1 \in A
  <2>1. PICK g \in [SUBSET S -> V] : \A T \in SUBSET S : Cardinality(T) <= n => g[T] = Value(g, T)
    BY <1>4
  <2> DEFINE h == [T \in SUBSET S |-> Value(g, T)]
  <2>2. h \in [SUBSET S -> V]
    BY <2>1
  <2>3. ASSUME NEW T \in SUBSET S, Cardinality(T) <= n + 1 PROVE h[T] = Value(h, T)
    <3>1. CASE T = {}
      BY <3>1
    <3>2. CASE T # {}
      <4>1. T \ {pick[T]} \in SUBSET S /\ Cardinality(T \ {pick[T]}) <= n
        BY <1>1, <1>2, <2>3, <3>2
      <4>2. h[T \ {pick[T]}] = g[T \ {pick[T]}]
        BY <2>1, <4>1
      <4> QED BY <3>2, <4>2
    <3> QED BY <3>1, <3>2
  <2> HIDE DEF h
  <2> QED BY <2>2, <2>3
<1>5. Cardinality(S) \in A
  <2>1. Nat \subseteq A
    <3> HIDE DEF A
    <3> QED BY <1>3, <1>4, Successors
  <2> QED BY <1>1, <2>1
<1> QED BY <1>1, <1>5 DEF IsTable

(* Two sets that are apart have the sizes of both.                         *)
LEMMA ApartAdds ==
  ASSUME NEW A, IsFiniteSet(A), NEW B, IsFiniteSet(B), A \cap B = {}
  PROVE  IsFiniteSet(A \cup B) /\ Cardinality(A \cup B) = Cardinality(A) + Cardinality(B)
<1>1. Cardinality(A) \in Nat /\ Cardinality(B) \in Nat /\ Cardinality(A \cap B) = 0
  BY FS_CardinalityType, FS_EmptySet, Zenon
<1>2. IsFiniteSet(A \cup B) /\ Cardinality(A \cup B) = Cardinality(A) + Cardinality(B) - Cardinality(A \cap B)
  BY FS_Union
<1> QED BY <1>1, <1>2

(* A table of a sum: each subset has the size of the member it picks and   *)
(* the sum of the rest.                                                    *)
IsSum(g, S, pick, size) ==
  g[{}] = 0 /\ \A R \in SUBSET S : R # {} => pick[R] \in R /\ g[R] = size[pick[R]] + g[R \ {pick[R]}]

(* Pieces of the given sizes, apart from each other, and what they make up. *)
Joined(piece, S) == UNION {piece[i] : i \in S}
ArePieces(piece, S, size) ==
  /\ \A i \in S : IsFiniteSet(piece[i]) /\ size[i] = Cardinality(piece[i])
  /\ \A i, j \in S : i # j => piece[i] \cap piece[j] = {}

(* Sizes add up: what is counted piece by piece is the size of the whole.  *)
LEMMA SumOfSizes ==
  ASSUME NEW S, IsFiniteSet(S), NEW piece, NEW size, ArePieces(piece, S, size),
         NEW pick, NEW g, IsSum(g, S, pick, size)
  PROVE  IsFiniteSet(Joined(piece, S)) /\ g[S] = Cardinality(Joined(piece, S))
<1> DEFINE whole(R) == UNION {piece[i] : i \in R}
           G == {R \in SUBSET S : IsFiniteSet(whole(R)) /\ g[R] = Cardinality(whole(R))}
<1>1. {} \in G
  <2>1. whole({}) = {}
    OBVIOUS
  <2> QED BY <2>1, FS_EmptySet DEF IsSum
<1>2. ASSUME NEW R \in SUBSET S, R # {}, R \ {pick[R]} \in G PROVE R \in G
  <2> DEFINE x == pick[R]
  <2>1. x \in R /\ x \in S /\ g[R] = size[x] + g[R \ {x}]
    BY <1>2 DEF IsSum
  <2>2. IsFiniteSet(whole(R \ {x})) /\ g[R \ {x}] = Cardinality(whole(R \ {x}))
    BY <1>2
  <2>3. IsFiniteSet(piece[x]) /\ size[x] = Cardinality(piece[x])
    BY <2>1 DEF ArePieces
  <2>4. whole(R) = piece[x] \cup whole(R \ {x})
    <3> HIDE DEF x
    <3> QED BY <2>1
  <2>5. piece[x] \cap whole(R \ {x}) = {}
    <3> HIDE DEF x
    <3> QED BY <2>1 DEF ArePieces
  <2>6. /\ IsFiniteSet(piece[x] \cup whole(R \ {x}))
        /\ Cardinality(piece[x] \cup whole(R \ {x})) = Cardinality(piece[x]) + Cardinality(whole(R \ {x}))
    <3> HIDE DEF x, whole
    <3> QED BY <2>2, <2>3, <2>5, ApartAdds
  <2> QED BY <2>1, <2>2, <2>3, <2>4, <2>6
<1>3. \A R \in SUBSET S : R # {} => \E x \in R : R \ {x} \in G => R \in G
  BY <1>2 DEF IsSum
<1>4. S \in G
  <2> HIDE DEF G
  <2> QED BY <1>1, <1>3, Growing
<1> QED BY <1>4 DEF Joined
=============================================================================
