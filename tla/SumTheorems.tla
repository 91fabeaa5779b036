---------------------------- MODULE SumTheorems ----------------------------
(***************************************************************************)
(* Sums over finite sets, as the model writes them: MapThenSumSet adds up  *)
(* the elements in an order of its own choice.  Here: the sum of a         *)
(* function, that it does not depend on the order, and what it is of a     *)
(* set with one element more, of two sets, and of a set counted otherwise. *)
(*                                                                         *)
(* Induction over a finite set is by its smallest subset for which the     *)
(* statement fails.                                                        *)
(***************************************************************************)
EXTENDS Integers, FiniteSets, FiniteSetsExt, FiniteSetTheorems, WellFoundedInduction, TLAPS

\* The sum of f over S.
SumOver(f, S) == MapThenSumSet(LAMBDA x : f[x], S)
AnyOf(s) == CHOOSE x \in s : TRUE

\* g gives the sum over every subset of S.
SumTable(f, S, g) ==
  g = [s \in SUBSET S |-> IF s = {} THEN 0 ELSE f[AnyOf(s)] + g[s \ {AnyOf(s)}]]

\* The sum is what the table of a set says of the whole set.
LEMMA SumIsTable ==
  ASSUME NEW f, NEW S PROVE SumOver(f, S) = (CHOOSE g : SumTable(f, S, g))[S]
BY DEF SumOver, MapThenSumSet, MapThenFoldSet, SumTable, AnyOf

\* Of sets of subsets of a finite set, one is smallest.
LEMMA SmallestSet ==
  ASSUME NEW S, IsFiniteSet(S), NEW C, C \subseteq SUBSET S, C # {}
  PROVE  \E T \in C : \A U \in C : U \subseteq T => U = T
<1>1. IsWellFoundedOn(StrictSubsetOrdering(S), FiniteSubsetsOf(S))
  BY FS_StrictSubsetOrderingWellFounded
<1>2. FiniteSubsetsOf(S) = SUBSET S
  BY FS_FiniteSubsetsOfFinite
<1>3. PICK T \in C : \A U \in C : ~ (<<U, T>> \in StrictSubsetOrdering(S))
  BY <1>1, <1>2, WFMin
<1>4. ASSUME NEW U \in C, U \subseteq T PROVE U = T
  BY <1>2, <1>3, <1>4 DEF StrictSubsetOrdering, FiniteSubsetsOf
<1> QED  BY <1>4

LEMMA AnyOfIn == ASSUME NEW s, s # {} PROVE AnyOf(s) \in s
BY DEF AnyOf

\* What a table says of the empty set and of the others.
LEMMA SumTableAt ==
  ASSUME NEW f, NEW S, NEW g, SumTable(f, S, g)
  PROVE  /\ g[{}] = 0
         /\ \A s \in SUBSET S : s # {} => g[s] = f[AnyOf(s)] + g[s \ {AnyOf(s)}]
<1> DEFINE G == [s \in SUBSET S |-> IF s = {} THEN 0 ELSE f[AnyOf(s)] + g[s \ {AnyOf(s)}]]
<1>1. g = G
  BY DEF SumTable
<1>2. \A s \in SUBSET S : G[s] = IF s = {} THEN 0 ELSE f[AnyOf(s)] + g[s \ {AnyOf(s)}]
  OBVIOUS
<1> HIDE DEF G
<1> QED
  BY <1>1, <1>2

\* The tables of a set and of a subset agree on the subset.
LEMMA SumTableUnique ==
  ASSUME NEW f, NEW S, IsFiniteSet(S), NEW T \in SUBSET S, NEW g, SumTable(f, S, g), NEW h, SumTable(f, T, h)
  PROVE  \A s \in SUBSET T : g[s] = h[s]
<1> DEFINE C == {s \in SUBSET T : g[s] # h[s]}
<1> SUFFICES ASSUME C # {} PROVE FALSE
  OBVIOUS
<1>1. PICK s \in C : \A u \in C : u \subseteq s => u = s
  <2>1. IsFiniteSet(T)
    BY FS_Subset
  <2>2. C \subseteq SUBSET T
    OBVIOUS
  <2> HIDE DEF C
  <2> QED  BY <2>1, <2>2, SmallestSet
<1>2. s \in SUBSET T /\ s \in SUBSET S /\ g[s] # h[s]
  OBVIOUS
<1>3. s # {}
  BY <1>2, SumTableAt
<1> DEFINE u == s \ {AnyOf(s)}
<1>4. u \subseteq s /\ u # s /\ u \in SUBSET T
  BY <1>2, <1>3, AnyOfIn
<1>5. g[u] = h[u]
  BY <1>1, <1>4
<1> QED
  BY <1>2, <1>3, <1>5, SumTableAt

\* Every finite set has a table: the recursion is sound.
LEMMA SumTableExists ==
  ASSUME NEW f, NEW S, IsFiniteSet(S)
  PROVE  SumTable(f, S, CHOOSE g : SumTable(f, S, g))
<1> DEFINE C == {T \in SUBSET S : ~ \E g : SumTable(f, T, g)}
<1>0. SUFFICES ASSUME C # {} PROVE FALSE
  <2>1. S \in SUBSET S
    OBVIOUS
  <2>2. S \notin C => \E g : SumTable(f, S, g)
    BY <2>1
  <2> QED
    BY <2>2
<1>1. PICK T \in C : \A u \in C : u \subseteq T => u = T
  <2>2. C \subseteq SUBSET S
    OBVIOUS
  <2> HIDE DEF C
  <2> QED  BY <1>0, <2>2, SmallestSet
<1> DEFINE G(u) == CHOOSE g : SumTable(f, u, g)
<1>2. \A u \in SUBSET T : IsFiniteSet(u) /\ u \in SUBSET S
  BY FS_Subset
<1>3. ASSUME NEW u \in SUBSET T, u # T PROVE SumTable(f, u, G(u))
  <2>1. u \notin C
    BY <1>1, <1>3
  <2>2. \E g : SumTable(f, u, g)
    BY <2>1, <1>2
  <2> QED  BY <2>2
<1> HIDE DEF G
<1>4. ASSUME NEW u \in SUBSET T, u # T, u # {}
      PROVE  G(u)[u] = f[AnyOf(u)] + G(u \ {AnyOf(u)})[u \ {AnyOf(u)}]
  <2> DEFINE v == u \ {AnyOf(u)}
  <2>0. v \in SUBSET u /\ v \in SUBSET T /\ v # T
    BY <1>4, AnyOfIn
  <2>1. SumTable(f, u, G(u)) /\ SumTable(f, v, G(v)) /\ IsFiniteSet(u)
    BY <1>2, <1>3, <1>4, <2>0
  <2>2. G(u)[v] = G(v)[v]
    BY <2>0, <2>1, SumTableUnique
  <2>3. G(u)[u] = f[AnyOf(u)] + G(u)[v]
    BY <1>4, <2>1, SumTableAt
  <2> QED  BY <2>2, <2>3
<1>5. ASSUME {} # T PROVE G({})[{}] = 0
  BY <1>3, <1>5, SumTableAt
<1> DEFINE g == [s \in SUBSET T |-> IF s = {} THEN 0 ELSE f[AnyOf(s)] + G(s \ {AnyOf(s)})[s \ {AnyOf(s)}]]
<1>6. ASSUME NEW u \in SUBSET T, u # T PROVE g[u] = G(u)[u]
  <2>1. CASE u = {}
    BY <1>5, <1>6, <2>1
  <2>2. CASE u # {}
    BY <1>4, <1>6, <2>2
  <2> QED  BY <2>1, <2>2
<1>7. \A s \in SUBSET T : g[s] = IF s = {} THEN 0 ELSE f[AnyOf(s)] + g[s \ {AnyOf(s)}]
  <2> SUFFICES ASSUME NEW s \in SUBSET T, s # {} PROVE g[s] = f[AnyOf(s)] + g[s \ {AnyOf(s)}]
    OBVIOUS
  <2>1. s \ {AnyOf(s)} \in SUBSET T /\ s \ {AnyOf(s)} # T
    BY AnyOfIn
  <2>2. g[s \ {AnyOf(s)}] = G(s \ {AnyOf(s)})[s \ {AnyOf(s)}]
    BY <1>6, <2>1
  <2> QED  BY <2>2
<1>8. SumTable(f, T, g)
  <2> DEFINE H == [s \in SUBSET T |-> IF s = {} THEN 0 ELSE f[AnyOf(s)] + g[s \ {AnyOf(s)}]]
  <2>1. \A s \in SUBSET T : g[s] = H[s]
    BY <1>7
  <2>2. g = [s \in SUBSET T |-> g[s]]
    OBVIOUS
  <2>3. g = H
    BY <2>1, <2>2
  <2> HIDE DEF g
  <2> QED  BY <2>3 DEF SumTable
<1> QED
  BY <1>8

LEMMA SumEmpty == ASSUME NEW f PROVE SumOver(f, {}) = 0
<1>1. IsFiniteSet({})
  BY FS_EmptySet
<1> QED
  BY <1>1, SumTableExists, SumIsTable, SumTableAt

\* The equation of the recursion.
LEMMA SumAny ==
  ASSUME NEW f, NEW S, IsFiniteSet(S), S # {}
  PROVE  SumOver(f, S) = f[AnyOf(S)] + SumOver(f, S \ {AnyOf(S)})
<1> DEFINE G(u) == CHOOSE g : SumTable(f, u, g)
           T == S \ {AnyOf(S)}
<1>1. IsFiniteSet(T) /\ T \in SUBSET S
  BY FS_Subset
<1>2. SumTable(f, S, G(S)) /\ SumTable(f, T, G(T))
  BY <1>1, SumTableExists
<1>3. SumOver(f, S) = G(S)[S] /\ SumOver(f, T) = G(T)[T]
  BY SumIsTable
<1> HIDE DEF G, T
<1>4. G(S)[T] = G(T)[T]
  <2>1. ASSUME NEW g, NEW h, SumTable(f, S, g), SumTable(f, T, h)
        PROVE  g[T] = h[T]
    BY <1>1, <2>1, SumTableUnique
  <2> QED  BY <1>2, <2>1
<1>5. G(S)[S] = f[AnyOf(S)] + G(S)[T]
  BY <1>2, SumTableAt DEF T
<1> QED
  BY <1>3, <1>4, <1>5 DEF T

\* Types.
LEMMA SumInt ==
  ASSUME NEW f, NEW S, IsFiniteSet(S), \A x \in S : f[x] \in Int
  PROVE  SumOver(f, S) \in Int
<1> DEFINE C == {T \in SUBSET S : SumOver(f, T) \notin Int}
<1>1. ASSUME C # {} PROVE FALSE
  <2>1. PICK T \in C : \A u \in C : u \subseteq T => u = T
    <3>1. C \subseteq SUBSET S
      OBVIOUS
    <3> HIDE DEF C
    <3> QED  BY <1>1, <3>1, SmallestSet
  <2>2. T # {} /\ IsFiniteSet(T) /\ T \subseteq S
    <3>1. T \in SUBSET S /\ IsFiniteSet(T)
      BY FS_Subset
    <3>2. T # {}
      BY SumEmpty
    <3> QED  BY <3>1, <3>2
  <2>3. AnyOf(T) \in T /\ T \ {AnyOf(T)} \subseteq T /\ T \ {AnyOf(T)} # T
    BY <2>2, AnyOfIn
  <2>4. SumOver(f, T \ {AnyOf(T)}) \in Int
    BY <2>1, <2>3
  <2> QED  BY <2>2, <2>3, <2>4, SumAny
<1> QED
  BY <1>1

\* The order does not matter: any element may be taken out.
LEMMA SumTake ==
  ASSUME NEW f, NEW S, IsFiniteSet(S), \A x \in S : f[x] \in Int, NEW y \in S
  PROVE  SumOver(f, S) = f[y] + SumOver(f, S \ {y})
<1> DEFINE C == {T \in SUBSET S : \E z \in T : SumOver(f, T) # f[z] + SumOver(f, T \ {z})}
<1>1. ASSUME C # {} PROVE FALSE
  <2>1. PICK T \in C : \A u \in C : u \subseteq T => u = T
    <3>1. C \subseteq SUBSET S
      OBVIOUS
    <3> HIDE DEF C
    <3> QED  BY <1>1, <3>1, SmallestSet
  <2>2. PICK z \in T : SumOver(f, T) # f[z] + SumOver(f, T \ {z})
    OBVIOUS
  <2> DEFINE x == AnyOf(T)
             U == T \ {x}
             V == T \ {z}
  <2>3. T # {} /\ T \subseteq S /\ x \in T /\ IsFiniteSet(T)
    BY AnyOfIn, FS_Subset
  <2>4. SumOver(f, T) = f[x] + SumOver(f, U)
    BY <2>3, SumAny
  <2>5. x # z
    BY <2>2, <2>4
  <2>6. \A u \in SUBSET T : u # T => \A w \in u : SumOver(f, u) = f[w] + SumOver(f, u \ {w})
    BY <2>1, <2>3
  <2>7. SumOver(f, U) = f[z] + SumOver(f, U \ {z})
    BY <2>3, <2>5, <2>6
  <2>8. SumOver(f, V) = f[x] + SumOver(f, V \ {x})
    BY <2>3, <2>5, <2>6
  <2>9. U \ {z} = V \ {x}
    OBVIOUS
  <2>10. SumOver(f, V \ {x}) \in Int /\ f[x] \in Int /\ f[z] \in Int
    <3>1. IsFiniteSet(V \ {x}) /\ V \ {x} \subseteq S
      BY <2>3, FS_Subset
    <3> QED  BY <2>3, <3>1, SumInt
  <2>11. SumOver(f, T) # f[z] + SumOver(f, V)
    BY <2>2
  <2> HIDE DEF x, U, V
  <2>12. SumOver(f, U) = f[z] + SumOver(f, V \ {x})
    BY <2>7, <2>9
  <2> QED  BY <2>4, <2>8, <2>10, <2>11, <2>12
<1> QED
  BY <1>1

LEMMA SumAdd ==
  ASSUME NEW f, NEW S, IsFiniteSet(S), NEW y, y \notin S, \A x \in S \cup {y} : f[x] \in Int
  PROVE  SumOver(f, S \cup {y}) = f[y] + SumOver(f, S)
<1>1. IsFiniteSet(S \cup {y}) /\ (S \cup {y}) \ {y} = S
  BY FS_AddElement
<1> QED
  BY <1>1, SumTake

LEMMA SumNat ==
  ASSUME NEW f, NEW S, IsFiniteSet(S), \A x \in S : f[x] \in Nat
  PROVE  SumOver(f, S) \in Nat
<1> DEFINE C == {T \in SUBSET S : SumOver(f, T) \notin Nat}
<1>1. ASSUME C # {} PROVE FALSE
  <2>1. PICK T \in C : \A u \in C : u \subseteq T => u = T
    <3>1. C \subseteq SUBSET S
      OBVIOUS
    <3> HIDE DEF C
    <3> QED  BY <1>1, <3>1, SmallestSet
  <2>2. T # {} /\ IsFiniteSet(T) /\ T \subseteq S
    <3>1. T \in SUBSET S /\ IsFiniteSet(T)
      BY FS_Subset
    <3>2. T # {}
      BY SumEmpty
    <3> QED  BY <3>1, <3>2
  <2>3. AnyOf(T) \in T /\ T \ {AnyOf(T)} \subseteq T /\ T \ {AnyOf(T)} # T
    BY <2>2, AnyOfIn
  <2>4. SumOver(f, T \ {AnyOf(T)}) \in Nat
    BY <2>1, <2>3
  <2> QED  BY <2>2, <2>3, <2>4, SumAny
<1> QED
  BY <1>1

\* The sum depends on the values at the elements only.
LEMMA SumSame ==
  ASSUME NEW f, NEW g, NEW S, IsFiniteSet(S), \A x \in S : f[x] = g[x]
  PROVE  SumOver(f, S) = SumOver(g, S)
<1> DEFINE C == {T \in SUBSET S : SumOver(f, T) # SumOver(g, T)}
<1>1. ASSUME C # {} PROVE FALSE
  <2>1. PICK T \in C : \A u \in C : u \subseteq T => u = T
    <3>1. C \subseteq SUBSET S
      OBVIOUS
    <3> HIDE DEF C
    <3> QED  BY <1>1, <3>1, SmallestSet
  <2>2. T # {} /\ IsFiniteSet(T) /\ T \subseteq S
    <3>1. T \in SUBSET S /\ IsFiniteSet(T)
      BY FS_Subset
    <3>2. T # {}
      BY SumEmpty
    <3> QED  BY <3>1, <3>2
  <2>3. AnyOf(T) \in T /\ T \ {AnyOf(T)} \subseteq T /\ T \ {AnyOf(T)} # T
    BY <2>2, AnyOfIn
  <2>4. SumOver(f, T \ {AnyOf(T)}) = SumOver(g, T \ {AnyOf(T)})
    BY <2>1, <2>2, <2>3
  <2> QED  BY <2>2, <2>3, <2>4, SumAny
<1> QED
  BY <1>1

\* Disjoint sets add up.
LEMMA SumUnion ==
  ASSUME NEW f, NEW S, IsFiniteSet(S), NEW R, IsFiniteSet(R), S \cap R = {},
         \A x \in S \cup R : f[x] \in Int
  PROVE  SumOver(f, S \cup R) = SumOver(f, S) + SumOver(f, R)
<1> DEFINE C == {T \in SUBSET S : SumOver(f, T \cup R) # SumOver(f, T) + SumOver(f, R)}
<1>1. ASSUME C # {} PROVE FALSE
  <2>1. PICK T \in C : \A u \in C : u \subseteq T => u = T
    <3>1. C \subseteq SUBSET S
      OBVIOUS
    <3> HIDE DEF C
    <3> QED  BY <1>1, <3>1, SmallestSet
  <2>0. SumOver(f, T \cup R) # SumOver(f, T) + SumOver(f, R) /\ T \subseteq S
    OBVIOUS
  <2>2. T # {}
    <3>1. SumOver(f, R) \in Int
      BY SumInt
    <3>2. {} \cup R = R
      OBVIOUS
    <3> QED  BY <2>0, <3>1, <3>2, SumEmpty
  <2>3. PICK y \in T : TRUE
    BY <2>2
  <2> DEFINE U == T \ {y}
  <2>4. U \subseteq T /\ U # T /\ U \subseteq S
    BY <2>0
  <2>5. SumOver(f, U \cup R) = SumOver(f, U) + SumOver(f, R)
    BY <2>1, <2>4
  <2>6. IsFiniteSet(T) /\ IsFiniteSet(U) /\ IsFiniteSet(T \cup R)
    BY <2>0, <2>4, FS_Subset, FS_Union
  <2>7. SumOver(f, T) = f[y] + SumOver(f, U)
    BY <2>0, <2>6, SumTake
  <2>8. SumOver(f, T \cup R) = f[y] + SumOver(f, U \cup R)
    <3>1. (T \cup R) \ {y} = U \cup R
      BY <2>0
    <3>2. y \in T \cup R /\ \A x \in T \cup R : f[x] \in Int
      BY <2>0
    <3> QED  BY <2>6, <3>1, <3>2, SumTake
  <2>9. SumOver(f, U) \in Int /\ SumOver(f, R) \in Int /\ f[y] \in Int
    BY <2>0, <2>4, <2>6, SumInt
  <2> QED  BY <2>0, <2>5, <2>7, <2>8, <2>9
<1> QED
  BY <1>1

\* Larger summands, larger sum.
LEMMA SumMono ==
  ASSUME NEW f, NEW g, NEW S, IsFiniteSet(S),
         \A x \in S : f[x] \in Int /\ g[x] \in Int /\ f[x] <= g[x]
  PROVE  SumOver(f, S) <= SumOver(g, S)
<1> DEFINE C == {T \in SUBSET S : ~ (SumOver(f, T) <= SumOver(g, T))}
<1>1. ASSUME C # {} PROVE FALSE
  <2>1. PICK T \in C : \A u \in C : u \subseteq T => u = T
    <3>1. C \subseteq SUBSET S
      OBVIOUS
    <3> HIDE DEF C
    <3> QED  BY <1>1, <3>1, SmallestSet
  <2>0. T \subseteq S /\ ~ (SumOver(f, T) <= SumOver(g, T))
    OBVIOUS
  <2>2. T # {} /\ IsFiniteSet(T)
    <3>1. T \in SUBSET S /\ IsFiniteSet(T)
      BY FS_Subset
    <3>2. SumOver(f, {}) = 0 /\ SumOver(g, {}) = 0
      BY SumEmpty
    <3> QED  BY <2>0, <3>1, <3>2
  <2> DEFINE y == AnyOf(T)
             U == T \ {y}
  <2>3. y \in T /\ U \subseteq T /\ U # T /\ IsFiniteSet(U) /\ U \subseteq S
    BY <2>0, <2>2, AnyOfIn, FS_Subset
  <2>4. SumOver(f, U) <= SumOver(g, U)
    BY <2>1, <2>3
  <2>5. SumOver(f, U) \in Int /\ SumOver(g, U) \in Int
    BY <2>3, SumInt
  <2>6. SumOver(f, T) = f[y] + SumOver(f, U) /\ SumOver(g, T) = g[y] + SumOver(g, U)
    BY <2>2, SumAny
  <2> QED  BY <2>0, <2>3, <2>4, <2>5, <2>6
<1> QED
  BY <1>1

LEMMA SumZero ==
  ASSUME NEW f, NEW S, IsFiniteSet(S), \A x \in S : f[x] = 0
  PROVE  SumOver(f, S) = 0
<1> DEFINE C == {T \in SUBSET S : SumOver(f, T) # 0}
<1>1. ASSUME C # {} PROVE FALSE
  <2>1. PICK T \in C : \A u \in C : u \subseteq T => u = T
    <3>1. C \subseteq SUBSET S
      OBVIOUS
    <3> HIDE DEF C
    <3> QED  BY <1>1, <3>1, SmallestSet
  <2>2. T # {} /\ IsFiniteSet(T) /\ T \subseteq S
    <3>1. T \in SUBSET S /\ IsFiniteSet(T)
      BY FS_Subset
    <3>2. T # {}
      BY SumEmpty
    <3> QED  BY <3>1, <3>2
  <2>3. AnyOf(T) \in T /\ T \ {AnyOf(T)} \subseteq T /\ T \ {AnyOf(T)} # T
    BY <2>2, AnyOfIn
  <2>4. SumOver(f, T \ {AnyOf(T)}) = 0
    BY <2>1, <2>2, <2>3
  <2> QED  BY <2>2, <2>3, <2>4, SumAny
<1> QED
  BY <1>1

\* A bijection b from S to T carries the sum over.
LEMMA SumReindex ==
  ASSUME NEW f, NEW g, NEW b, NEW S, IsFiniteSet(S),
         \A x \in S : f[x] \in Int /\ f[x] = g[b[x]],
         \A x, y \in S : b[x] = b[y] => x = y
  PROVE  SumOver(f, S) = SumOver(g, {b[x] : x \in S}) /\ IsFiniteSet({b[x] : x \in S})
<1> DEFINE Img(T) == {b[x] : x \in T}
           C == {T \in SUBSET S : ~ (SumOver(f, T) = SumOver(g, Img(T)) /\ IsFiniteSet(Img(T)))}
<1>1. ASSUME C # {} PROVE FALSE
  <2>1. PICK T \in C : \A u \in C : u \subseteq T => u = T
    <3>1. C \subseteq SUBSET S
      OBVIOUS
    <3> HIDE DEF C
    <3> QED  BY <1>1, <3>1, SmallestSet
  <2>0. T \subseteq S /\ ~ (SumOver(f, T) = SumOver(g, Img(T)) /\ IsFiniteSet(Img(T)))
    OBVIOUS
  <2>2. T # {}
    <3>1. Img({}) = {}
      OBVIOUS
    <3> QED  BY <2>0, <3>1, SumEmpty, FS_EmptySet
  <2> DEFINE y == AnyOf(T)
             U == T \ {y}
  <2>3. y \in T /\ U \subseteq T /\ U # T /\ IsFiniteSet(T) /\ U \subseteq S
    BY <2>0, <2>2, AnyOfIn, FS_Subset
  <2>4. SumOver(f, U) = SumOver(g, Img(U)) /\ IsFiniteSet(Img(U))
    BY <2>1, <2>3
  <2>5. SumOver(f, T) = f[y] + SumOver(f, U)
    BY <2>2, <2>3, SumAny
  <2>6. Img(T) = Img(U) \cup {b[y]} /\ b[y] \notin Img(U)
    BY <2>0, <2>3
  <2>7. \A z \in Img(U) \cup {b[y]} : g[z] \in Int
    BY <2>0, <2>3
  <2>8. SumOver(g, Img(T)) = g[b[y]] + SumOver(g, Img(U))
    <3> HIDE DEF Img
    <3> QED  BY <2>4, <2>6, <2>7, SumAdd
  <2>9. IsFiniteSet(Img(T))
    <3> HIDE DEF Img
    <3>1. IsFiniteSet(Img(U) \cup {b[y]})
      BY <2>4, FS_AddElement
    <3> QED  BY <2>6, <3>1
  <2>10. f[y] = g[b[y]]
    BY <2>0, <2>3
  <2> HIDE DEF y, U, Img
  <2> QED  BY <2>0, <2>4, <2>5, <2>8, <2>9, <2>10
<1> QED
  BY <1>1

\* More elements, no smaller a sum.
LEMMA SumSubset ==
  ASSUME NEW f, NEW T, IsFiniteSet(T), NEW S, S \subseteq T, \A x \in T : f[x] \in Nat
  PROVE  /\ IsFiniteSet(S) /\ SumOver(f, S) \in Nat /\ SumOver(f, T) \in Nat
         /\ SumOver(f, S) <= SumOver(f, T)
<1> DEFINE R == T \ S
<1>1. IsFiniteSet(S) /\ IsFiniteSet(R) /\ S \cap R = {} /\ S \cup R = T /\ R \subseteq T
  BY FS_Subset
<1> HIDE DEF R
<1>2. SumOver(f, S \cup R) = SumOver(f, S) + SumOver(f, R)
  BY <1>1, SumUnion
<1>3. SumOver(f, S) \in Nat /\ SumOver(f, R) \in Nat /\ SumOver(f, T) \in Nat
  BY <1>1, SumNat
<1> QED
  BY <1>1, <1>2, <1>3

\* Elements that are worth nothing may be left out.
LEMMA SumSupport ==
  ASSUME NEW f, NEW T, IsFiniteSet(T), NEW S, S \subseteq T,
         \A x \in T : f[x] \in Int, \A x \in T \ S : f[x] = 0
  PROVE  IsFiniteSet(S) /\ SumOver(f, T) = SumOver(f, S)
<1> DEFINE R == T \ S
<1>1. IsFiniteSet(S) /\ IsFiniteSet(R) /\ S \cap R = {} /\ S \cup R = T
  BY FS_Subset
<1>2. SumOver(f, R) = 0
  BY <1>1, SumZero
<1> HIDE DEF R
<1>3. SumOver(f, S \cup R) = SumOver(f, S) + SumOver(f, R)
  BY <1>1, SumUnion
<1>4. SumOver(f, S) \in Int
  BY <1>1, SumInt
<1>5. SumOver(f, T) = SumOver(f, S) + SumOver(f, R)
  BY <1>1, <1>3
<1>6. SumOver(f, T) = SumOver(f, S)
  BY <1>2, <1>4, <1>5
<1> QED
  BY <1>1, <1>6

\* Two functions may be added before or after.
LEMMA SumPlus ==
  ASSUME NEW f, NEW g, NEW h, NEW S, IsFiniteSet(S),
         \A x \in S : f[x] \in Int /\ g[x] \in Int /\ h[x] = f[x] + g[x]
  PROVE  SumOver(h, S) = SumOver(f, S) + SumOver(g, S)
<1> DEFINE C == {T \in SUBSET S : SumOver(h, T) # SumOver(f, T) + SumOver(g, T)}
<1>1. ASSUME C # {} PROVE FALSE
  <2>1. PICK T \in C : \A u \in C : u \subseteq T => u = T
    <3>1. C \subseteq SUBSET S
      OBVIOUS
    <3> HIDE DEF C
    <3> QED  BY <1>1, <3>1, SmallestSet
  <2>2. T \subseteq S /\ SumOver(h, T) # SumOver(f, T) + SumOver(g, T) /\ IsFiniteSet(T)
    BY FS_Subset
  <2>3. T # {}
    <3>1. SumOver(f, {}) = 0 /\ SumOver(g, {}) = 0 /\ SumOver(h, {}) = 0
      BY SumEmpty
    <3> QED  BY <2>2, <3>1
  <2> DEFINE y == AnyOf(T)
             U == T \ {y}
  <2>4. y \in T /\ U \subseteq T /\ U # T /\ IsFiniteSet(U) /\ U \subseteq S
    BY <2>2, <2>3, AnyOfIn, FS_Subset
  <2>5. SumOver(h, U) = SumOver(f, U) + SumOver(g, U)
    BY <2>1, <2>4
  <2>6. SumOver(f, U) \in Int /\ SumOver(g, U) \in Int
    BY <2>4, SumInt
  <2>7. /\ SumOver(f, T) = f[y] + SumOver(f, U) /\ SumOver(g, T) = g[y] + SumOver(g, U)
        /\ SumOver(h, T) = h[y] + SumOver(h, U)
    BY <2>2, <2>3, SumAny
  <2>8. f[y] \in Int /\ g[y] \in Int /\ h[y] = f[y] + g[y]
    BY <2>2, <2>4
  <2> HIDE DEF y, U
  <2> QED  BY <2>2, <2>5, <2>6, <2>7, <2>8
<1> QED
  BY <1>1

\* One summand changes.
LEMMA SumChange ==
  ASSUME NEW f, NEW g, NEW S, IsFiniteSet(S), NEW y \in S,
         \A x \in S : f[x] \in Int /\ g[x] \in Int, \A x \in S \ {y} : g[x] = f[x]
  PROVE  SumOver(g, S) = SumOver(f, S) - f[y] + g[y]
<1> DEFINE R == S \ {y}
<1>1. IsFiniteSet(R) /\ R \subseteq S
  BY FS_Subset
<1>2. SumOver(f, S) = f[y] + SumOver(f, R) /\ SumOver(g, S) = g[y] + SumOver(g, R)
  BY SumTake
<1>3. SumOver(g, R) = SumOver(f, R)
  BY <1>1, SumSame
<1>4. SumOver(f, R) \in Int /\ f[y] \in Int /\ g[y] \in Int
  BY <1>1, SumInt
<1> HIDE DEF R
<1> QED
  BY <1>2, <1>3, <1>4

\* Where nothing is positive, the sum is at most any of its summands.
LEMMA SumAtMost ==
  ASSUME NEW f, NEW S, IsFiniteSet(S), NEW y \in S, \A x \in S : f[x] \in Int /\ f[x] <= 0
  PROVE  SumOver(f, S) <= f[y]
<1> DEFINE R == S \ {y}
           zero == [x \in S |-> 0]
<1>1. IsFiniteSet(R) /\ R \subseteq S
  BY FS_Subset
<1>2. SumOver(f, S) = f[y] + SumOver(f, R)
  BY SumTake
<1>3. \A x \in R : f[x] \in Int /\ zero[x] \in Int /\ f[x] <= zero[x] /\ zero[x] = 0
  BY <1>1
<1> HIDE DEF R, zero
<1>4. SumOver(f, R) <= SumOver(zero, R) /\ SumOver(zero, R) = 0 /\ SumOver(f, R) \in Int
  BY <1>1, <1>3, SumMono, SumZero, SumInt
<1> QED
  BY <1>2, <1>4

\* The quantities that the entries E of a sequence of records name.
Quantity(r, E) == MapThenSumSet(LAMBDA k : r[k].quantity, E)
QuantityOf(r, E) == [k \in E |-> r[k].quantity]

LEMMA QuantityAre ==
  ASSUME NEW p, NEW E
  PROVE  Quantity(p, E) = SumOver(QuantityOf(p, E), E)
<1> DEFINE Direct(g) == g = [s \in SUBSET E |-> IF s = {} THEN 0 ELSE p[AnyOf(s)].quantity + g[s \ {AnyOf(s)}]]
<1>1. Quantity(p, E) = (CHOOSE g : Direct(g))[E]
  BY DEF Quantity, MapThenSumSet, MapThenFoldSet, AnyOf
<1>2. ASSUME NEW g PROVE Direct(g) <=> SumTable(QuantityOf(p, E), E, g)
  <2> DEFINE a(s) == IF s = {} THEN 0 ELSE p[AnyOf(s)].quantity + g[s \ {AnyOf(s)}]
             c(s) == IF s = {} THEN 0 ELSE QuantityOf(p, E)[AnyOf(s)] + g[s \ {AnyOf(s)}]
  <2>1. \A s \in SUBSET E : a(s) = c(s)
    BY AnyOfIn DEF QuantityOf
  <2>2. [s \in SUBSET E |-> a(s)] = [s \in SUBSET E |-> c(s)]
    <3> HIDE DEF a, c
    <3> QED  BY <2>1
  <2> QED  BY <2>2 DEF SumTable
<1>3. (CHOOSE g : Direct(g)) = CHOOSE g : SumTable(QuantityOf(p, E), E, g)
  <2> HIDE DEF Direct
  <2> QED  BY <1>2
<1> QED
  BY <1>1, <1>3, SumIsTable

\* Of numbers, one is smallest.
LEMMA SmallestNumber ==
    ASSUME NEW T, T \subseteq Nat, T # {}
    PROVE  \E m \in T : \A k \in T : m <= k
<1>1. PICK n \in T : TRUE
  OBVIOUS
<1>2. n \in Nat /\ IsFiniteSet(0..n)
  BY <1>1, FS_Interval
<1> DEFINE below == {0..k : k \in {j \in T : j <= n}}
<1>3. IsWellFoundedOn(StrictSubsetOrdering(0..n), FiniteSubsetsOf(0..n))
  BY FS_StrictSubsetOrderingWellFounded
<1>4. below \subseteq FiniteSubsetsOf(0..n) /\ below # {}
  <2>1. \A k \in {j \in T : j <= n} : 0..k \subseteq 0..n /\ IsFiniteSet(0..k)
    BY <1>2, FS_Interval
  <2> QED  BY <1>1, <1>2, <2>1 DEF FiniteSubsetsOf
<1> HIDE DEF below
<1>5. PICK b \in below : \A c \in below : ~ (<<c, b>> \in StrictSubsetOrdering(0..n))
  BY <1>3, <1>4, WFMin
<1>6. \A c \in below : c \subseteq b => c = b
  BY <1>4, <1>5 DEF StrictSubsetOrdering, FiniteSubsetsOf
<1>7. PICK m \in T : m <= n /\ b = 0..m
  BY DEF below
<1>8. ASSUME NEW k \in T, k < m PROVE FALSE
  <2>1. 0..k \in below
    BY <1>2, <1>7, <1>8 DEF below
  <2>2. 0..k \subseteq 0..m /\ m \in 0..m /\ m \notin 0..k
    BY <1>8
  <2> QED  BY <1>6, <1>7, <2>1, <2>2
<1> QED  BY <1>7, <1>8
=============================================================================
