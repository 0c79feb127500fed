------------------------------ MODULE SumTheorems ------------------------------
(***************************************************************************)
(* Sums over finite sets.  MapThenSumSet takes the elements one by one in  *)
(* an order nobody knows; here it is shown that the order does not matter, *)
(* and how a sum changes with its summands.                                *)
(*                                                                         *)
(* Every proof by induction is a search for a smallest counterexample: the *)
(* sets a statement is false for are a set of subsets, and a nonempty one  *)
(* has a minimal element (MinimalSet).                                     *)
(***************************************************************************)
EXTENDS Integers, FiniteSets, FiniteSetsExt, FiniteSetTheorems, TLAPS

SumOf(f, S) == MapThenSumSet(LAMBDA x : f[x], S)

LEMMA MinimalSet ==
  ASSUME NEW S, IsFiniteSet(S), NEW B \in SUBSET SUBSET S, B # {}
  PROVE  \E T \in B : \A U \in B : U \subseteq T => U = T
<1>1. IsWellFoundedOn(StrictSubsetOrdering(S), SUBSET S)
  BY FS_StrictSubsetOrderingWellFounded, FS_FiniteSubsetsOfFinite
<1>2. PICK T \in B : \A U \in B : <<U, T>> \notin StrictSubsetOrdering(S)
  BY <1>1, WFMin
<1>3. QED
  BY <1>2 DEF StrictSubsetOrdering

-----------------------------------------------------------------------------
(* The function MapThenSumSet is defined by exists *)

First(s) == CHOOSE x \in s : TRUE

Sums(f, S, g) ==
  g = [s \in SUBSET S |-> IF s = {} THEN 0 ELSE f[First(s)] + g[s \ {First(s)}]]

LEMMA SumOfIsSums ==
  ASSUME NEW f, NEW S
  PROVE  SumOf(f, S) = (CHOOSE g : Sums(f, S, g))[S]
BY DEF SumOf, MapThenSumSet, MapThenFoldSet, Sums, First

LEMMA FirstIsIn == \A s : s # {} => First(s) \in s
BY DEF First

LEMMA SumsUnfold ==
  ASSUME NEW f, NEW S, NEW g, Sums(f, S, g), NEW s \in SUBSET S
  PROVE  g[s] = IF s = {} THEN 0 ELSE f[First(s)] + g[s \ {First(s)}]
<1>1. DOMAIN g = SUBSET S
  BY DEF Sums
<1>2. QED
  BY <1>1 DEF Sums

LEMMA SumsAgree ==
  ASSUME NEW f, NEW S, NEW T, IsFiniteSet(S), NEW g, NEW h,
         Sums(f, S, g), Sums(f, T, h), NEW s \in SUBSET S, s \subseteq T
  PROVE  g[s] = h[s]
<1> DEFINE B == {u \in SUBSET S : u \subseteq T /\ g[u] # h[u]}
<1>1. SUFFICES ASSUME B # {} PROVE FALSE
  OBVIOUS
<1>2. PICK u \in B : \A v \in B : v \subseteq u => v = u
  <2>1. B \in SUBSET SUBSET S
    OBVIOUS
  <2> HIDE DEF B
  <2>2. QED
    BY <1>1, <2>1, MinimalSet
<1>3. g[u] # h[u] /\ u \subseteq S /\ u \subseteq T
  OBVIOUS
<1>4. u # {}
  BY <1>3, SumsUnfold
<1>5. g[u \ {First(u)}] = h[u \ {First(u)}]
  <2>1. u \ {First(u)} # u
    BY <1>4, FirstIsIn
  <2>2. u \ {First(u)} \notin B
    BY <1>2, <2>1
  <2>3. QED
    BY <1>3, <2>2
<1>6. QED
  BY <1>3, <1>4, <1>5, SumsUnfold

LEMMA SumsExist ==
  ASSUME NEW f, NEW S, IsFiniteSet(S)
  PROVE  \E g : Sums(f, S, g)
<1> DEFINE B    == {T \in SUBSET S : ~ \E g : Sums(f, T, g)}
           G(T) == CHOOSE g : Sums(f, T, g)
<1>1. SUFFICES ASSUME B # {} PROVE FALSE
  OBVIOUS
<1>2. PICK T \in B : \A U \in B : U \subseteq T => U = T
  <2>1. B \in SUBSET SUBSET S
    OBVIOUS
  <2> HIDE DEF B
  <2>2. QED
    BY <1>1, <2>1, MinimalSet
<1>3. ASSUME NEW U \in SUBSET T, U # T PROVE Sums(f, U, G(U)) /\ IsFiniteSet(U)
  <2>1. U \notin B /\ U \in SUBSET S
    BY <1>2, <1>3
  <2>2. IsFiniteSet(U)
    BY <2>1, FS_Subset
  <2>3. PICK g : Sums(f, U, g)
    BY <2>1
  <2>4. QED
    BY <2>2, <2>3
<1> DEFINE Rest(s) == s \ {First(s)}
           new == [s \in SUBSET T |-> IF s = {} THEN 0 ELSE f[First(s)] + G(Rest(s))[Rest(s)]]
<1> HIDE DEF G
<1>4. ASSUME NEW s \in SUBSET T, s # T PROVE new[s] = G(s)[s]
  <2>1. CASE s = {}
    BY <1>3, <1>4, <2>1, SumsUnfold
  <2>2. CASE s # {}
    <3>1. Rest(s) \subseteq s /\ Rest(s) # T /\ Rest(s) \subseteq T
      BY <1>4, <2>2
    <3>2. Sums(f, s, G(s)) /\ Sums(f, Rest(s), G(Rest(s))) /\ IsFiniteSet(s)
      BY <1>3, <1>4, <3>1
    <3>3. G(s)[s] = f[First(s)] + G(s)[Rest(s)]
      BY <2>2, <3>2, SumsUnfold
    <3>4. G(s)[Rest(s)] = G(Rest(s))[Rest(s)]
      BY <3>1, <3>2, SumsAgree
    <3>5. QED
      BY <2>2, <3>3, <3>4
  <2>3. QED
    BY <2>1, <2>2
<1>5. ASSUME NEW s \in SUBSET T, s # {}
      PROVE  new[s] = f[First(s)] + new[Rest(s)]
  <2>1. Rest(s) \in SUBSET T /\ Rest(s) # T
    BY <1>5, FirstIsIn
  <2>2. QED
    BY <1>4, <1>5, <2>1
<1>6. Sums(f, T, new)
  BY <1>5 DEF Sums
<1>7. QED
  BY <1>2, <1>6

-----------------------------------------------------------------------------
(* Taking elements out *)

LEMMA SumEmpty == \A f : SumOf(f, {}) = 0
<1> TAKE f
<1>1. Sums(f, {}, CHOOSE g : Sums(f, {}, g))
  BY SumsExist, FS_EmptySet
<1>2. QED
  BY <1>1, SumsUnfold, SumOfIsSums

LEMMA SumFirst ==
  ASSUME NEW f, NEW S, IsFiniteSet(S), S # {}
  PROVE  SumOf(f, S) = f[First(S)] + SumOf(f, S \ {First(S)})
<1> DEFINE G(T) == CHOOSE g : Sums(f, T, g)
           R == S \ {First(S)}
<1>1. IsFiniteSet(R) /\ R \subseteq S
  BY FS_Subset
<1>2. Sums(f, S, G(S)) /\ Sums(f, R, G(R))
  BY <1>1, SumsExist
<1>3. SumOf(f, S) = G(S)[S] /\ SumOf(f, R) = G(R)[R]
  BY SumOfIsSums
<1> HIDE DEF G
<1>4. G(S)[S] = f[First(S)] + G(S)[R]
  BY <1>2, SumsUnfold
<1>5. G(S)[R] = G(R)[R]
  BY <1>1, <1>2, SumsAgree
<1>6. QED
  BY <1>3, <1>4, <1>5

(* Two summands that agree on a set have the same sum over it. *)
LEMMA SumSame ==
  ASSUME NEW f, NEW g, NEW S, IsFiniteSet(S), \A x \in S : f[x] = g[x]
  PROVE  SumOf(f, S) = SumOf(g, S)
<1> DEFINE B == {T \in SUBSET S : SumOf(f, T) # SumOf(g, T)}
<1>1. SUFFICES ASSUME B # {} PROVE FALSE
  OBVIOUS
<1>2. PICK T \in B : \A U \in B : U \subseteq T => U = T
  <2>1. B \in SUBSET SUBSET S
    OBVIOUS
  <2> HIDE DEF B
  <2>2. QED
    BY <1>1, <2>1, MinimalSet
<1>3. T # {} /\ IsFiniteSet(T)
  <2>1. T # {}
    BY SumEmpty
  <2>2. QED
    BY <2>1, FS_Subset
<1>4. First(T) \in T /\ T \ {First(T)} # T
  BY <1>3, FirstIsIn
<1>5. SumOf(f, T \ {First(T)}) = SumOf(g, T \ {First(T)})
  <2>1. T \ {First(T)} \notin B
    BY <1>2, <1>4
  <2>2. QED
    BY <2>1
<1>6. QED
  BY <1>3, <1>4, <1>5, SumFirst

LEMMA SumInt ==
  ASSUME NEW f, NEW S, IsFiniteSet(S), \A x \in S : f[x] \in Int
  PROVE  SumOf(f, S) \in Int
<1> DEFINE B == {T \in SUBSET S : SumOf(f, T) \notin Int}
<1>1. SUFFICES ASSUME B # {} PROVE FALSE
  OBVIOUS
<1>2. PICK T \in B : \A U \in B : U \subseteq T => U = T
  <2>1. B \in SUBSET SUBSET S
    OBVIOUS
  <2> HIDE DEF B
  <2>2. QED
    BY <1>1, <2>1, MinimalSet
<1>3. T # {} /\ IsFiniteSet(T)
  <2>1. T # {}
    BY SumEmpty
  <2>2. QED
    BY <2>1, FS_Subset
<1>4. First(T) \in T /\ T \ {First(T)} # T
  BY <1>3, FirstIsIn
<1>5. SumOf(f, T \ {First(T)}) \in Int
  <2>1. T \ {First(T)} \notin B
    BY <1>2, <1>4
  <2>2. QED
    BY <2>1
<1>6. QED
  BY <1>3, <1>4, <1>5, SumFirst

(* Any element may be taken out first. *)
LEMMA SumRemove ==
  ASSUME NEW f, NEW S, IsFiniteSet(S), \A x \in S : f[x] \in Int, NEW a \in S
  PROVE  SumOf(f, S) = f[a] + SumOf(f, S \ {a})
<1> DEFINE B == {T \in SUBSET S : \E x \in T : SumOf(f, T) # f[x] + SumOf(f, T \ {x})}
<1>1. SUFFICES ASSUME B # {} PROVE FALSE
  <2>1. S \notin B
    BY <1>1
  <2>2. QED
    BY <2>1
<1>2. PICK T \in B : \A U \in B : U \subseteq T => U = T
  <2>1. B \in SUBSET SUBSET S
    OBVIOUS
  <2> HIDE DEF B
  <2>2. QED
    BY <1>1, <2>1, MinimalSet
<1>3. PICK x \in T : SumOf(f, T) # f[x] + SumOf(f, T \ {x})
  OBVIOUS
<1> DEFINE c == First(T)
<1>4. T \subseteq S /\ IsFiniteSet(T) /\ T # {}
  BY FS_Subset
<1>5. c \in T /\ SumOf(f, T) = f[c] + SumOf(f, T \ {c})
  BY <1>4, SumFirst, FirstIsIn
<1>6. c # x
  BY <1>3, <1>5
<1> HIDE DEF c
<1>7. SumOf(f, T \ {c}) = f[x] + SumOf(f, (T \ {c}) \ {x})
  <2>1. T \ {c} \notin B
    BY <1>2, <1>5
  <2>2. QED
    BY <1>4, <1>6, <2>1
<1>8. SumOf(f, T \ {x}) = f[c] + SumOf(f, (T \ {x}) \ {c})
  <2>1. T \ {x} \notin B
    BY <1>2
  <2>2. QED
    BY <1>4, <1>5, <1>6, <2>1
<1>9. SumOf(f, (T \ {c}) \ {x}) \in Int /\ f[c] \in Int /\ f[x] \in Int
  <2>1. IsFiniteSet((T \ {c}) \ {x}) /\ (T \ {c}) \ {x} \subseteq S
    BY <1>4, FS_Subset
  <2>2. QED
    BY <1>4, <1>5, <2>1, SumInt
<1>10. (T \ {c}) \ {x} = (T \ {x}) \ {c}
  OBVIOUS
<1>11. QED
  BY <1>3, <1>5, <1>7, <1>8, <1>9, <1>10

(* One summand changes, the others stay. *)
LEMMA SumChange ==
  ASSUME NEW f, NEW g, NEW S, IsFiniteSet(S), NEW a \in S,
         \A x \in S : f[x] \in Int /\ g[x] \in Int,
         \A x \in S \ {a} : g[x] = f[x]
  PROVE  SumOf(g, S) = SumOf(f, S) + g[a] - f[a]
<1>1. IsFiniteSet(S \ {a})
  BY FS_Subset
<1>2. SumOf(g, S \ {a}) = SumOf(f, S \ {a})
  BY <1>1, SumSame
<1>3. SumOf(f, S) = f[a] + SumOf(f, S \ {a}) /\ SumOf(g, S) = g[a] + SumOf(g, S \ {a})
  BY SumRemove
<1>4. SumOf(f, S \ {a}) \in Int
  BY <1>1, SumInt
<1>5. QED
  BY <1>2, <1>3, <1>4

(* An element joins the set. *)
LEMMA SumJoin ==
  ASSUME NEW f, NEW S, IsFiniteSet(S), NEW a, a \notin S,
         \A x \in S \cup {a} : f[x] \in Int
  PROVE  SumOf(f, S \cup {a}) = f[a] + SumOf(f, S)
<1>1. IsFiniteSet(S \cup {a}) /\ (S \cup {a}) \ {a} = S
  BY FS_AddElement
<1>2. QED
  BY <1>1, SumRemove

-----------------------------------------------------------------------------
(* Comparing sums *)

(* Summand by summand: the sum of the sums. *)
LEMMA SumAdd ==
  ASSUME NEW f, NEW g, NEW h, NEW S, IsFiniteSet(S),
         \A x \in S : f[x] \in Int /\ g[x] \in Int /\ h[x] = f[x] + g[x]
  PROVE  SumOf(h, S) = SumOf(f, S) + SumOf(g, S)
<1> DEFINE B == {T \in SUBSET S : SumOf(h, T) # SumOf(f, T) + SumOf(g, T)}
<1>1. SUFFICES ASSUME B # {} PROVE FALSE
  OBVIOUS
<1>2. PICK T \in B : \A U \in B : U \subseteq T => U = T
  <2>1. B \in SUBSET SUBSET S
    OBVIOUS
  <2> HIDE DEF B
  <2>2. QED
    BY <1>1, <2>1, MinimalSet
<1>3. T # {} /\ IsFiniteSet(T)
  <2>1. SumOf(f, {}) = 0 /\ SumOf(g, {}) = 0 /\ SumOf(h, {}) = 0
    BY SumEmpty
  <2>2. SumOf(h, {}) = SumOf(f, {}) + SumOf(g, {})
    BY <2>1
  <2>3. T # {}
    BY <2>2, Zenon
  <2>4. QED
    BY <2>3, FS_Subset
<1> DEFINE c == First(T)
           R == T \ {c}
<1>4. c \in T /\ R # T
  BY <1>3, FirstIsIn
<1>5. SumOf(h, R) = SumOf(f, R) + SumOf(g, R)
  <2>1. R \notin B
    BY <1>2, <1>4
  <2>2. QED
    BY <2>1
<1>6. /\ SumOf(f, T) = f[c] + SumOf(f, R)
      /\ SumOf(g, T) = g[c] + SumOf(g, R)
      /\ SumOf(h, T) = h[c] + SumOf(h, R)
  BY <1>3, SumFirst
<1>7. SumOf(f, R) \in Int /\ SumOf(g, R) \in Int
  <2>1. IsFiniteSet(R) /\ R \subseteq S
    BY <1>3, FS_Subset
  <2>2. QED
    BY <2>1, SumInt
<1>8. f[c] \in Int /\ g[c] \in Int /\ h[c] = f[c] + g[c]
  BY <1>4
<1>9. SumOf(h, T) # SumOf(f, T) + SumOf(g, T)
  OBVIOUS
<1> HIDE DEF R, c, B
<1>10. QED
  BY <1>5, <1>6, <1>7, <1>8, <1>9

(* No summand is larger: the sum is not either. *)
LEMMA SumMono ==
  ASSUME NEW f, NEW g, NEW S, IsFiniteSet(S),
         \A x \in S : f[x] \in Int /\ g[x] \in Int /\ f[x] <= g[x]
  PROVE  SumOf(f, S) <= SumOf(g, S)
<1> DEFINE B == {T \in SUBSET S : ~ SumOf(f, T) <= SumOf(g, T)}
<1>1. SUFFICES ASSUME B # {} PROVE FALSE
  OBVIOUS
<1>2. PICK T \in B : \A U \in B : U \subseteq T => U = T
  <2>1. B \in SUBSET SUBSET S
    OBVIOUS
  <2> HIDE DEF B
  <2>2. QED
    BY <1>1, <2>1, MinimalSet
<1>3. T # {} /\ IsFiniteSet(T)
  <2>1. T # {}
    BY SumEmpty
  <2>2. QED
    BY <2>1, FS_Subset
<1> DEFINE c == First(T)
           R == T \ {c}
<1>4. c \in T /\ R # T
  BY <1>3, FirstIsIn
<1>5. SumOf(f, R) <= SumOf(g, R)
  <2>1. R \notin B
    BY <1>2, <1>4
  <2>2. QED
    BY <2>1
<1>6. SumOf(f, T) = f[c] + SumOf(f, R) /\ SumOf(g, T) = g[c] + SumOf(g, R)
  BY <1>3, SumFirst
<1>7. SumOf(f, R) \in Int /\ SumOf(g, R) \in Int
  <2>1. IsFiniteSet(R) /\ R \subseteq S
    BY <1>3, FS_Subset
  <2>2. QED
    BY <2>1, SumInt
<1>8. f[c] \in Int /\ g[c] \in Int /\ f[c] <= g[c]
  BY <1>4
<1>9. ~ SumOf(f, T) <= SumOf(g, T)
  OBVIOUS
<1> HIDE DEF R, c, B
<1>10. QED
  BY <1>5, <1>6, <1>7, <1>8, <1>9

(* Summands of zero *)
LEMMA SumZero ==
  ASSUME NEW f, NEW S, IsFiniteSet(S), \A x \in S : f[x] = 0
  PROVE  SumOf(f, S) = 0
<1> DEFINE B == {T \in SUBSET S : SumOf(f, T) # 0}
<1>1. SUFFICES ASSUME B # {} PROVE FALSE
  OBVIOUS
<1>2. PICK T \in B : \A U \in B : U \subseteq T => U = T
  <2>1. B \in SUBSET SUBSET S
    OBVIOUS
  <2> HIDE DEF B
  <2>2. QED
    BY <1>1, <2>1, MinimalSet
<1>3. T # {} /\ IsFiniteSet(T)
  <2>1. T # {}
    BY SumEmpty
  <2>2. QED
    BY <2>1, FS_Subset
<1>4. First(T) \in T /\ SumOf(f, T \ {First(T)}) = 0
  <2>1. T \ {First(T)} \notin B /\ First(T) \in T
    BY <1>2, <1>3, FirstIsIn
  <2>2. QED
    BY <2>1
<1>5. QED
  BY <1>3, <1>4, SumFirst

(* Summands of zero may be left out. *)
LEMMA SumSupport ==
  ASSUME NEW f, NEW S, IsFiniteSet(S), NEW T \in SUBSET S, \A x \in S : f[x] \in Int,
         \A x \in S \ T : f[x] = 0
  PROVE  SumOf(f, S) = SumOf(f, T)
<1> DEFINE B == {U \in SUBSET (S \ T) : SumOf(f, T \cup U) # SumOf(f, T)}
<1>1. SUFFICES ASSUME B # {} PROVE FALSE
  <2>1. S \ T \notin B
    BY <1>1
  <2>2. T \cup (S \ T) = S
    OBVIOUS
  <2>3. QED
    BY <2>1, <2>2
<1>2. PICK U \in B : \A V \in B : V \subseteq U => V = U
  <2>1. B \in SUBSET SUBSET (S \ T) /\ IsFiniteSet(S \ T)
    BY FS_Subset
  <2> HIDE DEF B
  <2>2. QED
    BY <1>1, <2>1, MinimalSet
<1>3. U \subseteq S \ T /\ SumOf(f, T \cup U) # SumOf(f, T)
  OBVIOUS
<1>4. U # {}
  <2>1. T \cup {} = T
    OBVIOUS
  <2>2. QED
    BY <1>3, <2>1
<1>5. PICK c \in U : TRUE
  BY <1>4
<1> DEFINE R == U \ {c}
<1>6. SumOf(f, T \cup R) = SumOf(f, T)
  <2>1. R \subseteq S \ T /\ R # U /\ R \subseteq U
    BY <1>3, <1>5
  <2>2. QED
    BY <1>2, <2>1
<1>7. /\ IsFiniteSet(T \cup R) /\ c \notin T \cup R /\ (T \cup R) \cup {c} = T \cup U
      /\ T \cup R \subseteq S /\ c \in S /\ f[c] = 0
  BY <1>3, <1>5, FS_Subset
<1> DEFINE Q == T \cup R
<1>8. \A x \in Q \cup {c} : f[x] \in Int
  BY <1>7
<1>9. SumOf(f, Q \cup {c}) = f[c] + SumOf(f, Q) /\ SumOf(f, Q) \in Int
  <2>1. IsFiniteSet(Q) /\ c \notin Q
    BY <1>7
  <2> HIDE DEF Q
  <2>2. QED
    BY <1>8, <2>1, SumJoin, SumInt
<1>10. SumOf(f, Q \cup {c}) = SumOf(f, Q)
  <2> HIDE DEF Q
  <2>1. QED
    BY <1>7, <1>9
<1>11. QED
  BY <1>3, <1>6, <1>7, <1>10

(* A sum of naturals is one, and no summand exceeds it. *)
LEMMA SumNat ==
  ASSUME NEW f, NEW S, IsFiniteSet(S), \A x \in S : f[x] \in Nat
  PROVE  SumOf(f, S) \in Nat /\ \A x \in S : f[x] <= SumOf(f, S)
<1>1. ASSUME NEW T \in SUBSET S PROVE SumOf(f, T) \in Nat
  <2> DEFINE z == [x \in T |-> 0]
  <2>1. IsFiniteSet(T)
    BY FS_Subset
  <2>2. SumOf(z, T) = 0
    BY <2>1, SumZero
  <2>3. SumOf(z, T) <= SumOf(f, T)
    BY <2>1, SumMono
  <2>4. SumOf(f, T) \in Int
    BY <2>1, SumInt
  <2>5. QED
    BY <2>2, <2>3, <2>4
<1>2. ASSUME NEW x \in S PROVE f[x] <= SumOf(f, S)
  <2>1. SumOf(f, S) = f[x] + SumOf(f, S \ {x})
    BY SumRemove
  <2>2. SumOf(f, S \ {x}) \in Nat
    BY <1>1
  <2>3. QED
    BY <2>1, <2>2
<1>3. QED
  BY <1>1, <1>2

(* No summand exceeds k. *)
LEMMA SumAtMost ==
  ASSUME NEW f, NEW S, IsFiniteSet(S), NEW k \in Int,
         \A x \in S : f[x] \in Int /\ f[x] <= k
  PROVE  SumOf(f, S) <= Cardinality(S) * k
<1> DEFINE B == {T \in SUBSET S : ~ SumOf(f, T) <= Cardinality(T) * k}
<1>1. SUFFICES ASSUME B # {} PROVE FALSE
  <2>1. S \notin B
    BY <1>1
  <2>2. QED
    BY <2>1
<1>2. PICK T \in B : \A U \in B : U \subseteq T => U = T
  <2>1. B \in SUBSET SUBSET S
    OBVIOUS
  <2> HIDE DEF B
  <2>2. QED
    BY <1>1, <2>1, MinimalSet
<1>3. T # {} /\ IsFiniteSet(T)
  <2>1. SumOf(f, {}) = 0 /\ Cardinality({}) = 0
    BY SumEmpty, FS_EmptySet
  <2>2. SumOf(f, {}) <= Cardinality({}) * k
    BY <2>1
  <2>3. T # {}
    BY <2>2, Zenon
  <2>4. QED
    BY <2>3, FS_Subset
<1> DEFINE c == First(T)
           R == T \ {c}
<1>4. c \in T /\ R # T
  BY <1>3, FirstIsIn
<1>5. SumOf(f, R) <= Cardinality(R) * k
  <2>1. R \notin B
    BY <1>2, <1>4
  <2>2. QED
    BY <2>1
<1>6. SumOf(f, T) = f[c] + SumOf(f, R)
  BY <1>3, SumFirst
<1>7. /\ IsFiniteSet(R) /\ SumOf(f, R) \in Int
      /\ Cardinality(R) \in Nat /\ Cardinality(T) = Cardinality(R) + 1
  <2>1. IsFiniteSet(R) /\ R \subseteq S
    BY <1>3, FS_Subset
  <2>2. Cardinality(R) = Cardinality(T) - 1
    BY <1>3, <1>4, FS_RemoveElement
  <2>3. QED
    BY <1>3, <2>1, <2>2, SumInt, FS_CardinalityType
<1>8. f[c] \in Int /\ f[c] <= k
  BY <1>4
<1>9. ~ SumOf(f, T) <= Cardinality(T) * k
  OBVIOUS
<1>10. \A n \in Nat : (n + 1) * k = n * k + k /\ n * k \in Int
  OBVIOUS
<1> HIDE DEF R, c, B
<1>11. QED
  BY <1>5, <1>6, <1>7, <1>8, <1>9, <1>10

(* A finite set of integers has a largest element. *)
LEMMA MaxIsLargest ==
  ASSUME NEW S, IsFiniteSet(S), S # {}, \A x \in S : x \in Int
  PROVE  Max(S) \in S /\ \A x \in S : x <= Max(S)
<1> DEFINE B == {T \in SUBSET S : T # {} /\ ~ \E m \in T : \A x \in T : m >= x}
<1>1. B = {}
  <2>1. SUFFICES ASSUME B # {} PROVE FALSE
    OBVIOUS
  <2>2. PICK T \in B : \A U \in B : U \subseteq T => U = T
    <3>1. B \in SUBSET SUBSET S
      OBVIOUS
    <3> HIDE DEF B
    <3>2. QED
      BY <2>1, <3>1, MinimalSet
  <2>3. PICK c \in T : TRUE
    OBVIOUS
  <2>4. T \ {c} \notin B
    BY <2>2, <2>3
  <2>5. CASE T \ {c} = {}
    <3>1. \A x \in T : c >= x
      BY <2>3, <2>5
    <3>2. QED
      BY <2>3, <3>1
  <2>6. CASE T \ {c} # {}
    <3>1. PICK m \in T \ {c} : \A x \in T \ {c} : m >= x
      BY <2>4, <2>6
    <3>2. CASE m >= c
      BY <3>1, <3>2
    <3>3. CASE ~ m >= c
      <4>1. \A x \in T : c >= x
        BY <2>3, <3>1, <3>3
      <4>2. QED
        BY <2>3, <4>1
    <3>4. QED
      BY <3>2, <3>3
  <2>7. QED
    BY <2>5, <2>6
<1>2. S \notin B
  BY <1>1
<1>3. \E m \in S : \A x \in S : m >= x
  BY <1>2
<1>4. Max(S) \in S /\ \A x \in S : Max(S) >= x
  BY <1>3 DEF Max
<1>5. QED
  BY <1>4

(* Counting by groups: a sum over indices, each of them the weight of the  *)
(* group it is in, is the sum over the groups of size times weight.        *)
LEMMA SumGrouped ==
  ASSUME NEW I, NEW A, IsFiniteSet(I), IsFiniteSet(A), NEW g, NEW w,
         \A i \in I : g[i] \in A, \A a \in A : w[a] \in Int
  PROVE  SumOf([i \in I |-> w[g[i]]], I)
           = SumOf([a \in A |-> Cardinality({i \in I : g[i] = a}) * w[a]], A)
<1> DEFINE W    == [i \in I |-> w[g[i]]]
           G(J) == [a \in A |-> Cardinality({i \in J : g[i] = a}) * w[a]]
           B    == {J \in SUBSET I : SumOf(W, J) # SumOf(G(J), A)}
<1>1. SUFFICES ASSUME B # {} PROVE FALSE
  <2>1. I \notin B
    BY <1>1
  <2>2. QED
    BY <2>1
<1>2. PICK J \in B : \A U \in B : U \subseteq J => U = J
  <2>1. B \in SUBSET SUBSET I
    OBVIOUS
  <2> HIDE DEF B
  <2>2. QED
    BY <1>1, <2>1, MinimalSet
<1>3. J \subseteq I /\ IsFiniteSet(J) /\ SumOf(W, J) # SumOf(G(J), A)
  BY FS_Subset
<1>4. ASSUME NEW K \in SUBSET I, NEW a \in A
      PROVE  /\ IsFiniteSet({i \in K : g[i] = a})
             /\ Cardinality({i \in K : g[i] = a}) \in Nat
             /\ G(K)[a] = Cardinality({i \in K : g[i] = a}) * w[a]
             /\ G(K)[a] \in Int
  <2>1. IsFiniteSet({i \in K : g[i] = a})
    BY FS_Subset
  <2>2. Cardinality({i \in K : g[i] = a}) \in Nat
    BY <2>1, FS_CardinalityType
  <2>3. QED
    BY <2>1, <2>2
<1>5. J # {}
  <2>1. ASSUME J = {} PROVE FALSE
    <3>1. \A a \in A : {i \in J : g[i] = a} = {}
      BY <2>1
    <3>2. \A a \in A : G(J)[a] = 0
      BY <3>1, FS_EmptySet
    <3>3. SumOf(G(J), A) = 0
      BY <3>2, SumZero
    <3>4. SumOf(W, {}) = 0
      BY SumEmpty
    <3>5. QED
      BY <1>3, <2>1, <3>3, <3>4
  <2>2. QED
    BY <2>1
<1>6. PICK c \in J : TRUE
  BY <1>5
<1> DEFINE K == J \ {c}
           b == g[c]
<1>7. c \in I /\ b \in A /\ K \subseteq I /\ K # J
  BY <1>3
<1>8. SumOf(W, K) = SumOf(G(K), A)
  <2>1. K \notin B
    BY <1>2, <1>7
  <2>2. QED
    BY <1>7, <2>1
<1>9. SumOf(W, J) = w[b] + SumOf(W, K)
  <2>1. \A i \in J : W[i] \in Int
    BY <1>3
  <2>2. W[c] = w[b]
    BY <1>7
  <2> HIDE DEF W
  <2>3. QED
    BY <1>3, <2>1, <2>2, SumRemove
<1>10. SumOf(G(J), A) = SumOf(G(K), A) + G(J)[b] - G(K)[b]
  <2>1. \A a \in A \ {b} : {i \in J : g[i] = a} = {i \in K : g[i] = a}
    OBVIOUS
  <2>2. \A a \in A \ {b} : G(J)[a] = G(K)[a]
    BY <2>1
  <2>3. \A a \in A : G(J)[a] \in Int /\ G(K)[a] \in Int
    BY <1>3, <1>4, <1>7
  <2> HIDE DEF G, b, K
  <2>4. QED
    BY <1>7, <2>2, <2>3, SumChange
<1>11. G(J)[b] = G(K)[b] + w[b]
  <2> DEFINE L == {i \in K : g[i] = b}
  <2>1. {i \in J : g[i] = b} = L \cup {c} /\ c \notin L
    BY <1>7
  <2>2. IsFiniteSet(L) /\ Cardinality(L) \in Nat /\ G(K)[b] = Cardinality(L) * w[b]
    BY <1>4, <1>7
  <2>3. Cardinality(L \cup {c}) = Cardinality(L) + 1
    BY <2>1, <2>2, FS_AddElement
  <2>4. G(J)[b] = (Cardinality(L) + 1) * w[b]
    BY <1>3, <1>4, <1>7, <2>1, <2>3
  <2>5. \A n \in Nat, x \in Int : (n + 1) * x = n * x + x
    OBVIOUS
  <2>6. w[b] \in Int
    BY <1>7
  <2> HIDE DEF L, G, b
  <2>7. QED
    BY <2>2, <2>4, <2>5, <2>6
<1>12. SumOf(G(K), A) \in Int /\ w[b] \in Int /\ G(K)[b] \in Int
  <2>1. \A a \in A : G(K)[a] \in Int
    BY <1>4, <1>7
  <2>2. w[b] \in Int
    BY <1>7
  <2> HIDE DEF G, b, K
  <2>3. QED
    BY <1>7, <2>1, <2>2, SumInt
<1>13. SumOf(W, J) = SumOf(G(J), A)
  <2> HIDE DEF W, G, K, b
  <2>1. QED
    BY <1>8, <1>9, <1>10, <1>11, <1>12
<1>14. QED
  BY <1>3, <1>13
=============================================================================
