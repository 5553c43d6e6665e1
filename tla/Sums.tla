----------------------------------- MODULE Sums -----------------------------------
(***************************************************************************)
(* Sums over finite sets, as MapThenSumSet folds them: the order in which  *)
(* it happens to take the elements does not matter, so a sum is the term   *)
(* of any one element and the sum of the rest.                             *)
(***************************************************************************)
EXTENDS Integers, FiniteSets, FiniteSetsExt, FiniteSetTheorems, WellFoundedInduction, TLAPS

\* The sum of f[x] for x in S.
SumOf(f, S) == MapThenSumSet(LAMBDA x : f[x], S)

\* G gives the sum of f over every part of S, whichever element is taken first.
IsSum(f, S, G) ==
    /\ G \in [SUBSET S -> Int]
    /\ G[{}] = 0
    /\ \A T \in SUBSET S : \A x \in T : G[T] = f[x] + G[T \ {x}]

(* A set of finite parts has a least one: induction without a predicate.   *)
LEMMA LeastPart ==
    ASSUME NEW S, IsFiniteSet(S), NEW Parts \in SUBSET SUBSET S, Parts # {}
    PROVE  \E T \in Parts : \A U \in Parts : ~(U \subseteq T /\ U # T)
<1>1. FiniteSubsetsOf(S) = SUBSET S
    BY FS_FiniteSubsetsOfFinite
<1>2. IsWellFoundedOn(StrictSubsetOrdering(S), SUBSET S)
    BY <1>1, FS_StrictSubsetOrderingWellFounded
<1>3. PICK T \in Parts : \A U \in Parts : ~(<<U, T>> \in StrictSubsetOrdering(S))
    BY <1>2, WFMin
<1>4. ASSUME NEW U \in Parts, U \subseteq T, U # T
      PROVE  <<U, T>> \in StrictSubsetOrdering(S)
  <2> DEFINE ss == <<U, T>>
  <2>1. ss \in (SUBSET S) \X (SUBSET S) /\ ss[1] = U /\ ss[2] = T
      OBVIOUS
  <2> HIDE DEF ss
  <2>2. ss \in StrictSubsetOrdering(S)
      BY <1>4, <2>1 DEF StrictSubsetOrdering
  <2> QED
      BY <2>2 DEF ss
<1>5. \A U \in Parts : ~(U \subseteq T /\ U # T)
    BY <1>3, <1>4
<1> QED
    BY <1>5

(* One more element: it is counted wherever it occurs.                     *)
LEMMA SumsOneMore ==
    ASSUME NEW S, NEW f, NEW x \in S, \A y \in S : f[y] \in Int,
           NEW H, IsSum(f, S \ {x}, H)
    PROVE  \E G : IsSum(f, S, G)
<1> DEFINE G == [T \in SUBSET S |-> IF x \in T THEN f[x] + H[T \ {x}] ELSE H[T]]
<1>1. \A T \in SUBSET S : x \in T => G[T] = f[x] + H[T \ {x}] /\ T \ {x} \in SUBSET (S \ {x})
    OBVIOUS
<1>2. \A T \in SUBSET S : x \notin T => G[T] = H[T] /\ T \in SUBSET (S \ {x})
    OBVIOUS
<1>3. \A T \in SUBSET (S \ {x}) : H[T] \in Int
    BY DEF IsSum
<1>4. G \in [SUBSET S -> Int]
  <2>1. \A T \in SUBSET S : G[T] \in Int
      BY <1>1, <1>2, <1>3
  <2> QED
      BY <2>1
<1>5. G[{}] = 0
    BY <1>2 DEF IsSum
<1>6. ASSUME NEW T \in SUBSET S, NEW y \in T
      PROVE  G[T] = f[y] + G[T \ {y}]
  <2>1. T \ {y} \in SUBSET S /\ y \in S
      OBVIOUS
  <2>2. CASE x \notin T
    <3>1. H[T] = f[y] + H[T \ {y}]
        BY <1>2, <2>2 DEF IsSum
    <3> QED
        BY <3>1, <2>1, <1>2, <2>2
  <2>3. CASE x = y
    <3>1. G[T] = f[x] + H[T \ {x}]
        BY <1>1, <2>3
    <3>2. G[T \ {x}] = H[T \ {x}]
        BY <1>2, <2>1, <2>3
    <3> QED
        BY <3>1, <3>2, <2>3
  <2>4. CASE x \in T /\ x # y
    <3>1. T \ {x} \in SUBSET (S \ {x}) /\ y \in T \ {x}
        BY <2>4
    <3>2. H[T \ {x}] = f[y] + H[(T \ {x}) \ {y}]
        BY <3>1 DEF IsSum
    <3>3. (T \ {x}) \ {y} = (T \ {y}) \ {x}
        OBVIOUS
    <3>4. G[T] = f[x] + H[T \ {x}] /\ G[T \ {y}] = f[x] + H[(T \ {y}) \ {x}]
        BY <1>1, <2>1, <2>4
    <3>5. f[x] \in Int /\ f[y] \in Int /\ H[(T \ {x}) \ {y}] \in Int
        BY <1>3, <2>1, <3>1
    <3> HIDE DEF G
    <3>6. G[T \ {y}] = f[x] + H[(T \ {x}) \ {y}]
        BY <3>3, <3>4
    <3>7. G[T] = f[x] + (f[y] + H[(T \ {x}) \ {y}])
        BY <3>2, <3>4
    <3> QED
        BY <3>5, <3>6, <3>7
  <2> QED
      BY <2>2, <2>3, <2>4
<1> HIDE DEF G
<1> QED
    BY <1>4, <1>5, <1>6 DEF IsSum

LEMMA SumsExist ==
    ASSUME NEW S, IsFiniteSet(S), NEW f, \A x \in S : f[x] \in Int
    PROVE  \E G : IsSum(f, S, G)
<1> DEFINE Without == {T \in SUBSET S : ~\E G : IsSum(f, T, G)}
<1>1. SUFFICES ASSUME Without # {} PROVE FALSE
    OBVIOUS
<1>2. PICK T \in Without : \A U \in Without : ~(U \subseteq T /\ U # T)
  <2>1. Without \in SUBSET SUBSET S
      OBVIOUS
  <2> HIDE DEF Without
  <2> QED
      BY <1>1, <2>1, LeastPart
<1>3. CASE T = {}
  <2>1. IsSum(f, {}, [U \in {{}} |-> 0])
      BY DEF IsSum
  <2> QED
      BY <2>1, <1>3
<1>4. CASE T # {}
  <2>1. PICK x \in T : TRUE
      BY <1>4
  <2>2. T \ {x} \notin Without
      BY <1>2
  <2>3. PICK H : IsSum(f, T \ {x}, H)
      BY <2>2
  <2>4. \A y \in T : f[y] \in Int
      OBVIOUS
  <2>5. \E G : IsSum(f, T, G)
      BY <2>3, <2>4, SumsOneMore
  <2> QED
      BY <2>5
<1> QED
    BY <1>3, <1>4

(* A function that folds the elements in some order gives the sums.        *)
IsFold(f, S, G) ==
    G = [s \in SUBSET S |->
            IF s = {} THEN 0
            ELSE f[CHOOSE x \in s : TRUE] + G[s \ {CHOOSE x \in s : TRUE}]]

LEMMA SumsFold ==
    ASSUME NEW S, NEW f, NEW G, IsSum(f, S, G)
    PROVE  IsFold(f, S, G)
<1>1. \A s \in SUBSET S : s # {} => (CHOOSE x \in s : TRUE) \in s
    OBVIOUS
<1>2. \A s \in SUBSET S : G[s] = IF s = {} THEN 0
                                 ELSE f[CHOOSE x \in s : TRUE] + G[s \ {CHOOSE x \in s : TRUE}]
    BY <1>1 DEF IsSum
<1>3. G = [s \in SUBSET S |-> G[s]]
    BY DEF IsSum
<1> QED
    BY <1>2, <1>3 DEF IsFold

LEMMA FoldsAgree ==
    ASSUME NEW S, IsFiniteSet(S), NEW f, NEW G, NEW H, IsFold(f, S, G), IsFold(f, S, H)
    PROVE  G = H
<1> DEFINE Differ == {T \in SUBSET S : G[T] # H[T]}
<1>1. Differ = {}
  <2> SUFFICES ASSUME Differ # {} PROVE FALSE
      OBVIOUS
  <2>1. PICK T \in Differ : \A U \in Differ : ~(U \subseteq T /\ U # T)
    <3>1. Differ \in SUBSET SUBSET S
        OBVIOUS
    <3> HIDE DEF Differ
    <3> QED
        BY <3>1, LeastPart
  <2> DEFINE x == CHOOSE y \in T : TRUE
  <2>2. G[T] = (IF T = {} THEN 0 ELSE f[x] + G[T \ {x}])
      BY <2>1 DEF IsFold
  <2>3. H[T] = (IF T = {} THEN 0 ELSE f[x] + H[T \ {x}])
      BY <2>1 DEF IsFold
  <2>4. T # {} => G[T \ {x}] = H[T \ {x}]
    <3>1. T # {} => x \in T
        OBVIOUS
    <3> QED
        BY <3>1, <2>1
  <2> QED
      BY <2>1, <2>2, <2>3, <2>4
<1>2. G = [T \in SUBSET S |-> G[T]] /\ H = [T \in SUBSET S |-> H[T]]
    BY DEF IsFold
<1> QED
    BY <1>1, <1>2

LEMMA FoldExists ==
    ASSUME NEW S, IsFiniteSet(S), NEW f, \A x \in S : f[x] \in Int
    PROVE  \E G : IsSum(f, S, G) /\ IsFold(f, S, G)
BY SumsExist, SumsFold

-------------------------------------------------------------------------------
LEMMA SumIs ==
    ASSUME NEW S, IsFiniteSet(S), NEW f, \A x \in S : f[x] \in Int, NEW G, IsSum(f, S, G)
    PROVE  SumOf(f, S) = G[S]
<1> DEFINE iter == CHOOSE H : IsFold(f, S, H)
<1>1. SumOf(f, S) = iter[S]
    BY DEF SumOf, MapThenSumSet, MapThenFoldSet, IsFold
<1>2. IsFold(f, S, G)
    BY SumsFold
<1>3. IsFold(f, S, iter)
    BY <1>2
<1> HIDE DEF iter
<1> QED
    BY <1>1, <1>2, <1>3, FoldsAgree

LEMMA SumOfPart ==
    ASSUME NEW S, IsFiniteSet(S), NEW f, \A x \in S : f[x] \in Int, NEW G, IsSum(f, S, G),
           NEW T \in SUBSET S
    PROVE  SumOf(f, T) = G[T]
<1> DEFINE H == [U \in SUBSET T |-> G[U]]
<1>1. IsSum(f, T, H)
    BY DEF IsSum
<1>2. IsFiniteSet(T)
    BY FS_Subset
<1>3. H[T] = G[T]
    OBVIOUS
<1> HIDE DEF H
<1> QED
    BY <1>1, <1>2, <1>3, SumIs

(* The sum of no terms, and of one more.                                   *)
LEMMA SumEmpty ==
    ASSUME NEW f
    PROVE  SumOf(f, {}) = 0
<1>1. IsSum(f, {}, [U \in {{}} |-> 0])
    BY DEF IsSum
<1> QED
    BY <1>1, SumIs, FS_EmptySet

LEMMA SumAdd ==
    ASSUME NEW S, IsFiniteSet(S), NEW f, \A y \in S : f[y] \in Int, NEW x \in S
    PROVE  /\ SumOf(f, S) \in Int
           /\ SumOf(f, S \ {x}) \in Int
           /\ SumOf(f, S) = f[x] + SumOf(f, S \ {x})
<1>1. PICK G : IsSum(f, S, G)
    BY SumsExist
<1>2. S \in SUBSET S /\ S \ {x} \in SUBSET S
    OBVIOUS
<1>3. SumOf(f, S) = G[S] /\ SumOf(f, S \ {x}) = G[S \ {x}]
    BY <1>1, <1>2, SumOfPart
<1> QED
    BY <1>1, <1>2, <1>3 DEF IsSum

LEMMA SumType ==
    ASSUME NEW S, IsFiniteSet(S), NEW f, \A y \in S : f[y] \in Int
    PROVE  SumOf(f, S) \in Int
<1>1. CASE S = {}
    BY <1>1, SumEmpty
<1>2. CASE S # {}
    BY <1>2, SumAdd
<1> QED
    BY <1>1, <1>2

(* Terms outside the set do not matter; one that changes is the only change. *)
LEMMA SumSame ==
    ASSUME NEW S, IsFiniteSet(S), NEW f, NEW g, \A y \in S : f[y] \in Int /\ g[y] = f[y]
    PROVE  SumOf(g, S) = SumOf(f, S)
<1>1. PICK G : IsSum(f, S, G)
    BY SumsExist
<1>2. IsSum(g, S, G)
    BY <1>1 DEF IsSum
<1> QED
    BY <1>1, <1>2, SumIs

LEMMA SumZero ==
    ASSUME NEW S, IsFiniteSet(S), NEW f, \A y \in S : f[y] = 0
    PROVE  SumOf(f, S) = 0
<1>1. IsSum(f, S, [T \in SUBSET S |-> 0])
    BY DEF IsSum
<1> QED
    BY <1>1, SumIs

LEMMA SumChange ==
    ASSUME NEW S, IsFiniteSet(S), NEW f, NEW g, NEW x \in S,
           \A y \in S : f[y] \in Int /\ g[y] \in Int,
           \A y \in S \ {x} : g[y] = f[y]
    PROVE  SumOf(g, S) - SumOf(f, S) = g[x] - f[x]
<1>1. IsFiniteSet(S \ {x})
    BY FS_RemoveElement
<1>2. SumOf(g, S \ {x}) = SumOf(f, S \ {x})
    BY <1>1, SumSame
<1>3. /\ SumOf(f, S \ {x}) \in Int
      /\ SumOf(f, S) = f[x] + SumOf(f, S \ {x})
      /\ SumOf(g, S) = g[x] + SumOf(g, S \ {x})
    BY SumAdd
<1> QED
    BY <1>2, <1>3

LEMMA SumOfOne ==
    ASSUME NEW f, NEW x, f[x] \in Int
    PROVE  IsFiniteSet({x}) /\ SumOf(f, {x}) = f[x]
<1>1. IsFiniteSet({x})
    BY FS_Singleton
<1>2. {x} \ {x} = {}
    OBVIOUS
<1> QED
    BY <1>1, <1>2, SumAdd, SumEmpty

LEMMA SumOfTwo ==
    ASSUME NEW f, NEW x, NEW y, x # y, f[x] \in Int, f[y] \in Int
    PROVE  SumOf(f, {x, y}) = f[x] + f[y]
<1>1. IsFiniteSet({x, y})
  <2>1. {x, y} = {x} \union {y}
      OBVIOUS
  <2>2. IsFiniteSet({x} \union {y})
      BY FS_Singleton, FS_AddElement
  <2> QED
      BY <2>1, <2>2
<1>2. {x, y} \ {x} = {y}
    OBVIOUS
<1>3. SumOf(f, {x, y}) = f[x] + SumOf(f, {y})
    BY <1>1, <1>2, SumAdd
<1> QED
    BY <1>3, SumOfOne
===============================================================================
