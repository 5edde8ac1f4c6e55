------------------------ MODULE EventProcessor_proofs ------------------------
(***************************************************************************)
(* What the decisions of EventProcessor guarantee about the rows they      *)
(* write, for every store whose rows have their types.                     *)
(*                                                                         *)
(* The first part is about SumFunctionOnSet, the sum of a function over a  *)
(* finite set of indices, in which the stock of a zone and the totals of a *)
(* product are expressed.  The sum is the value at S of a table of partial *)
(* sums over the subsets of S; all the proofs are by induction over        *)
(* subsets.                                                                *)
(***************************************************************************)
EXTENDS EventProcessor, FiniteSetTheorems, WellFoundedInduction, SequenceTheorems, TLAPS

(* Induction over the subsets of a finite set, with the property given as  *)
(* the set G of the subsets that have it.                                  *)
LEMMA SubsetInduction ==
    ASSUME NEW S, IsFiniteSet(S), NEW G,
           \A T \in SUBSET S : (\A U \in SUBSET T : U # T => U \in G) => T \in G
    PROVE  \A T \in SUBSET S : T \in G
<1> DEFINE Bad == (SUBSET S) \ G
<1> SUFFICES ASSUME Bad # {} PROVE FALSE
    OBVIOUS
<1>1. IsWellFoundedOn(StrictSubsetOrdering(S), SUBSET S)
    <2>1. IsWellFoundedOn(StrictSubsetOrdering(S), FiniteSubsetsOf(S))
        BY FS_StrictSubsetOrderingWellFounded, Zenon
    <2>2. FiniteSubsetsOf(S) = SUBSET S
        BY FS_FiniteSubsetsOfFinite, Zenon
    <2> QED BY <2>1, <2>2, Zenon
<1>2. PICK T \in Bad : \A U \in Bad : <<U, T>> \notin StrictSubsetOrdering(S)
    <2>1. Bad \subseteq SUBSET S
        OBVIOUS
    <2> HIDE DEF Bad
    <2> QED BY <1>1, <2>1, WFMin
<1>3. \A U \in SUBSET T : U # T => U \in G
    BY <1>2 DEF StrictSubsetOrdering
<1> QED BY <1>2, <1>3

-----------------------------------------------------------------------------
(* The table of partial sums that SumFunctionOnSet computes. *)

Any(T) == CHOOSE x \in T : TRUE

IsSumTable(f, S, h) ==
    h = [T \in SUBSET S |-> IF T = {} THEN 0 ELSE f[Any(T)] + h[T \ {Any(T)}]]

SumTable(f, S) == CHOOSE h : IsSumTable(f, S, h)

LEMMA SumIsTable ==
    ASSUME NEW f, NEW S
    PROVE  SumFunctionOnSet(f, S) = SumTable(f, S)[S]
BY DEF SumFunctionOnSet, FoldFunctionOnSet, MapThenFoldSet, SumTable, IsSumTable, Any

LEMMA AnyMember == ASSUME NEW T, T # {} PROVE Any(T) \in T
BY DEF Any

(* Two tables agree on a set on which their functions agree.               *)
LEMMA TablesAgree ==
    ASSUME NEW f, NEW S, NEW h, IsSumTable(f, S, h),
           NEW f2, NEW S2, NEW h2, IsSumTable(f2, S2, h2),
           NEW T, IsFiniteSet(T), T \subseteq S, T \subseteq S2,
           \A x \in T : f[x] = f2[x]
    PROVE  h[T] = h2[T]
<1> DEFINE G == {U \in SUBSET T : h[U] = h2[U]}
<1>1. ASSUME NEW U \in SUBSET T, \A V \in SUBSET U : V # U => V \in G
      PROVE  U \in G
    <2>1. CASE U = {}
        BY <2>1 DEF IsSumTable
    <2>2. CASE U # {}
        <3> DEFINE c == Any(U)
        <3>1. c \in U /\ U \ {c} # U /\ U \ {c} \in SUBSET U
            BY <2>2, AnyMember
        <3>2. h[U \ {c}] = h2[U \ {c}]
            BY <1>1, <3>1
        <3>3. h[U] = f[c] + h[U \ {c}]
            BY <2>2 DEF IsSumTable
        <3>4. h2[U] = f2[c] + h2[U \ {c}]
            BY <2>2 DEF IsSumTable
        <3> QED BY <3>1, <3>2, <3>3, <3>4
    <2> QED BY <2>1, <2>2
<1> HIDE DEF G
<1>2. \A U \in SUBSET T : U \in G
    BY <1>1, SubsetInduction
<1> QED BY <1>2 DEF G

LEMMA TableExists ==
    ASSUME NEW f, NEW S, IsFiniteSet(S)
    PROVE  IsSumTable(f, S, SumTable(f, S))
<1> DEFINE G == {T \in SUBSET S : IsSumTable(f, T, SumTable(f, T))}
<1>1. ASSUME NEW T \in SUBSET S, \A U \in SUBSET T : U # T => U \in G
      PROVE  T \in G
    <2> DEFINE val(U) == IF U = {} THEN 0
                         ELSE f[Any(U)] + SumTable(f, U \ {Any(U)})[U \ {Any(U)}]
               h == [U \in SUBSET T |-> val(U)]
    <2>1. ASSUME NEW V \in SUBSET T, V # T PROVE SumTable(f, V)[V] = val(V)
        <3>1. IsSumTable(f, V, SumTable(f, V))
            BY <1>1, <2>1
        <3>2. CASE V = {}
            BY <3>1, <3>2 DEF IsSumTable
        <3>3. CASE V # {}
            <4> DEFINE W == V \ {Any(V)}
            <4>1. W \in SUBSET T /\ W # T /\ W \subseteq V
                BY <2>1
            <4>2. IsSumTable(f, W, SumTable(f, W))
                BY <1>1, <4>1
            <4>3. IsFiniteSet(W)
                BY <4>1, FS_Subset
            <4>4. SumTable(f, V)[W] = SumTable(f, W)[W]
                BY <3>1, <4>1, <4>2, <4>3, TablesAgree
            <4>5. SumTable(f, V)[V] = f[Any(V)] + SumTable(f, V)[W]
                BY <3>1, <3>3 DEF IsSumTable
            <4> QED BY <4>4, <4>5, <3>3
        <3> QED BY <3>2, <3>3
    <2>2. ASSUME NEW U \in SUBSET T, U # {}
          PROVE  val(U) = f[Any(U)] + h[U \ {Any(U)}]
        <3> DEFINE V == U \ {Any(U)}
        <3>1. V \in SUBSET T /\ V # T
            BY <2>2, AnyMember
        <3> HIDE DEF V
        <3>2. h[V] = SumTable(f, V)[V]
            BY <3>1, <2>1
        <3> QED BY <3>2, <2>2 DEF V
    <2>3. IsSumTable(f, T, h)
        BY <2>2 DEF IsSumTable
    <2> HIDE DEF h
    <2>4. IsSumTable(f, T, SumTable(f, T))
        BY <2>3 DEF SumTable
    <2> QED BY <2>4
<1> HIDE DEF G
<1>2. \A T \in SUBSET S : T \in G
    BY <1>1, SubsetInduction
<1> QED BY <1>2 DEF G

-----------------------------------------------------------------------------
(* The two equations of the sum. *)

LEMMA SumEmpty == ASSUME NEW f PROVE SumFunctionOnSet(f, {}) = 0
<1>1. IsSumTable(f, {}, SumTable(f, {}))
    BY FS_EmptySet, TableExists
<1> QED BY <1>1, SumIsTable DEF IsSumTable

LEMMA SumAny ==
    ASSUME NEW f, NEW S, IsFiniteSet(S), S # {}
    PROVE  SumFunctionOnSet(f, S) = f[Any(S)] + SumFunctionOnSet(f, S \ {Any(S)})
<1> DEFINE R == S \ {Any(S)}
<1>1. IsSumTable(f, S, SumTable(f, S))
    BY TableExists
<1>2. IsFiniteSet(R) /\ R \subseteq S
    BY FS_RemoveElement
<1>3. IsSumTable(f, R, SumTable(f, R))
    BY <1>2, TableExists
<1>4. SumTable(f, S)[R] = SumTable(f, R)[R]
    BY <1>1, <1>2, <1>3, TablesAgree
<1>5. SumTable(f, S)[S] = f[Any(S)] + SumTable(f, S)[R]
    BY <1>1 DEF IsSumTable
<1> QED BY <1>4, <1>5, SumIsTable

(* The sum depends on the function only through its values on the set.     *)
LEMMA SumEqual ==
    ASSUME NEW f, NEW g, NEW S, IsFiniteSet(S), \A x \in S : f[x] = g[x]
    PROVE  SumFunctionOnSet(f, S) = SumFunctionOnSet(g, S)
<1>1. IsSumTable(f, S, SumTable(f, S)) /\ IsSumTable(g, S, SumTable(g, S))
    BY TableExists
<1>2. SumTable(f, S)[S] = SumTable(g, S)[S]
    BY <1>1, TablesAgree
<1> QED BY <1>2, SumIsTable

(* A sum of integers is an integer, a sum of naturals a natural.           *)
LEMMA SumInt ==
    ASSUME NEW f, NEW S, IsFiniteSet(S), \A x \in S : f[x] \in Int
    PROVE  SumFunctionOnSet(f, S) \in Int
<1> DEFINE G == {T \in SUBSET S : SumFunctionOnSet(f, T) \in Int}
<1>1. ASSUME NEW T \in SUBSET S, \A U \in SUBSET T : U # T => U \in G
      PROVE  T \in G
    <2>1. CASE T = {}
        BY <2>1, SumEmpty
    <2>2. CASE T # {}
        <3>1. Any(T) \in T
            BY <2>2, AnyMember
        <3>2. T \ {Any(T)} \in G
            BY <1>1, <3>1
        <3>3. IsFiniteSet(T)
            BY FS_Subset
        <3> QED BY <2>2, <3>1, <3>2, <3>3, SumAny
    <2> QED BY <2>1, <2>2
<1> HIDE DEF G
<1>2. \A T \in SUBSET S : T \in G
    BY <1>1, SubsetInduction
<1> QED BY <1>2 DEF G

LEMMA SumNat ==
    ASSUME NEW f, NEW S, IsFiniteSet(S), \A x \in S : f[x] \in Nat
    PROVE  SumFunctionOnSet(f, S) \in Nat
<1> DEFINE G == {T \in SUBSET S : SumFunctionOnSet(f, T) \in Nat}
<1>1. ASSUME NEW T \in SUBSET S, \A U \in SUBSET T : U # T => U \in G
      PROVE  T \in G
    <2>1. CASE T = {}
        BY <2>1, SumEmpty
    <2>2. CASE T # {}
        <3>1. Any(T) \in T
            BY <2>2, AnyMember
        <3>2. T \ {Any(T)} \in G
            BY <1>1, <3>1
        <3>3. IsFiniteSet(T)
            BY FS_Subset
        <3> QED BY <2>2, <3>1, <3>2, <3>3, SumAny
    <2> QED BY <2>1, <2>2
<1> HIDE DEF G
<1>2. \A T \in SUBSET S : T \in G
    BY <1>1, SubsetInduction
<1> QED BY <1>2 DEF G

(* Sums add up pointwise.                                                  *)
LEMMA SumAdd ==
    ASSUME NEW f, NEW d, NEW g, NEW S, IsFiniteSet(S),
           \A x \in S : f[x] \in Int /\ d[x] \in Int /\ g[x] = f[x] + d[x]
    PROVE  SumFunctionOnSet(g, S) = SumFunctionOnSet(f, S) + SumFunctionOnSet(d, S)
<1> DEFINE G == {T \in SUBSET S : SumFunctionOnSet(g, T)
                                  = SumFunctionOnSet(f, T) + SumFunctionOnSet(d, T)}
<1>1. ASSUME NEW T \in SUBSET S, \A U \in SUBSET T : U # T => U \in G
      PROVE  T \in G
    <2>1. CASE T = {}
        BY <2>1, SumEmpty
    <2>2. CASE T # {}
        <3> DEFINE c == Any(T)
                   R == T \ {c}
        <3>1. c \in T
            BY <2>2, AnyMember
        <3>2. SumFunctionOnSet(g, R) = SumFunctionOnSet(f, R) + SumFunctionOnSet(d, R)
            BY <1>1, <3>1
        <3>3. IsFiniteSet(T) /\ IsFiniteSet(R)
            BY FS_Subset
        <3>4. SumFunctionOnSet(f, R) \in Int /\ SumFunctionOnSet(d, R) \in Int
            BY <3>3, SumInt
        <3>5. /\ SumFunctionOnSet(f, T) = f[c] + SumFunctionOnSet(f, R)
              /\ SumFunctionOnSet(d, T) = d[c] + SumFunctionOnSet(d, R)
              /\ SumFunctionOnSet(g, T) = g[c] + SumFunctionOnSet(g, R)
            BY <2>2, <3>3, SumAny
        <3>6. f[c] \in Int /\ d[c] \in Int /\ g[c] = f[c] + d[c]
            BY <3>1
        <3> QED BY <3>2, <3>4, <3>5, <3>6
    <2> QED BY <2>1, <2>2
<1> HIDE DEF G
<1>2. \A T \in SUBSET S : T \in G
    BY <1>1, SubsetInduction
<1> QED BY <1>2 DEF G

(* Any element may be taken out of the sum.                                *)
LEMMA SumRemove ==
    ASSUME NEW f, NEW S, IsFiniteSet(S), \A y \in S : f[y] \in Int, NEW x \in S
    PROVE  SumFunctionOnSet(f, S) = f[x] + SumFunctionOnSet(f, S \ {x})
<1> DEFINE G == {T \in SUBSET S : \A y \in T :
                    SumFunctionOnSet(f, T) = f[y] + SumFunctionOnSet(f, T \ {y})}
<1>1. ASSUME NEW T \in SUBSET S, \A U \in SUBSET T : U # T => U \in G
      PROVE  T \in G
    <2> SUFFICES ASSUME NEW y \in T
                 PROVE  SumFunctionOnSet(f, T) = f[y] + SumFunctionOnSet(f, T \ {y})
        OBVIOUS
    <2> DEFINE c == Any(T)
               R == T \ {c}
               Q == T \ {y}
    <2>1. c \in T
        BY AnyMember
    <2>2. IsFiniteSet(T)
        BY FS_Subset
    <2>3. SumFunctionOnSet(f, T) = f[c] + SumFunctionOnSet(f, R)
        BY <2>2, SumAny
    <2>4. CASE y = c
        BY <2>3, <2>4
    <2>5. CASE y # c
        <3>1. SumFunctionOnSet(f, R) = f[y] + SumFunctionOnSet(f, R \ {y})
            <4>1. R \in G /\ y \in R
                BY <1>1, <2>1, <2>5
            <4> QED BY <4>1
        <3>2. SumFunctionOnSet(f, Q) = f[c] + SumFunctionOnSet(f, Q \ {c})
            <4>1. Q \in G /\ c \in Q
                BY <1>1, <2>1, <2>5
            <4> QED BY <4>1
        <3>3. R \ {y} = Q \ {c}
            OBVIOUS
        <3>4. SumFunctionOnSet(f, R \ {y}) \in Int
            <4>1. IsFiniteSet(R \ {y})
                BY <2>2, FS_Subset
            <4> QED BY <4>1, SumInt
        <3>5. f[c] \in Int /\ f[y] \in Int
            BY <2>1
        <3>6. SumFunctionOnSet(f, R \ {y}) = SumFunctionOnSet(f, Q \ {c})
            BY <3>3
        <3> HIDE DEF c, R, Q
        <3>7. SumFunctionOnSet(f, T) = f[y] + SumFunctionOnSet(f, Q)
            BY <2>3, <3>1, <3>2, <3>4, <3>5, <3>6
        <3> QED BY <3>7 DEF Q
    <2> QED BY <2>4, <2>5
<1> HIDE DEF G
<1>2. \A T \in SUBSET S : T \in G
    BY <1>1, SubsetInduction
<1> QED BY <1>2 DEF G

(* Indices at which the function is zero do not count.                     *)
LEMMA SumSupport ==
    ASSUME NEW d, NEW S, IsFiniteSet(S), NEW D \in SUBSET S,
           \A x \in S : d[x] \in Int, \A x \in S \ D : d[x] = 0
    PROVE  SumFunctionOnSet(d, S) = SumFunctionOnSet(d, D)
<1> DEFINE G == {T \in SUBSET S : SumFunctionOnSet(d, T) = SumFunctionOnSet(d, T \cap D)}
<1>1. ASSUME NEW T \in SUBSET S, \A U \in SUBSET T : U # T => U \in G
      PROVE  T \in G
    <2>1. CASE T = {}
        <3>1. T \cap D = T
            BY <2>1
        <3> QED BY <3>1
    <2>2. CASE T # {}
        <3> DEFINE c == Any(T)
                   R == T \ {c}
        <3>1. c \in T
            BY <2>2, AnyMember
        <3>2. SumFunctionOnSet(d, R) = SumFunctionOnSet(d, R \cap D)
            BY <1>1, <3>1
        <3>3. IsFiniteSet(T) /\ IsFiniteSet(T \cap D) /\ IsFiniteSet(R)
            BY FS_Subset
        <3>4. SumFunctionOnSet(d, T) = d[c] + SumFunctionOnSet(d, R)
            BY <2>2, <3>3, SumAny
        <3>5. CASE c \in D
            <4>1. SumFunctionOnSet(d, T \cap D) = d[c] + SumFunctionOnSet(d, (T \cap D) \ {c})
                BY <3>1, <3>3, <3>5, SumRemove
            <4>2. (T \cap D) \ {c} = R \cap D
                OBVIOUS
            <4> QED BY <3>2, <3>4, <4>1, <4>2
        <3>6. CASE c \notin D
            <4>1. T \cap D = R \cap D /\ d[c] = 0
                BY <3>1, <3>6
            <4>2. SumFunctionOnSet(d, R) \in Int
                BY <3>3, SumInt
            <4>3. SumFunctionOnSet(d, T) = SumFunctionOnSet(d, R)
                BY <3>4, <4>1, <4>2
            <4> QED BY <3>2, <4>1, <4>3
        <3> QED BY <3>5, <3>6
    <2> QED BY <2>1, <2>2
<1> HIDE DEF G
<1>2. S \in G
    BY <1>1, SubsetInduction
<1>3. S \cap D = D
    OBVIOUS
<1> QED BY <1>2, <1>3 DEF G

(* Changing a function by d on a part D of the set changes its sum by the  *)
(* sum of d over D.                                                        *)
LEMMA SumUpdate ==
    ASSUME NEW f, NEW g, NEW d, NEW S, IsFiniteSet(S), NEW D \in SUBSET S,
           \A x \in S : f[x] \in Int,
           \A x \in D : d[x] \in Int /\ g[x] = f[x] + d[x],
           \A x \in S \ D : g[x] = f[x]
    PROVE  SumFunctionOnSet(g, S) = SumFunctionOnSet(f, S) + SumFunctionOnSet(d, D)
<1> DEFINE e == [x \in S |-> IF x \in D THEN d[x] ELSE 0]
<1>1. \A x \in S : f[x] \in Int /\ e[x] \in Int /\ g[x] = f[x] + e[x]
    OBVIOUS
<1>2. \A x \in S \ D : e[x] = 0
    OBVIOUS
<1>3. \A x \in D : e[x] = d[x]
    OBVIOUS
<1>4. IsFiniteSet(D)
    BY FS_Subset
<1> HIDE DEF e
<1>5. SumFunctionOnSet(g, S) = SumFunctionOnSet(f, S) + SumFunctionOnSet(e, S)
    BY <1>1, SumAdd
<1>6. SumFunctionOnSet(e, S) = SumFunctionOnSet(e, D)
    BY <1>1, <1>2, SumSupport
<1>7. SumFunctionOnSet(e, D) = SumFunctionOnSet(d, D)
    BY <1>3, <1>4, SumEqual
<1> QED BY <1>5, <1>6, <1>7

(* The sum over two disjoint sets.                                         *)
LEMMA SumUnion ==
    ASSUME NEW f, NEW A, NEW B, IsFiniteSet(A), IsFiniteSet(B), A \cap B = {},
           \A x \in A \cup B : f[x] \in Int
    PROVE  SumFunctionOnSet(f, A \cup B) = SumFunctionOnSet(f, A) + SumFunctionOnSet(f, B)
<1> DEFINE S == A \cup B
           fa == [x \in S |-> IF x \in A THEN f[x] ELSE 0]
           fb == [x \in S |-> IF x \in B THEN f[x] ELSE 0]
<1>1. IsFiniteSet(S)
    BY FS_Union
<1>2. \A x \in S : fa[x] \in Int /\ fb[x] \in Int /\ f[x] = fa[x] + fb[x]
    OBVIOUS
<1>3. /\ \A x \in A : f[x] = fa[x]
      /\ \A x \in B : f[x] = fb[x]
      /\ \A x \in S \ A : fa[x] = 0
      /\ \A x \in S \ B : fb[x] = 0
    OBVIOUS
<1> HIDE DEF fa, fb
<1>4. SumFunctionOnSet(f, S) = SumFunctionOnSet(fa, S) + SumFunctionOnSet(fb, S)
    BY <1>1, <1>2, SumAdd
<1>5. SumFunctionOnSet(fa, S) = SumFunctionOnSet(fa, A)
    BY <1>1, <1>2, <1>3, SumSupport
<1>6. SumFunctionOnSet(fb, S) = SumFunctionOnSet(fb, B)
    BY <1>1, <1>2, <1>3, SumSupport
<1>7. SumFunctionOnSet(fa, A) = SumFunctionOnSet(f, A)
    BY <1>3, SumEqual
<1>8. SumFunctionOnSet(fb, B) = SumFunctionOnSet(f, B)
    BY <1>3, SumEqual
<1> QED BY <1>4, <1>5, <1>6, <1>7, <1>8

LEMMA SumOne == ASSUME NEW f, NEW x, f[x] \in Int PROVE SumFunctionOnSet(f, {x}) = f[x]
<1>1. IsFiniteSet({x}) /\ {x} \ {x} = {}
    BY FS_Singleton
<1>2. SumFunctionOnSet(f, {x}) = f[x] + SumFunctionOnSet(f, {x} \ {x})
    BY <1>1, SumRemove
<1>3. SumFunctionOnSet(f, {x} \ {x}) = 0
    BY <1>1, SumEmpty
<1> QED BY <1>2, <1>3

(* The lines <<o, i>> of one order add up as their numbers i do.           *)
LEMMA SumOfPairs ==
    ASSUME NEW o, NEW I, IsFiniteSet(I), NEW f, NEW g,
           \A i \in I : g[i] \in Int /\ f[<<o, i>>] = g[i]
    PROVE  /\ IsFiniteSet({<<o, i>> : i \in I})
           /\ SumFunctionOnSet(f, {<<o, i>> : i \in I}) = SumFunctionOnSet(g, I)
<1> DEFINE Pairs(U) == {<<o, i>> : i \in U}
           G == {U \in SUBSET I : /\ IsFiniteSet(Pairs(U))
                                  /\ SumFunctionOnSet(f, Pairs(U)) = SumFunctionOnSet(g, U)}
<1>1. ASSUME NEW T \in SUBSET I, \A U \in SUBSET T : U # T => U \in G
      PROVE  T \in G
    <2>1. CASE T = {}
        <3>1. Pairs(T) = {}
            BY <2>1
        <3>2. SumFunctionOnSet(f, {}) = 0 /\ SumFunctionOnSet(g, {}) = 0
            BY SumEmpty
        <3> QED BY <2>1, <3>1, <3>2, FS_EmptySet
    <2>2. CASE T # {}
        <3>1. PICK c \in T : TRUE
            BY <2>2
        <3> DEFINE R == T \ {c}
        <3>2. IsFiniteSet(Pairs(R)) /\ SumFunctionOnSet(f, Pairs(R)) = SumFunctionOnSet(g, R)
            <4>1. R \in SUBSET T /\ R # T
                BY <3>1
            <4> QED BY <1>1, <4>1
        <3>3. Pairs(T) = Pairs(R) \cup {<<o, c>>} /\ Pairs(T) \ {<<o, c>>} = Pairs(R)
            BY <3>1
        <3>4. IsFiniteSet(Pairs(T)) /\ IsFiniteSet(T)
            BY <3>2, <3>3, FS_AddElement, FS_Subset
        <3>5. \A x \in Pairs(T) : f[x] \in Int
            OBVIOUS
        <3>6. <<o, c>> \in Pairs(T) /\ f[<<o, c>>] = g[c]
            BY <3>1
        <3> HIDE DEF Pairs
        <3>7. SumFunctionOnSet(f, Pairs(T))
                = f[<<o, c>>] + SumFunctionOnSet(f, Pairs(T) \ {<<o, c>>})
            BY <3>4, <3>5, <3>6, SumRemove
        <3>8. \A i \in T : g[i] \in Int
            OBVIOUS
        <3>9. SumFunctionOnSet(g, T) = g[c] + SumFunctionOnSet(g, T \ {c})
            BY <3>1, <3>4, <3>8, SumRemove
        <3>10. SumFunctionOnSet(f, Pairs(T)) = SumFunctionOnSet(g, T)
            BY <3>2, <3>3, <3>6, <3>7, <3>9
        <3> QED BY <3>4, <3>10
    <2> QED BY <2>1, <2>2
<1> HIDE DEF G
<1>2. I \in G
    BY <1>1, SubsetInduction
<1> QED BY <1>2 DEF G

-----------------------------------------------------------------------------
(* Finite sets *)

(* A part of a sum of naturals is no more than the sum.                    *)
LEMMA SumPart ==
    ASSUME NEW f, NEW S, IsFiniteSet(S), \A y \in S : f[y] \in Nat, NEW x \in S
    PROVE  f[x] <= SumFunctionOnSet(f, S)
<1>1. \A y \in S : f[y] \in Int
    OBVIOUS
<1>2. SumFunctionOnSet(f, S) = f[x] + SumFunctionOnSet(f, S \ {x})
    BY <1>1, SumRemove
<1>3. IsFiniteSet(S \ {x}) /\ \A y \in S \ {x} : f[y] \in Nat
    BY FS_RemoveElement
<1>4. SumFunctionOnSet(f, S \ {x}) \in Nat
    BY <1>3, SumNat
<1> QED BY <1>2, <1>4

(* The values of a function on a finite set are finitely many.             *)
LEMMA ImageFinite ==
    ASSUME NEW f, NEW S, IsFiniteSet(S)
    PROVE  IsFiniteSet({f[x] : x \in S}) /\ Cardinality({f[x] : x \in S}) <= Cardinality(S)
<1> DEFINE g == [x \in S |-> f[x]]
           T == {f[x] : x \in S}
<1>1. g \in Surjection(S, T)
    BY DEF Surjection
<1> QED BY <1>1, FS_Surjection

(* A function that gives different members different values keeps the      *)
(* cardinality of the set.                                                 *)
LEMMA ImageSize ==
    ASSUME NEW f, NEW S, IsFiniteSet(S), \A x, y \in S : f[x] = f[y] => x = y
    PROVE  Cardinality({f[x] : x \in S}) = Cardinality(S)
<1> DEFINE g == [x \in S |-> f[x]]
           T == {f[x] : x \in S}
<1>1. g \in Surjection(S, T)
    BY DEF Surjection
<1>2. g \in Injection(S, T)
    BY DEF Injection, IsInjective
<1> QED BY <1>1, <1>2, FS_Surjection

-----------------------------------------------------------------------------
(* The stores the lemmas are about: the columns have their types and the   *)
(* items stored with an order are those _normalize_items let by.           *)
StoreOK(s) ==
    /\ s.inventory \in [Keys -> Rows]
    /\ s.totals \in [Products -> TotalRows]
    /\ s.orders \in [OrderIds -> OrderRows \cup {NoOrder}]
    /\ \A o \in OrderIds : s.orders[o] # NoOrder => ItemsWellFormed(s.orders[o].items)

(* The event passed the checks that come before those of the sums.         *)
Checked(s, e) == WellFormed(e) /\ StockSuffices(s, e) /\ OrderAllows(s, e)

(* The event passed every check of its handler.                            *)
Accepted(s, e) ==
    /\ WellFormed(e)
    /\ StockSuffices(s, e)
    /\ OrderAllows(s, e)
    /\ FitsZones(s, e)
    /\ TotalsNonNegative(s, e)

LEMMA AppliedIsAccepted ==
    ASSUME NEW s, NEW processed, NEW e, ProcessAction(s, processed, e) = "applied"
    PROVE  Accepted(s, e) /\ ~Stale(s, e) /\ e.event_id \notin processed
BY DEF ProcessAction, Accepted

LEMMA KeysFinite == IsFiniteSet(Keys)
BY FiniteStock, FS_Product DEF Keys

(* The keys of checked items are keys of inventory rows, and the quantity  *)
(* asked for at each of them is a natural number.                          *)
LEMMA GroupedItems ==
    ASSUME NEW items \in Seq(Items), ItemsWellFormed(items)
    PROVE  /\ ItemKeys(items) \subseteq Keys
           /\ \A k : GroupedQuantity(items, k) \in Nat
<1>1. DOMAIN items = 1 .. Len(items) /\ Len(items) \in Nat
    BY LenProperties
<1>2. \A i \in DOMAIN items : items[i] \in Items
    BY <1>1, ElementOfSeq
<1>3. \A i \in DOMAIN items : /\ items[i].product_id \in Products
                              /\ items[i].zone_id \in ZoneIds
                              /\ items[i].quantity \in Nat
    BY <1>2 DEF ItemsWellFormed, Items
<1>4. ItemKeys(items) \subseteq Keys
    BY <1>3 DEF ItemKeys, Keys
<1>5. ASSUME NEW k PROVE GroupedQuantity(items, k) \in Nat
    <2> DEFINE q == [i \in DOMAIN items |-> items[i].quantity]
               D == {i \in DOMAIN items : <<items[i].product_id, items[i].zone_id>> = k}
    <2>1. IsFiniteSet(DOMAIN items)
        BY <1>1, FS_Interval
    <2>2. D \in SUBSET DOMAIN items
        OBVIOUS
    <2>3. IsFiniteSet(D)
        BY <2>1, <2>2, FS_Subset
    <2>4. \A i \in D : q[i] \in Nat
        BY <1>3
    <2>5. GroupedQuantity(items, k) = SumFunctionOnSet(q, D)
        BY DEF GroupedQuantity
    <2> HIDE DEF q, D
    <2> QED BY <2>3, <2>4, <2>5, SumNat
<1> QED BY <1>4, <1>5

(* Every row a checked event touches is a row of the table, and its new    *)
(* quantities are natural numbers.                                         *)
LEMMA CheckedRows ==
    ASSUME NEW s, StoreOK(s), NEW e \in EventRecords, Checked(s, e), NEW k \in TouchedKeys(s, e)
    PROVE  /\ k \in Keys
           /\ DeltaAvailable(s, e, k) \in Int
           /\ DeltaReserved(s, e, k) \in Int
           /\ s.inventory[k].available + DeltaAvailable(s, e, k) >= 0
           /\ s.inventory[k].reserved + DeltaReserved(s, e, k) >= 0
<1> USE DEF ProductEventTypes, OrderEventTypes
<1> DEFINE row == <<e.product_id, e.zone_id>>
<1>1. e \in EventRecords
    OBVIOUS
<1>2. WellFormed(e) /\ StockSuffices(s, e) /\ OrderAllows(s, e)
    BY DEF Checked
<1>3. \A j \in Keys : /\ s.inventory[j].available \in Nat
                      /\ s.inventory[j].reserved \in Nat
    BY DEF StoreOK, Rows
<1>4. CASE e.event_type \in ProductEventTypes
    <2>1. k = row /\ row \in Keys
        <3>1. e.product_id \in Products /\ e.zone_id \in ZoneIds
            BY <1>1, <1>2, <1>4 DEF WellFormed, EventRecords
        <3>2. k = row
            BY <1>4 DEF TouchedKeys
        <3> QED BY <3>1, <3>2 DEF Keys
    <2>2. e.quantity \in Int /\ e.counted_quantity \in Int
        BY <1>1 DEF EventRecords
    <2>3. CASE e.event_type = "PRODUCT_RECEIVED"
        <3>1. e.quantity > 0
            BY <1>2, <2>3 DEF WellFormed
        <3>2. DeltaAvailable(s, e, k) = e.quantity /\ DeltaReserved(s, e, k) = 0
            BY <2>3 DEF DeltaAvailable, DeltaReserved
        <3> QED BY <1>3, <2>1, <2>2, <3>1, <3>2
    <2>4. CASE e.event_type = "PRODUCT_SHIPPED"
        <3>1. s.inventory[row].available >= e.quantity
            BY <1>2, <2>4 DEF StockSuffices
        <3>2. DeltaAvailable(s, e, k) = -e.quantity /\ DeltaReserved(s, e, k) = 0
            BY <2>4 DEF DeltaAvailable, DeltaReserved
        <3> QED BY <1>3, <2>1, <2>2, <3>1, <3>2
    <2>5. CASE e.event_type = "PRODUCT_RESERVED"
        <3>1. s.inventory[row].available >= e.quantity /\ e.quantity > 0
            BY <1>2, <2>5 DEF StockSuffices, WellFormed
        <3>2. DeltaAvailable(s, e, k) = -e.quantity /\ DeltaReserved(s, e, k) = e.quantity
            BY <2>5 DEF DeltaAvailable, DeltaReserved
        <3> QED BY <1>3, <2>1, <2>2, <3>1, <3>2
    <2>6. CASE e.event_type = "PRODUCT_RELEASED"
        <3>1. s.inventory[row].reserved >= e.quantity /\ e.quantity > 0
            BY <1>2, <2>6 DEF StockSuffices, WellFormed
        <3>2. DeltaAvailable(s, e, k) = e.quantity /\ DeltaReserved(s, e, k) = -e.quantity
            BY <2>6 DEF DeltaAvailable, DeltaReserved
        <3> QED BY <1>3, <2>1, <2>2, <3>1, <3>2
    <2>7. CASE e.event_type = "INVENTORY_COUNTED"
        <3>1. e.counted_quantity >= 0
            BY <1>2, <2>7 DEF WellFormed
        <3>2. /\ DeltaAvailable(s, e, k) = e.counted_quantity - s.inventory[k].available
              /\ DeltaReserved(s, e, k) = 0
            BY <2>7 DEF DeltaAvailable, DeltaReserved
        <3> QED BY <1>3, <2>1, <2>2, <3>1, <3>2
    <2> QED BY <1>4, <2>3, <2>4, <2>5, <2>6, <2>7
<1>5. CASE e.event_type = "PRODUCT_MOVED"
    <2> DEFINE source == <<e.product_id, e.from_zone_id>>
               target == <<e.product_id, e.to_zone_id>>
    <2>1. /\ e.product_id \in Products /\ e.quantity \in Int /\ e.quantity > 0
          /\ e.from_zone_id \in ZoneIds /\ e.to_zone_id \in ZoneIds
          /\ e.from_zone_id # e.to_zone_id
        BY <1>1, <1>2, <1>5 DEF WellFormed, EventRecords
    <2>2. source \in Keys /\ target \in Keys /\ (k = source \/ k = target)
        BY <1>5, <2>1 DEF TouchedKeys, Keys
    <2>3. s.inventory[source].available >= e.quantity
        BY <1>2, <1>5 DEF StockSuffices
    <2>4. /\ DeltaAvailable(s, e, k) = IF k[2] = e.from_zone_id THEN -e.quantity ELSE e.quantity
          /\ DeltaReserved(s, e, k) = 0
        BY <1>5 DEF DeltaAvailable, DeltaReserved
    <2> QED BY <1>3, <2>1, <2>2, <2>3, <2>4
<1>6. CASE e.event_type = "ORDER_CREATED"
    <2>1. e.items \in Seq(Items) /\ ItemsWellFormed(e.items)
        BY <1>1, <1>2, <1>6 DEF WellFormed, EventRecords
    <2>2. k \in ItemKeys(e.items)
        BY <1>6 DEF TouchedKeys
    <2>3. k \in Keys /\ GroupedQuantity(e.items, k) \in Nat
        BY <2>1, <2>2, GroupedItems
    <2>4. s.inventory[k].available >= GroupedQuantity(e.items, k)
        BY <1>2, <1>6, <2>2 DEF OrderAllows
    <2>5. /\ DeltaAvailable(s, e, k) = -GroupedQuantity(e.items, k)
          /\ DeltaReserved(s, e, k) = GroupedQuantity(e.items, k)
        BY <1>6 DEF DeltaAvailable, DeltaReserved
    <2> QED BY <1>3, <2>3, <2>4, <2>5
<1>7. CASE e.event_type = "ORDER_COMPLETED"
    <2> DEFINE items == s.orders[e.order_id].items
    <2>1. e.order_id \in OrderIds
        BY <1>1, <1>2, <1>7 DEF WellFormed, EventRecords
    <2>2. s.orders[e.order_id] # NoOrder
        BY <1>2, <1>7 DEF OrderAllows
    <2>3. items \in Seq(Items) /\ ItemsWellFormed(items)
        BY <2>1, <2>2 DEF StoreOK, OrderRows
    <2>4. k \in ItemKeys(items)
        BY <1>7 DEF TouchedKeys
    <2>5. k \in Keys /\ GroupedQuantity(items, k) \in Nat
        BY <2>3, <2>4, GroupedItems
    <2>6. s.inventory[k].reserved >= GroupedQuantity(items, k)
        BY <1>2, <1>7, <2>4 DEF OrderAllows
    <2>7. DeltaAvailable(s, e, k) = 0 /\ DeltaReserved(s, e, k) = -GroupedQuantity(items, k)
        BY <1>7 DEF DeltaAvailable, DeltaReserved
    <2> QED BY <1>3, <2>5, <2>6, <2>7
<1>8. e.event_type \in EventTypes
    BY <1>2 DEF WellFormed
<1> QED BY <1>4, <1>5, <1>6, <1>7, <1>8 DEF EventTypes

LEMMA AcceptedRows ==
    ASSUME NEW s, StoreOK(s), NEW e \in EventRecords, Accepted(s, e), NEW k \in TouchedKeys(s, e)
    PROVE  /\ k \in Keys
           /\ DeltaAvailable(s, e, k) \in Int
           /\ DeltaReserved(s, e, k) \in Int
           /\ s.inventory[k].available + DeltaAvailable(s, e, k) >= 0
           /\ s.inventory[k].reserved + DeltaReserved(s, e, k) >= 0
BY CheckedRows DEF Accepted, Checked

(* The supplier of a touched row stays a supplier or null.                 *)
LEMMA AcceptedSupplier ==
    ASSUME NEW s, StoreOK(s), NEW e \in EventRecords, Accepted(s, e), NEW k \in TouchedKeys(s, e)
    PROVE  NewSupplier(s, e, k) \in Suppliers \cup {NoText}
<1>1. e \in EventRecords
    OBVIOUS
<1>2. \A j \in Keys : s.inventory[j].supplier_id \in Suppliers \cup {NoText}
    BY DEF StoreOK, Rows
<1>3. k \in Keys
    BY AcceptedRows
<1>4. CASE e.event_type = "PRODUCT_RECEIVED"
    <2>1. NewSupplier(s, e, k) = e.supplier_id
        BY <1>4 DEF NewSupplier
    <2> QED BY <1>1, <2>1 DEF EventRecords
<1>5. CASE e.event_type = "PRODUCT_MOVED"
    <2> DEFINE source == <<e.product_id, e.from_zone_id>>
    <2>1. source \in TouchedKeys(s, e)
        BY <1>5 DEF TouchedKeys, ProductEventTypes
    <2>2. source \in Keys
        BY <2>1, AcceptedRows
    <2>3. NewSupplier(s, e, k) \in {s.inventory[k].supplier_id, s.inventory[source].supplier_id}
        BY <1>5 DEF NewSupplier
    <2> QED BY <1>2, <1>3, <2>2, <2>3
<1>6. CASE e.event_type \notin {"PRODUCT_RECEIVED", "PRODUCT_MOVED"}
    <2>1. NewSupplier(s, e, k) = s.inventory[k].supplier_id
        BY <1>6 DEF NewSupplier
    <2> QED BY <1>2, <1>3, <2>1
<1> QED BY <1>4, <1>5, <1>6

LEMMA UpdatedInventoryOK ==
    ASSUME NEW s, StoreOK(s), NEW e \in EventRecords, Accepted(s, e)
    PROVE  UpdatedInventory(s, e) \in [Keys -> Rows]
<1>1. ASSUME NEW k \in TouchedKeys(s, e) PROVE UpdatedRow(s, e, k) \in Rows
    <2>1. e.occurred_at \in Int
        BY DEF EventRecords
    <2>2. NewSupplier(s, e, k) \in Suppliers \cup {NoText}
        BY AcceptedSupplier
    <2>3. s.inventory[k].available \in Int /\ s.inventory[k].reserved \in Int
        BY AcceptedRows DEF StoreOK, Rows
    <2>4. /\ s.inventory[k].available + DeltaAvailable(s, e, k) \in Nat
          /\ s.inventory[k].reserved + DeltaReserved(s, e, k) \in Nat
        BY <2>3, AcceptedRows
    <2> QED BY <2>1, <2>2, <2>4 DEF UpdatedRow, Rows
<1>2. \A k \in Keys : s.inventory[k] \in Rows
    BY DEF StoreOK
<1> QED BY <1>1, <1>2 DEF UpdatedInventory

(* The sums over the rows an event touches range over finite sets and      *)
(* integers.                                                               *)
LEMMA TouchedSums ==
    ASSUME NEW s, StoreOK(s), NEW e \in EventRecords, Accepted(s, e),
           NEW D, D \subseteq TouchedKeys(s, e)
    PROVE  /\ IsFiniteSet(D)
           /\ D \subseteq Keys
           /\ SumFunctionOnSet([k \in Keys |-> DeltaAvailable(s, e, k)], D) \in Int
           /\ SumFunctionOnSet([k \in Keys |-> DeltaReserved(s, e, k)], D) \in Int
<1> DEFINE a == [k \in Keys |-> DeltaAvailable(s, e, k)]
           r == [k \in Keys |-> DeltaReserved(s, e, k)]
<1>1. D \subseteq Keys
    BY AcceptedRows
<1>2. IsFiniteSet(D)
    BY <1>1, KeysFinite, FS_Subset
<1>3. \A k \in D : a[k] \in Int /\ r[k] \in Int
    BY <1>1, AcceptedRows
<1> HIDE DEF a, r
<1>4. SumFunctionOnSet(a, D) \in Int /\ SumFunctionOnSet(r, D) \in Int
    BY <1>2, <1>3, SumInt
<1> QED BY <1>1, <1>2, <1>4 DEF a, r

LEMMA UpdatedTotalsOK ==
    ASSUME NEW s, StoreOK(s), NEW e \in EventRecords, Accepted(s, e)
    PROVE  UpdatedTotals(s, e) \in [Products -> TotalRows]
<1>1. ASSUME NEW p \in Products, KeysOf(s, e, p) # {}
      PROVE  UpdatedTotal(s, e, p) \in TotalRows
    <2>1. KeysOf(s, e, p) \subseteq TouchedKeys(s, e)
        BY DEF KeysOf
    <2>2. s.totals[p].available \in Int /\ s.totals[p].reserved \in Int
          /\ s.totals[p].last_event_ts \in Int
        BY DEF StoreOK, TotalRows
    <2>3. e.occurred_at \in Int
        BY DEF EventRecords
    <2>4. UpdatedTotal(s, e, p).available \in Int /\ UpdatedTotal(s, e, p).reserved \in Int
        <3> DEFINE a == [k \in Keys |-> DeltaAvailable(s, e, k)]
                   r == [k \in Keys |-> DeltaReserved(s, e, k)]
                   D == KeysOf(s, e, p)
        <3>1. SumFunctionOnSet(a, D) \in Int /\ SumFunctionOnSet(r, D) \in Int
            BY <2>1, TouchedSums
        <3>2. /\ UpdatedTotal(s, e, p).available = s.totals[p].available + SumFunctionOnSet(a, D)
              /\ UpdatedTotal(s, e, p).reserved = s.totals[p].reserved + SumFunctionOnSet(r, D)
            BY DEF UpdatedTotal
        <3> HIDE DEF a, r, D
        <3> QED BY <2>2, <3>1, <3>2
    <2>5. p \in {k[1] : k \in TouchedKeys(s, e)}
        BY <1>1 DEF KeysOf
    <2>6. UpdatedTotal(s, e, p).available >= 0 /\ UpdatedTotal(s, e, p).reserved >= 0
        BY <2>5 DEF Accepted, TotalsNonNegative
    <2>7. Later(s.totals[p].last_event_ts, e.occurred_at) \in Int
        BY <2>2, <2>3 DEF Later
    <2> DEFINE t == UpdatedTotal(s, e, p)
    <2>8. t = [available |-> t.available, reserved |-> t.reserved,
               last_event_ts |-> Later(s.totals[p].last_event_ts, e.occurred_at)]
        BY DEF UpdatedTotal
    <2>9. t.available \in Nat /\ t.reserved \in Nat
        BY <2>4, <2>6
    <2> HIDE DEF t
    <2> QED BY <2>7, <2>8, <2>9 DEF TotalRows, t
<1>2. \A p \in Products : s.totals[p] \in TotalRows
    BY DEF StoreOK
<1> QED BY <1>1, <1>2 DEF UpdatedTotals

LEMMA UpdatedOrdersOK ==
    ASSUME NEW s, StoreOK(s), NEW e \in EventRecords, Accepted(s, e)
    PROVE  /\ UpdatedOrders(s, e) \in [OrderIds -> OrderRows \cup {NoOrder}]
           /\ \A o \in OrderIds : UpdatedOrders(s, e)[o] # NoOrder
                                     => ItemsWellFormed(UpdatedOrders(s, e)[o].items)
<1>1. e \in EventRecords /\ e.occurred_at \in Int
    BY DEF EventRecords
<1>2. WellFormed(e) /\ OrderAllows(s, e)
    BY DEF Accepted
<1>3. CASE e.event_type = "ORDER_CREATED"
    <2> DEFINE row == [status |-> "CREATED", items |-> e.items, last_event_ts |-> e.occurred_at]
    <2>1. e.items \in Seq(Items) /\ ItemsWellFormed(e.items)
        BY <1>1, <1>2, <1>3 DEF WellFormed, EventRecords
    <2>2. row \in OrderRows /\ ItemsWellFormed(row.items)
        BY <1>1, <2>1 DEF OrderRows
    <2>3. UpdatedOrders(s, e) = [s.orders EXCEPT ![e.order_id] = row]
        BY <1>3 DEF UpdatedOrders
    <2> HIDE DEF row
    <2> QED BY <2>2, <2>3 DEF StoreOK
<1>4. CASE e.event_type = "ORDER_COMPLETED"
    <2> DEFINE old == s.orders[e.order_id]
               row == [status |-> "COMPLETED", items |-> old.items,
                       last_event_ts |-> e.occurred_at]
    <2>1. e.order_id \in OrderIds
        BY <1>1, <1>2, <1>4 DEF WellFormed, EventRecords, OrderEventTypes
    <2>2. old # NoOrder
        BY <1>2, <1>4 DEF OrderAllows
    <2>3. old \in OrderRows /\ ItemsWellFormed(old.items)
        BY <2>1, <2>2 DEF StoreOK
    <2>4. row \in OrderRows /\ ItemsWellFormed(row.items)
        BY <1>1, <2>3 DEF OrderRows
    <2>5. UpdatedOrders(s, e) = [s.orders EXCEPT ![e.order_id] = row]
        BY <1>4 DEF UpdatedOrders
    <2> HIDE DEF row
    <2> QED BY <2>4, <2>5 DEF StoreOK
<1>5. CASE e.event_type \notin {"ORDER_CREATED", "ORDER_COMPLETED"}
    <2>1. UpdatedOrders(s, e) = s.orders
        BY <1>5 DEF UpdatedOrders
    <2> QED BY <2>1 DEF StoreOK
<1> QED BY <1>3, <1>4, <1>5

-----------------------------------------------------------------------------
(* Sums over the updated rows *)

(* What the capacity check computes is the stock of the zone after the     *)
(* update, as long as the copy by zone is one.                             *)
LEMMA ZoneTotalUpdated ==
    ASSUME NEW s, StoreOK(s), s.by_zone = s.inventory,
           NEW e \in EventRecords, Checked(s, e), NEW z
    PROVE  ZoneTotal(UpdatedInventory(s, e), z) = ReplacedTotal(s, e, z)
<1> DEFINE new == UpdatedInventory(s, e)
           f == [k \in Keys |-> Total(s.inventory[k])]
           g == [k \in Keys |-> Total(new[k])]
           d == [k \in Keys |-> DeltaAvailable(s, e, k) + DeltaReserved(s, e, k)]
           S == {k \in Keys : k[2] = z}
           D == {k \in TouchedKeys(s, e) : k[2] = z}
<1>1. IsFiniteSet(S)
    BY KeysFinite, FS_Subset
<1>2. D \in SUBSET S
    BY CheckedRows
<1>3. \A k \in Keys : s.inventory[k].available \in Int /\ s.inventory[k].reserved \in Int
    BY DEF StoreOK, Rows
<1>4. \A k \in S : f[k] \in Int
    BY <1>3 DEF Total
<1>5. ASSUME NEW k \in D PROVE d[k] \in Int /\ g[k] = f[k] + d[k]
    <2>1. k \in Keys /\ k \in TouchedKeys(s, e)
        BY <1>2
    <2>2. DeltaAvailable(s, e, k) \in Int /\ DeltaReserved(s, e, k) \in Int
        BY <2>1, CheckedRows
    <2>3. /\ new[k].available = s.inventory[k].available + DeltaAvailable(s, e, k)
          /\ new[k].reserved = s.inventory[k].reserved + DeltaReserved(s, e, k)
        BY <2>1 DEF UpdatedInventory, UpdatedRow
    <2> HIDE DEF new
    <2>4. g[k] = new[k].available + new[k].reserved
        BY <2>1 DEF Total
    <2>5. f[k] = s.inventory[k].available + s.inventory[k].reserved
        BY <2>1 DEF Total
    <2>6. d[k] = DeltaAvailable(s, e, k) + DeltaReserved(s, e, k)
        BY <2>1
    <2> QED BY <1>3, <2>1, <2>2, <2>3, <2>4, <2>5, <2>6
<1>6. \A k \in S \ D : g[k] = f[k]
    BY DEF UpdatedInventory
<1>7. ZoneTotal(new, z) = SumFunctionOnSet(g, S)
    BY DEF ZoneTotal
<1>8. ReplacedTotal(s, e, z) = SumFunctionOnSet(f, S) + SumFunctionOnSet(d, D)
    BY DEF ReplacedTotal, ZoneTotal
<1> HIDE DEF new, f, g, d, S, D
<1>9. SumFunctionOnSet(g, S) = SumFunctionOnSet(f, S) + SumFunctionOnSet(d, D)
    BY <1>1, <1>2, <1>4, <1>5, <1>6, SumUpdate
<1> QED BY <1>7, <1>8, <1>9 DEF new

(* An empty stock fills no zone, and an accepted event overfills none.     *)
LEMMA EmptyZone ==
    ASSUME NEW z PROVE ZoneTotal(EmptyStore.inventory, z) = 0
<1> DEFINE S == {k \in Keys : k[2] = z}
           f == [k \in Keys |-> Total(EmptyStore.inventory[k])]
<1>1. IsFiniteSet(S) /\ {} \in SUBSET S
    BY KeysFinite, FS_Subset
<1>2. \A k \in S : f[k] = 0
    BY DEF EmptyStore, EmptyRow, Total
<1>3. ZoneTotal(EmptyStore.inventory, z) = SumFunctionOnSet(f, S)
    BY DEF ZoneTotal
<1> HIDE DEF S, f
<1> QED BY <1>1, <1>2, <1>3, SumSupport, SumEmpty

LEMMA AcceptedFits ==
    ASSUME NEW s, StoreOK(s), s.by_zone = s.inventory, NEW e \in EventRecords, Accepted(s, e),
           NEW z, ZoneTotal(s.inventory, z) <= IF z \in Zones THEN Capacity[z] ELSE 0
    PROVE  ZoneTotal(UpdatedInventory(s, e), z) <= IF z \in Zones THEN Capacity[z] ELSE 0
<1>1. CASE z \in {k[2] : k \in TouchedKeys(s, e)}
    <2>1. z \in Zones /\ ReplacedTotal(s, e, z) <= Capacity[z]
        BY <1>1 DEF Accepted, FitsZones
    <2>2. ZoneTotal(UpdatedInventory(s, e), z) = ReplacedTotal(s, e, z)
        BY ZoneTotalUpdated DEF Accepted, Checked
    <2> QED BY <2>1, <2>2
<1>2. CASE z \notin {k[2] : k \in TouchedKeys(s, e)}
    <2> DEFINE S == {k \in Keys : k[2] = z}
               f == [k \in Keys |-> Total(s.inventory[k])]
               g == [k \in Keys |-> Total(UpdatedInventory(s, e)[k])]
    <2>1. IsFiniteSet(S)
        BY KeysFinite, FS_Subset
    <2>2. \A k \in S : g[k] = f[k]
        BY <1>2 DEF UpdatedInventory
    <2>3. ZoneTotal(s.inventory, z) = SumFunctionOnSet(f, S)
          /\ ZoneTotal(UpdatedInventory(s, e), z) = SumFunctionOnSet(g, S)
        BY DEF ZoneTotal
    <2> HIDE DEF S, f, g
    <2>4. ZoneTotal(UpdatedInventory(s, e), z) = ZoneTotal(s.inventory, z)
        BY <2>1, <2>2, <2>3, SumEqual
    <2> QED BY <2>4
<1> QED BY <1>1, <1>2

(* The totals that _build_totals adds up from differences follow the sums  *)
(* of the rows.                                                            *)
LEMMA TotalsUpdated ==
    ASSUME NEW s, StoreOK(s), NEW e \in EventRecords, Checked(s, e), NEW p \in Products,
           LET S == {k \in Keys : k[1] = p}
           IN  /\ s.totals[p].available = SumFunctionOnSet([k \in Keys |-> s.inventory[k].available], S)
               /\ s.totals[p].reserved = SumFunctionOnSet([k \in Keys |-> s.inventory[k].reserved], S)
    PROVE  LET S == {k \in Keys : k[1] = p}
               new == UpdatedInventory(s, e)
           IN  /\ UpdatedTotals(s, e)[p].available = SumFunctionOnSet([k \in Keys |-> new[k].available], S)
               /\ UpdatedTotals(s, e)[p].reserved = SumFunctionOnSet([k \in Keys |-> new[k].reserved], S)
<1> DEFINE new == UpdatedInventory(s, e)
           S  == {k \in Keys : k[1] = p}
           D  == KeysOf(s, e, p)
           fa == [k \in Keys |-> s.inventory[k].available]
           fr == [k \in Keys |-> s.inventory[k].reserved]
           ga == [k \in Keys |-> new[k].available]
           gr == [k \in Keys |-> new[k].reserved]
           da == [k \in Keys |-> DeltaAvailable(s, e, k)]
           dr == [k \in Keys |-> DeltaReserved(s, e, k)]
<1>1. IsFiniteSet(S)
    BY KeysFinite, FS_Subset
<1>2. D \in SUBSET S
    BY CheckedRows DEF KeysOf
<1>3. \A k \in S : fa[k] \in Int /\ fr[k] \in Int
    BY DEF StoreOK, Rows
<1>4. ASSUME NEW k \in D
      PROVE  /\ da[k] \in Int /\ ga[k] = fa[k] + da[k]
             /\ dr[k] \in Int /\ gr[k] = fr[k] + dr[k]
    <2>1. k \in Keys /\ k \in TouchedKeys(s, e)
        BY <1>2 DEF KeysOf
    <2>2. DeltaAvailable(s, e, k) \in Int /\ DeltaReserved(s, e, k) \in Int
        BY <2>1, CheckedRows
    <2>3. /\ new[k].available = s.inventory[k].available + DeltaAvailable(s, e, k)
          /\ new[k].reserved = s.inventory[k].reserved + DeltaReserved(s, e, k)
        BY <2>1 DEF UpdatedInventory, UpdatedRow
    <2> HIDE DEF new
    <2> QED BY <2>1, <2>2, <2>3
<1>5. \A k \in S \ D : ga[k] = fa[k] /\ gr[k] = fr[k]
    BY DEF UpdatedInventory, KeysOf
<1>6. /\ s.totals[p].available = SumFunctionOnSet(fa, S)
      /\ s.totals[p].reserved = SumFunctionOnSet(fr, S)
    OBVIOUS
<1>7. /\ D # {} => /\ UpdatedTotals(s, e)[p].available = s.totals[p].available + SumFunctionOnSet(da, D)
                   /\ UpdatedTotals(s, e)[p].reserved = s.totals[p].reserved + SumFunctionOnSet(dr, D)
      /\ D = {} => UpdatedTotals(s, e)[p] = s.totals[p]
    BY DEF UpdatedTotals, UpdatedTotal
<1>8. s.totals[p].available \in Int /\ s.totals[p].reserved \in Int
    BY DEF StoreOK, TotalRows
<1> HIDE DEF new, S, D, fa, fr, ga, gr, da, dr
<1>9. /\ UpdatedTotals(s, e)[p].available = s.totals[p].available + SumFunctionOnSet(da, D)
      /\ UpdatedTotals(s, e)[p].reserved = s.totals[p].reserved + SumFunctionOnSet(dr, D)
    <2>1. CASE D # {}
        BY <1>7, <2>1
    <2>2. CASE D = {}
        <3>1. SumFunctionOnSet(da, D) = 0 /\ SumFunctionOnSet(dr, D) = 0
            BY <2>2, SumEmpty
        <3> QED BY <1>7, <1>8, <2>2, <3>1
    <2> QED BY <2>1, <2>2
<1>10. SumFunctionOnSet(ga, S) = SumFunctionOnSet(fa, S) + SumFunctionOnSet(da, D)
    BY <1>1, <1>2, <1>3, <1>4, <1>5, SumUpdate
<1>11. SumFunctionOnSet(gr, S) = SumFunctionOnSet(fr, S) + SumFunctionOnSet(dr, D)
    BY <1>1, <1>2, <1>3, <1>4, <1>5, SumUpdate
<1>12. /\ UpdatedTotals(s, e)[p].available = SumFunctionOnSet(ga, S)
       /\ UpdatedTotals(s, e)[p].reserved = SumFunctionOnSet(gr, S)
    BY <1>6, <1>9, <1>10, <1>11
<1> QED BY <1>12 DEF new, S, ga, gr
=============================================================================
