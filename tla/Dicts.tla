-------------------------------- MODULE Dicts --------------------------------
(***************************************************************************)
(* The Python dictionaries the process-local services keep their state in, *)
(* as functions whose domain is the set of keys present, and what is needed *)
(* of the sums that services take over such a dictionary.                  *)
(***************************************************************************)
EXTENDS Naturals, FiniteSets, Functions, FiniteSetTheorems, WellFoundedInduction, TLAPS

EmptyDict == [k \in {} |-> {}]

\* d[k] = v
Put(d, k, v) == [x \in DOMAIN d \cup {k} |-> IF x = k THEN v ELSE d[x]]

\* d.pop(k, None)
Drop(d, k) == [x \in DOMAIN d \ {k} |-> d[x]]

\* d is a dictionary with keys in K and values in V.
IsDict(d, K, V) == DOMAIN d \subseteq K /\ d \in [DOMAIN d -> V]

-----------------------------------------------------------------------------
(* What Put and Drop leave in a dictionary, for the proofs about the services. *)

\* What d[k] = v leaves in the dictionary.
LEMMA PutFacts ==
    ASSUME NEW d, NEW k, NEW v
    PROVE  /\ DOMAIN Put(d, k, v) = DOMAIN d \cup {k}
           /\ Put(d, k, v)[k] = v
           /\ \A x \in DOMAIN d : x # k => Put(d, k, v)[x] = d[x]
BY DEF Put

\* What d.pop(k, None) leaves in the dictionary.
LEMMA DropFacts ==
    ASSUME NEW d, NEW k
    PROVE  /\ DOMAIN Drop(d, k) = DOMAIN d \ {k}
           /\ \A x \in DOMAIN d : x # k => Drop(d, k)[x] = d[x]
BY DEF Drop

\* Storing a value of the right type keeps the type of the dictionary.
LEMMA PutType ==
    ASSUME NEW K, NEW V, NEW d, IsDict(d, K, V), NEW k \in K, NEW v \in V
    PROVE  IsDict(Put(d, k, v), K, V)
BY DEF Put, IsDict

\* Removing a key keeps the type of the dictionary.
LEMMA DropType ==
    ASSUME NEW K, NEW V, NEW d, IsDict(d, K, V), NEW k
    PROVE  IsDict(Drop(d, k), K, V)
BY DEF Drop, IsDict

\* A value read from a dictionary has the type of its values.
LEMMA GetType ==
    ASSUME NEW K, NEW V, NEW d, IsDict(d, K, V), NEW k \in DOMAIN d
    PROVE  k \in K /\ d[k] \in V
BY DEF IsDict

\* The empty dictionary has every type.
LEMMA EmptyType ==
    ASSUME NEW K, NEW V
    PROVE  IsDict(EmptyDict, K, V) /\ DOMAIN EmptyDict = {}
BY DEF EmptyDict, IsDict

\* The dictionaries d and e agree on every key but k.
AgreeBut(d, e, k) ==
    \A x : x # k =>
        /\ x \in DOMAIN d <=> x \in DOMAIN e
        /\ x \in DOMAIN d => e[x] = d[x]

\* Put changes one key only.
LEMMA PutElsewhere ==
    ASSUME NEW d, NEW k, NEW v
    PROVE  AgreeBut(d, Put(d, k, v), k)
BY DEF Put, AgreeBut

\* Drop changes one key only.
LEMMA DropElsewhere ==
    ASSUME NEW d, NEW k
    PROVE  AgreeBut(d, Drop(d, k), k)
BY DEF Drop, AgreeBut

\* A dictionary that is not touched agrees with itself.
LEMMA SameElsewhere ==
    ASSUME NEW d, NEW k
    PROVE  AgreeBut(d, d, k)
BY DEF AgreeBut

-----------------------------------------------------------------------------
(* Sums over a finite set (SumFunctionOnSet of the community modules), by   *)
(* induction over its subsets.                                              *)

\* A set that holds 0, and n + 1 whenever it holds n, holds every number: a set
\* instead of the predicate of an induction rule.
LEMMA NatSetInduction ==
  ASSUME NEW S, 0 \in S, \A n \in Nat : n \in S => n + 1 \in S
  PROVE  Nat \subseteq S
<1> DEFINE T == Nat \ S
<1> DEFINE R == OpToRel(<, Nat)
<1> SUFFICES ASSUME T # {} PROVE FALSE OBVIOUS
<1>1. R = {s \in Nat \X Nat : s[1] < s[2]} BY DEF OpToRel
<1>2. IsWellFoundedOn(R, Nat) BY NatLessThanWellFounded, Zenon
<1> HIDE DEF R
<1>3. PICK n \in T : \A m \in T : <<m, n>> \notin R BY <1>2, WFMin
<1>4. n - 1 \in Nat /\ n - 1 < n BY <1>3
<1>5. n - 1 \in S BY <1>1, <1>3, <1>4
<1> QED BY <1>3, <1>4, <1>5

\* The element a fold takes next.
Pick(s) == CHOOSE x \in s : TRUE

\* g sums f over the subsets of S.
Sums(g, f, S) ==
    g = [s \in SUBSET S |-> IF s = {} THEN 0 ELSE f[Pick(s)] + g[s \ {Pick(s)}]]

\* The recursion of a sum that picks its elements in turn.
LEMMA SumIsDefined ==
    ASSUME NEW f, NEW S
    PROVE  SumFunctionOnSet(f, S) = (CHOOSE g : Sums(g, f, S))[S]
BY DEF SumFunctionOnSet, FoldFunctionOnSet, MapThenFoldSet, Sums, Pick

\* A subset of a finite set, and the same without one of its elements.
LEMMA SmallerBy ==
    ASSUME NEW S, IsFiniteSet(S), NEW s \in SUBSET S, NEW x \in s
    PROVE  /\ IsFiniteSet(s) /\ IsFiniteSet(s \ {x})
           /\ s \ {x} \in SUBSET S
           /\ Cardinality(s) \in Nat /\ Cardinality(s \ {x}) \in Nat
           /\ Cardinality(s) = Cardinality(s \ {x}) + 1
<1>1. IsFiniteSet(s) BY FS_Subset
<1>2. IsFiniteSet(s \ {x}) /\ Cardinality(s \ {x}) = Cardinality(s) - 1 BY <1>1, FS_RemoveElement
<1> QED BY <1>1, <1>2, FS_CardinalityType

\* What is picked is there.
LEMMA PickIsIn == ASSUME NEW s, s # {} PROVE Pick(s) \in s
BY DEF Pick

\* What holds of the empty set, and of a set if it holds of it without one of
\* its elements, holds of every subset: a family of subsets instead of a predicate.
LEMMA SubsetInduction ==
    ASSUME NEW S, IsFiniteSet(S), NEW F, {} \in F,
           \A s \in SUBSET S : s # {} /\ (\A x \in s : s \ {x} \in F) => s \in F
    PROVE  SUBSET S \subseteq F
<1> DEFINE N == {n \in Nat : \A s \in SUBSET S : Cardinality(s) = n => s \in F}
<1>1. 0 \in N
    <2> SUFFICES ASSUME NEW s \in SUBSET S, Cardinality(s) = 0 PROVE s \in F OBVIOUS
    <2>1. s = {} BY FS_Subset, FS_EmptySet
    <2> QED BY <2>1
<1>2. ASSUME NEW n \in Nat, n \in N PROVE n + 1 \in N
    <2> SUFFICES ASSUME NEW s \in SUBSET S, Cardinality(s) = n + 1 PROVE s \in F BY <1>2
    <2>1. s # {}
        <3>1. n + 1 # 0 OBVIOUS
        <3> QED BY <3>1, FS_EmptySet
    <2>2. \A x \in s : s \ {x} \in F
        <3> SUFFICES ASSUME NEW x \in s PROVE s \ {x} \in F OBVIOUS
        <3>1. Cardinality(s) = Cardinality(s \ {x}) + 1 /\ Cardinality(s \ {x}) \in Nat
              /\ s \ {x} \in SUBSET S
            BY SmallerBy
        <3> QED BY <1>2, <3>1
    <2> QED BY <2>1, <2>2
<1> HIDE DEF N
<1>3. Nat \subseteq N BY <1>1, <1>2, NatSetInduction
<1>4. ASSUME NEW s \in SUBSET S PROVE s \in F
    <2>1. Cardinality(s) \in Nat BY FS_Subset, FS_CardinalityType
    <2>2. Cardinality(s) \in N BY <1>3, <2>1
    <2> QED BY <2>2 DEF N
<1> QED BY <1>4

\* There are such sums.
LEMMA SumsExist == ASSUME NEW S, IsFiniteSet(S), NEW f PROVE \E g : Sums(g, f, S)
<1> DEFINE Up(g, n) == \A s \in SUBSET S : Cardinality(s) <= n =>
                g[s] = IF s = {} THEN 0 ELSE f[Pick(s)] + g[s \ {Pick(s)}]
           N == {n \in Nat : \E g : Up(g, n)}
<1>1. 0 \in N
    <2> DEFINE g == [s \in SUBSET S |-> 0]
    <2>1. ASSUME NEW s \in SUBSET S, Cardinality(s) <= 0 PROVE s = {}
        <3>1. IsFiniteSet(s) /\ Cardinality(s) \in Nat BY FS_Subset, FS_CardinalityType
        <3> QED BY <2>1, <3>1, FS_EmptySet
    <2>2. Up(g, 0) BY <2>1
    <2> QED BY <2>2
<1>2. ASSUME NEW n \in Nat, n \in N PROVE n + 1 \in N
    <2>1. PICK g : Up(g, n) BY <1>2
    <2> DEFINE h == [s \in SUBSET S |-> IF Cardinality(s) <= n THEN g[s]
                                        ELSE IF s = {} THEN 0 ELSE f[Pick(s)] + g[s \ {Pick(s)}]]
    <2>2. ASSUME NEW s \in SUBSET S, Cardinality(s) <= n + 1
          PROVE  h[s] = IF s = {} THEN 0 ELSE f[Pick(s)] + h[s \ {Pick(s)}]
        <3>1. CASE s = {}
            <4>1. Cardinality(s) <= n BY <3>1, FS_EmptySet
            <4> QED BY <2>1, <3>1, <4>1
        <3>2. CASE s # {}
            <4> DEFINE x == Pick(s)
            <4>1. x \in s BY <3>2, PickIsIn
            <4> HIDE DEF x
            <4>2. s \ {x} \in SUBSET S /\ Cardinality(s \ {x}) <= n BY <2>2, <4>1, SmallerBy
            <4>3. h[s \ {x}] = g[s \ {x}] BY <4>2
            <4>4. h[s] = f[x] + g[s \ {x}] BY <2>1, <3>2, <4>3 DEF x
            <4> QED BY <3>2, <4>3, <4>4 DEF x
        <3> QED BY <3>1, <3>2
    <2> HIDE DEF h
    <2>3. Up(h, n + 1) BY <2>2
    <2> QED BY <2>3
<1> HIDE DEF N
<1>3. Cardinality(S) \in N BY <1>1, <1>2, NatSetInduction, FS_CardinalityType
<1>4. PICK g : Up(g, Cardinality(S)) BY <1>3 DEF N
<1> DEFINE h == [s \in SUBSET S |-> g[s]]
<1>5. ASSUME NEW s \in SUBSET S PROVE g[s] = IF s = {} THEN 0 ELSE f[Pick(s)] + g[s \ {Pick(s)}]
    BY <1>4, FS_Subset
<1>6. Sums(h, f, S) BY <1>5 DEF Sums
<1> QED BY <1>6


\* A sum of natural numbers is one.
LEMMA SumsAreNat ==
    ASSUME NEW S, IsFiniteSet(S), NEW f, \A s \in S : f[s] \in Nat, NEW g, Sums(g, f, S)
    PROVE  \A s \in SUBSET S : g[s] \in Nat
<1> DEFINE F == {s \in SUBSET S : g[s] \in Nat}
<1>1. {} \in F BY DEF Sums
<1>2. ASSUME NEW s \in SUBSET S, s # {}, \A x \in s : s \ {x} \in F PROVE s \in F
    <2> DEFINE p == Pick(s)
    <2>1. p \in s BY <1>2, PickIsIn
    <2>2. g[s] = f[p] + g[s \ {p}] BY <1>2 DEF Sums
    <2> HIDE DEF p
    <2>3. g[s \ {p}] \in Nat /\ f[p] \in Nat BY <1>2, <2>1
    <2> QED BY <2>2, <2>3
<1> HIDE DEF F
<1>3. SUBSET S \subseteq F BY <1>1, <1>2, SubsetInduction
<1> QED BY <1>3 DEF F

\* Whatever element is taken first.
LEMMA SumsTake ==
    ASSUME NEW S, IsFiniteSet(S), NEW f, \A s \in S : f[s] \in Nat, NEW g, Sums(g, f, S)
    PROVE  \A s \in SUBSET S : \A x \in s : g[s] = f[x] + g[s \ {x}]
<1> DEFINE F == {s \in SUBSET S : \A x \in s : g[s] = f[x] + g[s \ {x}]}
<1>1. {} \in F OBVIOUS
<1>2. ASSUME NEW s \in SUBSET S, s # {}, \A x \in s : s \ {x} \in F PROVE s \in F
    <2> DEFINE p == Pick(s)
    <2>1. p \in s BY <1>2, PickIsIn
    <2>2. g[s] = f[p] + g[s \ {p}] BY <1>2 DEF Sums
    <2> HIDE DEF p
    <2>3. ASSUME NEW x \in s, x # p PROVE g[s] = f[x] + g[s \ {x}]
        <3> DEFINE r == s \ {p, x}
        <3>1. (s \ {p}) \ {x} = r /\ (s \ {x}) \ {p} = r OBVIOUS
        <3>2. g[s \ {p}] = f[x] + g[r] BY <1>2, <2>1, <2>3, <3>1
        <3>3. g[s \ {x}] = f[p] + g[r] BY <1>2, <2>1, <2>3, <3>1
        <3>4. f[x] \in Nat /\ f[p] \in Nat BY <2>1
        <3>5. g[r] \in Nat BY SumsAreNat
        <3> HIDE DEF r
        <3> QED BY <2>2, <3>2, <3>3, <3>4, <3>5
    <2>4. \A x \in s : g[s] = f[x] + g[s \ {x}] BY <2>2, <2>3
    <2> QED BY <2>4
<1> HIDE DEF F
<1>3. SUBSET S \subseteq F BY <1>1, <1>2, SubsetInduction
<1> SUFFICES ASSUME NEW s \in SUBSET S PROVE \A x \in s : g[s] = f[x] + g[s \ {x}] BY Zenon
<1>4. s \in F BY <1>3
<1> QED BY <1>4 DEF F

\* Only what is summed matters.
LEMMA SumsAgree ==
    ASSUME NEW S, IsFiniteSet(S), NEW f, NEW g, Sums(g, f, S),
           NEW T \in SUBSET S, NEW e, \A s \in T : e[s] = f[s], NEW h, Sums(h, e, T)
    PROVE  g[T] = h[T]
<1> DEFINE F == {s \in SUBSET T : g[s] = h[s]}
<1>0. IsFiniteSet(T) BY FS_Subset
<1>1. {} \in F BY DEF Sums
<1>2. ASSUME NEW s \in SUBSET T, s # {}, \A x \in s : s \ {x} \in F PROVE s \in F
    <2> DEFINE p == Pick(s)
    <2>1. p \in s BY <1>2, PickIsIn
    <2>2. g[s] = f[p] + g[s \ {p}] /\ h[s] = e[p] + h[s \ {p}] BY <1>2 DEF Sums
    <2> HIDE DEF p
    <2>3. g[s \ {p}] = h[s \ {p}] /\ e[p] = f[p] BY <1>2, <2>1
    <2> QED BY <2>2, <2>3
<1> HIDE DEF F
<1>3. SUBSET T \subseteq F BY <1>0, <1>1, <1>2, SubsetInduction
<1> QED BY <1>3 DEF F

\* The sum of f over S, of which the proofs use no more than what follows.
LEMMA SumIs == ASSUME NEW S, IsFiniteSet(S), NEW f
               PROVE  \E g : Sums(g, f, S) /\ SumFunctionOnSet(f, S) = g[S]
<1>1. PICK g : g = (CHOOSE h : Sums(h, f, S)) OBVIOUS
<1>2. Sums(g, f, S) BY <1>1, SumsExist, Zenon
<1> QED BY <1>1, <1>2, SumIsDefined

\* An empty sum.
LEMMA SumOfNone == ASSUME NEW f PROVE SumFunctionOnSet(f, {}) = 0
<1>1. PICK g : Sums(g, f, {}) /\ SumFunctionOnSet(f, {}) = g[{}] BY SumIs, FS_EmptySet
<1> QED BY <1>1 DEF Sums

\* The sum depends on the values over its set only.
LEMMA SumOfSame ==
    ASSUME NEW S, IsFiniteSet(S), NEW f, NEW e, \A s \in S : e[s] = f[s]
    PROVE  SumFunctionOnSet(e, S) = SumFunctionOnSet(f, S)
<1>1. PICK g : Sums(g, f, S) /\ SumFunctionOnSet(f, S) = g[S] BY SumIs
<1>2. PICK h : Sums(h, e, S) /\ SumFunctionOnSet(e, S) = h[S] BY SumIs
<1> QED BY <1>1, <1>2, SumsAgree

\* A sum of numbers is a number.
LEMMA SumIsNat ==
    ASSUME NEW S, IsFiniteSet(S), NEW f, \A s \in S : f[s] \in Nat
    PROVE  SumFunctionOnSet(f, S) \in Nat
<1>1. PICK g : Sums(g, f, S) /\ SumFunctionOnSet(f, S) = g[S] BY SumIs
<1> QED BY <1>1, SumsAreNat

\* A sum is any one of its values and the sum of the others.
LEMMA SumWithout ==
    ASSUME NEW S, IsFiniteSet(S), NEW f, \A s \in S : f[s] \in Nat, NEW x \in S
    PROVE  SumFunctionOnSet(f, S) = f[x] + SumFunctionOnSet(f, S \ {x})
<1>1. PICK g : Sums(g, f, S) /\ SumFunctionOnSet(f, S) = g[S] BY SumIs
<1>2. IsFiniteSet(S \ {x}) BY FS_RemoveElement
<1>3. PICK h : Sums(h, f, S \ {x}) /\ SumFunctionOnSet(f, S \ {x}) = h[S \ {x}] BY <1>2, SumIs
<1>4. g[S \ {x}] = h[S \ {x}] BY <1>1, <1>3, SumsAgree
<1>5. g[S] = f[x] + g[S \ {x}] BY <1>1, SumsTake
<1> QED BY <1>1, <1>3, <1>4, <1>5

\* A value less in a sum.
LEMMA SumShrinks ==
    ASSUME NEW S, IsFiniteSet(S), NEW x \in S,
           NEW f, \A s \in S : f[s] \in Nat,
           NEW e, \A s \in S \ {x} : e[s] = f[s]
    PROVE  /\ SumFunctionOnSet(e, S \ {x}) \in Nat
           /\ SumFunctionOnSet(f, S) = f[x] + SumFunctionOnSet(e, S \ {x})
<1>1. IsFiniteSet(S \ {x}) BY FS_RemoveElement
<1>2. SumFunctionOnSet(f, S) = f[x] + SumFunctionOnSet(f, S \ {x}) BY SumWithout
<1>3. SumFunctionOnSet(e, S \ {x}) = SumFunctionOnSet(f, S \ {x}) BY <1>1, SumOfSame
<1>4. SumFunctionOnSet(f, S \ {x}) \in Nat BY <1>1, SumIsNat
<1> QED BY <1>2, <1>3, <1>4

=============================================================================
