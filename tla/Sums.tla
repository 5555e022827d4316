-------------------------------- MODULE Sums --------------------------------
(***************************************************************************)
(* Sums over finite sets, and what MapThenSumSet of the community modules  *)
(* gives.  The provers cannot use an induction rule, so each proof by      *)
(* induction over the subsets of a set takes a smallest counterexample.    *)
(***************************************************************************)
EXTENDS Integers, FiniteSets, FiniteSetTheorems, WellFoundedInduction, TLAPS

Pick(s) == CHOOSE x \in s : TRUE

(* g is the function that sums the weights w over the subsets of S.        *)
IsSum(w, S, g) ==
  g = [s \in SUBSET S |-> IF s = {} THEN 0 ELSE w[Pick(s)] + g[s \ {Pick(s)}]]

Sums(w, S) == CHOOSE g : IsSum(w, S, g)

SumOver(w, S) == Sums(w, S)[S]

(* A family of subsets of a finite set has a smallest member.              *)
LEMMA Smallest ==
  ASSUME NEW S, IsFiniteSet(S), NEW B \in SUBSET (SUBSET S), B # {}
  PROVE  \E s \in B : \A t \in B : t \subseteq s => t = s
<1>1. IsWellFoundedOn(StrictSubsetOrdering(S), SUBSET S)
  BY FS_StrictSubsetOrderingWellFounded, FS_FiniteSubsetsOfFinite
<1>2. PICK s \in B : \A t \in B : ~(<<t, s>> \in StrictSubsetOrdering(S))
  BY <1>1, WFMin
<1>3. \A t \in B : t \subseteq s /\ t # s => <<t, s>> \in StrictSubsetOrdering(S)
  BY DEF StrictSubsetOrdering
<1>4. \A t \in B : t \subseteq s => t = s
  BY <1>2, <1>3
<1> QED
  BY <1>4

(* A set of naturals that is not empty has a least member.                 *)
LEMMA LeastOf ==
  ASSUME NEW N \in SUBSET Nat, N # {}
  PROVE  \E m \in N : \A n \in N : m <= n
<1>1. PICK top \in N : TRUE
  OBVIOUS
<1> DEFINE S == 0..top
           B == {0..m : m \in {n \in N : n <= top}}
<1>2. IsFiniteSet(S)
  BY <1>1, FS_Interval
<1>3. B \in SUBSET (SUBSET S) /\ B # {}
  <2>1. \A m \in {n \in N : n <= top} : 0..m \in SUBSET S
    BY <1>1
  <2>2. top \in {n \in N : n <= top}
    BY <1>1
  <2> QED
    BY <2>1, <2>2
<1>4. PICK s \in B : \A t \in B : t \subseteq s => t = s
  <2> HIDE DEF S, B
  <2> QED
    BY <1>2, <1>3, Smallest
<1>5. PICK m \in N : m <= top /\ s = 0..m
  OBVIOUS
<1>6. ASSUME NEW n \in N, n < m
      PROVE  FALSE
  <2>1. 0..n \in B /\ 0..n \subseteq s
    BY <1>1, <1>5, <1>6
  <2>2. m \in s /\ m \notin 0..n
    BY <1>5, <1>6
  <2> QED
    BY <1>4, <2>1, <2>2
<1> QED
  BY <1>6

LEMMA PickIn ==
  ASSUME NEW s, s # {}
  PROVE  Pick(s) \in s
BY DEF Pick

(* A sum over a subset does not depend on the set it is a subset of.       *)
LEMMA SumUnique ==
  ASSUME NEW w, NEW S, IsFiniteSet(S), NEW T, S \subseteq T,
         NEW g, IsSum(w, S, g), NEW h, IsSum(w, T, h)
  PROVE  \A s \in SUBSET S : g[s] = h[s]
<1> DEFINE B == {s \in SUBSET S : g[s] # h[s]}
<1> SUFFICES ASSUME B # {} PROVE FALSE
  OBVIOUS
<1>1. PICK s \in B : \A t \in B : t \subseteq s => t = s
  <2> B \in SUBSET (SUBSET S)
    OBVIOUS
  <2> HIDE DEF B
  <2> QED
    BY Smallest
<1>2. s \in SUBSET S /\ g[s] # h[s] /\ s \in SUBSET T
  OBVIOUS
<1>3. /\ g[s] = IF s = {} THEN 0 ELSE w[Pick(s)] + g[s \ {Pick(s)}]
      /\ h[s] = IF s = {} THEN 0 ELSE w[Pick(s)] + h[s \ {Pick(s)}]
  BY <1>2 DEF IsSum
<1>4. s # {}
  BY <1>2, <1>3
<1>5. s \ {Pick(s)} \in SUBSET S /\ s \ {Pick(s)} \subseteq s /\ s \ {Pick(s)} # s
  BY <1>2, <1>4, PickIn
<1>6. g[s \ {Pick(s)}] = h[s \ {Pick(s)}]
  BY <1>1, <1>5
<1> QED
  BY <1>2, <1>3, <1>6

LEMMA SumExists ==
  ASSUME NEW w, NEW S, IsFiniteSet(S)
  PROVE  IsSum(w, S, Sums(w, S))
<1> DEFINE B == {s \in SUBSET S : ~ \E g : IsSum(w, s, g)}
<1>1. ASSUME B # {} PROVE FALSE
  <2>1. PICK s \in B : \A t \in B : t \subseteq s => t = s
    <3> B \in SUBSET (SUBSET S)
      OBVIOUS
    <3> HIDE DEF B
    <3> QED
      BY <1>1, Smallest
  <2>2. s \in SUBSET S /\ ~ \E g : IsSum(w, s, g)
    OBVIOUS
  <2>3. ASSUME NEW t \in SUBSET s, t # s
        PROVE  IsSum(w, t, Sums(w, t)) /\ IsFiniteSet(t)
    <3>1. t \in SUBSET S /\ t \notin B
      BY <2>1, <2>2, <2>3
    <3>2. \E g : IsSum(w, t, g)
      BY <3>1
    <3> QED
      BY <3>1, <3>2, FS_Subset DEF Sums
  <2> DEFINE rest(t) == t \ {Pick(t)}
             h == [t \in SUBSET s |-> IF t = {} THEN 0 ELSE w[Pick(t)] + Sums(w, rest(t))[rest(t)]]
  <2>4. ASSUME NEW t \in SUBSET s, t # {}
        PROVE  h[rest(t)] = Sums(w, rest(t))[rest(t)]
    <3> DEFINE u == rest(t)
    <3>1. u \in SUBSET s /\ u # s
      BY <2>4, PickIn
    <3>2. IsSum(w, u, Sums(w, u)) /\ IsFiniteSet(u)
      BY <2>3, <3>1
    <3>3. h[u] = IF u = {} THEN 0 ELSE w[Pick(u)] + Sums(w, rest(u))[rest(u)]
      BY <3>1
    <3>4. Sums(w, u)[u] = IF u = {} THEN 0 ELSE w[Pick(u)] + Sums(w, u)[rest(u)]
      <4> HIDE DEF u, h
      <4> QED
        BY <3>2 DEF IsSum
    <3>5. CASE u = {}
      BY <3>3, <3>4, <3>5
    <3>6. CASE u # {}
      <4>1. rest(u) \in SUBSET u /\ rest(u) \in SUBSET s /\ rest(u) # s
        BY <3>1, <3>6, PickIn
      <4>2. IsSum(w, rest(u), Sums(w, rest(u))) /\ IsFiniteSet(rest(u))
        BY <2>3, <4>1
      <4> HIDE DEF u, rest
      <4>3. Sums(w, rest(u))[rest(u)] = Sums(w, u)[rest(u)]
        BY <3>2, <4>1, <4>2, SumUnique
      <4> HIDE DEF h
      <4>4. h[u] = Sums(w, u)[u]
        BY <3>3, <3>4, <3>6, <4>3
      <4> QED
        BY <4>4 DEF u
    <3> QED
      BY <3>5, <3>6
  <2>5. h = [t \in SUBSET s |-> IF t = {} THEN 0 ELSE w[Pick(t)] + h[rest(t)]]
    <3> DEFINE k == [t \in SUBSET s |-> IF t = {} THEN 0 ELSE w[Pick(t)] + h[rest(t)]]
    <3>1. ASSUME NEW t \in SUBSET s
          PROVE  (IF t = {} THEN 0 ELSE w[Pick(t)] + Sums(w, rest(t))[rest(t)]) =
                 (IF t = {} THEN 0 ELSE w[Pick(t)] + h[rest(t)])
      <4> HIDE DEF h, rest
      <4> QED
        BY <2>4
    <3>2. ASSUME NEW t \in SUBSET s
          PROVE  h[t] = k[t]
      BY <3>1
    <3>3. h = [t \in SUBSET s |-> h[t]] /\ k = [t \in SUBSET s |-> k[t]]
      OBVIOUS
    <3> HIDE DEF h, k
    <3>4. h = k
      BY <3>2, <3>3
    <3> QED
      BY <3>4 DEF k
  <2>6. IsSum(w, s, h)
    <3> HIDE DEF h
    <3> QED
      BY <2>5 DEF IsSum
  <2> QED
    BY <2>2, <2>6
<1>2. \E g : IsSum(w, S, g)
  BY <1>1
<1> QED
  BY <1>2 DEF Sums

LEMMA SumOverSubset ==
  ASSUME NEW w, NEW S, IsFiniteSet(S), NEW T \in SUBSET S
  PROVE  Sums(w, S)[T] = SumOver(w, T)
<1>1. IsFiniteSet(T)
  BY FS_Subset
<1>2. Sums(w, T)[T] = Sums(w, S)[T]
  BY <1>1, SumExists, SumUnique
<1> QED
  BY <1>2 DEF SumOver

(* The sum of nothing, and the sum of something.                           *)
LEMMA SumStep ==
  ASSUME NEW w, NEW S, IsFiniteSet(S)
  PROVE  /\ S = {} => SumOver(w, S) = 0
         /\ S # {} => SumOver(w, S) = w[Pick(S)] + SumOver(w, S \ {Pick(S)})
<1>1. Sums(w, S)[S] = IF S = {} THEN 0 ELSE w[Pick(S)] + Sums(w, S)[S \ {Pick(S)}]
  <2> DEFINE g == Sums(w, S)
  <2>1. IsSum(w, S, g)
    BY SumExists
  <2> HIDE DEF g
  <2>2. g[S] = IF S = {} THEN 0 ELSE w[Pick(S)] + g[S \ {Pick(S)}]
    BY <2>1 DEF IsSum
  <2> QED
    BY <2>2 DEF g
<1>2. Sums(w, S)[S \ {Pick(S)}] = SumOver(w, S \ {Pick(S)})
  BY SumOverSubset
<1> QED
  BY <1>1, <1>2 DEF SumOver

LEMMA SumInt ==
  ASSUME NEW w, NEW S, IsFiniteSet(S), \A x \in S : w[x] \in Int
  PROVE  SumOver(w, S) \in Int
<1> DEFINE B == {s \in SUBSET S : SumOver(w, s) \notin Int}
<1> SUFFICES ASSUME B # {} PROVE FALSE
  OBVIOUS
<1>1. PICK s \in B : \A t \in B : t \subseteq s => t = s
  <2> B \in SUBSET (SUBSET S)
    OBVIOUS
  <2> HIDE DEF B
  <2> QED
    BY Smallest
<1>2. s \in SUBSET S /\ SumOver(w, s) \notin Int /\ IsFiniteSet(s)
  BY FS_Subset
<1>3. s # {}
  <2>1. s = {} => SumOver(w, s) = 0
    BY <1>2, SumStep
  <2> QED
    BY <1>2, <2>1
<1> DEFINE r == s \ {Pick(s)}
<1>4. r \in SUBSET S /\ r \subseteq s /\ r # s /\ Pick(s) \in S
  BY <1>2, <1>3, PickIn
<1>5. SumOver(w, r) \in Int
  BY <1>1, <1>4
<1>6. SumOver(w, s) = w[Pick(s)] + SumOver(w, r)
  BY <1>2, <1>3, SumStep
<1> QED
  BY <1>2, <1>4, <1>5, <1>6

(* Any element may be taken out of a sum.                                  *)
LEMMA SumWithout ==
  ASSUME NEW w, NEW S, IsFiniteSet(S), \A x \in S : w[x] \in Int, NEW p \in S
  PROVE  SumOver(w, S) = w[p] + SumOver(w, S \ {p})
<1> DEFINE Splits(s) == \A x \in s : SumOver(w, s) = w[x] + SumOver(w, s \ {x})
           B == {s \in SUBSET S : ~Splits(s)}
<1>1. ASSUME B # {} PROVE FALSE
  <2>1. PICK s \in B : \A t \in B : t \subseteq s => t = s
    <3> B \in SUBSET (SUBSET S)
      OBVIOUS
    <3> HIDE DEF B
    <3> QED
      BY <1>1, Smallest
  <2>2. /\ s \in SUBSET S /\ IsFiniteSet(s)
        /\ \E x \in s : SumOver(w, s) # w[x] + SumOver(w, s \ {x})
    BY FS_Subset
  <2>3. PICK x \in s : SumOver(w, s) # w[x] + SumOver(w, s \ {x})
    BY <2>2
  <2> DEFINE q == Pick(s)
  <2>4. SumOver(w, s) = w[q] + SumOver(w, s \ {q})
    BY <2>2, <2>3, SumStep
  <2>5. q \in s /\ q # x
    BY <2>3, <2>4, PickIn
  <2>6. Splits(s \ {q}) /\ Splits(s \ {x})
    <3>1. /\ s \ {q} \in SUBSET S /\ s \ {q} \subseteq s /\ s \ {q} # s
          /\ s \ {x} \in SUBSET S /\ s \ {x} \subseteq s /\ s \ {x} # s
      BY <2>2, <2>5
    <3> HIDE DEF Splits
    <3> QED
      BY <2>1, <3>1
  <2> HIDE DEF q
  <2>7. SumOver(w, s \ {q}) = w[x] + SumOver(w, (s \ {q}) \ {x})
    BY <2>5, <2>6
  <2>8. SumOver(w, s \ {x}) = w[q] + SumOver(w, (s \ {x}) \ {q})
    BY <2>5, <2>6
  <2>9. (s \ {x}) \ {q} = (s \ {q}) \ {x}
    OBVIOUS
  <2>10. w[x] \in Int /\ w[q] \in Int /\ SumOver(w, (s \ {q}) \ {x}) \in Int
    <3>1. IsFiniteSet((s \ {q}) \ {x}) /\ \A y \in (s \ {q}) \ {x} : w[y] \in Int
      BY <2>2, FS_Subset
    <3> QED
      BY <2>2, <2>5, <3>1, SumInt
  <2> DEFINE total == SumOver(w, s)
             noX == SumOver(w, s \ {x})
             noQ == SumOver(w, s \ {q})
             rest == SumOver(w, (s \ {q}) \ {x})
  <2>11. /\ total # w[x] + noX /\ total = w[q] + noQ
         /\ noQ = w[x] + rest /\ noX = w[q] + rest
         /\ w[x] \in Int /\ w[q] \in Int /\ rest \in Int
    BY <2>3, <2>4, <2>7, <2>8, <2>9, <2>10
  <2> HIDE DEF total, noX, noQ, rest
  <2> QED
    BY <2>11
<1>2. S \in SUBSET S /\ S \notin B
  BY <1>1
<1> QED
  BY <1>2

LEMMA SumWith ==
  ASSUME NEW w, NEW S, IsFiniteSet(S), NEW p, p \notin S, \A x \in S \cup {p} : w[x] \in Int
  PROVE  SumOver(w, S \cup {p}) = w[p] + SumOver(w, S)
<1>1. IsFiniteSet(S \cup {p}) /\ (S \cup {p}) \ {p} = S
  BY FS_AddElement
<1>2. SumOver(w, S \cup {p}) = w[p] + SumOver(w, (S \cup {p}) \ {p})
  BY <1>1, SumWithout
<1> QED
  BY <1>1, <1>2

(* A sum of nothing but zeros.                                             *)
LEMMA SumZero ==
  ASSUME NEW w, NEW S, IsFiniteSet(S), \A x \in S : w[x] = 0
  PROVE  SumOver(w, S) = 0
<1> DEFINE B == {s \in SUBSET S : SumOver(w, s) # 0}
<1> SUFFICES ASSUME B # {} PROVE FALSE
  OBVIOUS
<1>1. PICK s \in B : \A t \in B : t \subseteq s => t = s
  <2> B \in SUBSET (SUBSET S)
    OBVIOUS
  <2> HIDE DEF B
  <2> QED
    BY Smallest
<1>2. IsFiniteSet(s) /\ s \subseteq S /\ SumOver(w, s) # 0
  BY FS_Subset
<1>3. s # {}
  BY <1>2, SumStep
<1>4. Pick(s) \in s
  BY <1>3, PickIn
<1>5. SumOver(w, s) = w[Pick(s)] + SumOver(w, s \ {Pick(s)})
  BY <1>2, <1>3, SumStep
<1>6. s \ {Pick(s)} \notin B
  BY <1>1, <1>4
<1>7. SumOver(w, s \ {Pick(s)}) = 0
  BY <1>2, <1>6
<1> QED
  BY <1>2, <1>4, <1>5, <1>7

(* Only the weights of its elements matter to a sum.                       *)
LEMMA SumSame ==
  ASSUME NEW S, NEW w, NEW v, \A x \in S : w[x] = v[x]
  PROVE  SumOver(w, S) = SumOver(v, S)
<1>1. ASSUME NEW g PROVE IsSum(w, S, g) <=> IsSum(v, S, g)
  <2>1. [s \in SUBSET S |-> IF s = {} THEN 0 ELSE w[Pick(s)] + g[s \ {Pick(s)}]] =
        [s \in SUBSET S |-> IF s = {} THEN 0 ELSE v[Pick(s)] + g[s \ {Pick(s)}]]
    BY PickIn
  <2> QED
    BY <2>1 DEF IsSum
<1> QED
  BY <1>1 DEF Sums, SumOver

LEMMA SumUnion ==
  ASSUME NEW w, NEW A, IsFiniteSet(A), NEW B, IsFiniteSet(B), A \cap B = {},
         \A x \in A \cup B : w[x] \in Int
  PROVE  SumOver(w, A \cup B) = SumOver(w, A) + SumOver(w, B)
<1> DEFINE Adds(s) == SumOver(w, A \cup s) = SumOver(w, A) + SumOver(w, s)
           F == {s \in SUBSET B : ~Adds(s)}
<1>1. SumOver(w, A) \in Int
  BY SumInt
<1>2. ASSUME F # {} PROVE FALSE
  <2>1. PICK s \in F : \A t \in F : t \subseteq s => t = s
    <3> F \in SUBSET (SUBSET B)
      OBVIOUS
    <3> HIDE DEF F
    <3> QED
      BY <1>2, Smallest
  <2>2. s \in SUBSET B /\ IsFiniteSet(s) /\ SumOver(w, A \cup s) # SumOver(w, A) + SumOver(w, s)
    BY FS_Subset
  <2>3. s # {}
    <3>1. ASSUME s = {} PROVE SumOver(w, s) = 0 /\ A \cup s = A
      BY <2>2, <3>1, SumStep
    <3>2. ASSUME s = {} PROVE SumOver(w, A \cup s) = SumOver(w, A)
      BY <3>1, <3>2
    <3> QED
      BY <1>1, <2>2, <3>1, <3>2
  <2> DEFINE p == Pick(s)
             r == s \ {p}
  <2>4. p \in s /\ p \notin A /\ r \in SUBSET B /\ r \subseteq s /\ r # s
    BY <2>2, <2>3, PickIn
  <2>5. Adds(r)
    <3> HIDE DEF Adds, r
    <3> QED
      BY <2>1, <2>4
  <2>6. IsFiniteSet(A \cup s) /\ (A \cup s) \ {p} = A \cup r /\ p \in A \cup s
        /\ \A x \in A \cup s : w[x] \in Int
    BY <2>2, <2>4, FS_Union
  <2>7. IsFiniteSet(r) /\ SumOver(w, r) \in Int /\ w[p] \in Int
    BY <2>2, <2>4, FS_Subset, SumInt
  <2> DEFINE whole == SumOver(w, A \cup s)
             a == SumOver(w, A)
             rest == SumOver(w, r)
  <2>8. whole = w[p] + SumOver(w, A \cup r)
    <3> HIDE DEF p, r
    <3>1. SumOver(w, A \cup s) = w[p] + SumOver(w, (A \cup s) \ {p})
      BY <2>6, SumWithout
    <3> QED
      BY <2>6, <3>1
  <2>9. SumOver(w, s) = w[p] + rest
    BY <2>2, <2>3, SumStep
  <2>10. /\ whole # a + (w[p] + rest) /\ whole = w[p] + (a + rest)
         /\ a \in Int /\ rest \in Int /\ w[p] \in Int
    BY <1>1, <2>2, <2>5, <2>7, <2>8, <2>9
  <2> HIDE DEF whole, a, rest, p
  <2> QED
    BY <2>10
<1>3. B \in SUBSET B /\ B \notin F
  BY <1>2
<1> QED
  BY <1>3

(* In a finite set there is an element of the greatest weight.             *)
LEMMA Greatest ==
  ASSUME NEW S, IsFiniteSet(S), S # {}, NEW w, \A x \in S : w[x] \in Int
  PROVE  \E x \in S : \A y \in S : w[x] >= w[y]
<1> DEFINE Has(s) == \E x \in s : \A y \in s : w[x] >= w[y]
           F == {s \in SUBSET S : s # {} /\ ~Has(s)}
<1>1. ASSUME F # {} PROVE FALSE
  <2>1. PICK s \in F : \A t \in F : t \subseteq s => t = s
    <3> F \in SUBSET (SUBSET S)
      OBVIOUS
    <3> HIDE DEF F
    <3> QED
      BY <1>1, Smallest
  <2>2. s \in SUBSET S /\ s # {} /\ ~Has(s)
    OBVIOUS
  <2> DEFINE p == Pick(s)
             r == s \ {p}
  <2>3. p \in s /\ r \in SUBSET S /\ r \subseteq s /\ r # s
    BY <2>2, PickIn
  <2> HIDE DEF p
  <2>4. CASE r = {}
    <3>1. \A y \in s : y = p
      BY <2>4
    <3> QED
      BY <2>2, <2>3, <3>1
  <2>5. CASE r # {}
    <3>1. Has(r)
      <4> HIDE DEF Has, r
      <4> QED
        BY <2>1, <2>3, <2>5
    <3>2. PICK q \in r : \A y \in r : w[q] >= w[y]
      BY <3>1
    <3>3. \A y \in s : y = p \/ y \in r
      OBVIOUS
    <3>4. CASE w[p] >= w[q]
      <4>1. \A y \in s : w[p] >= w[y]
        BY <2>2, <2>3, <3>2, <3>3, <3>4
      <4> QED
        BY <2>2, <2>3, <4>1
    <3>5. CASE ~(w[p] >= w[q])
      <4>1. \A y \in s : w[q] >= w[y]
        BY <2>2, <2>3, <3>2, <3>3, <3>5
      <4> QED
        BY <2>2, <2>3, <3>2, <4>1
    <3> QED
      BY <3>4, <3>5
  <2> QED
    BY <2>4, <2>5
<1>2. S \in SUBSET S /\ S \notin F
  BY <1>1
<1> QED
  BY <1>2

(* Two sums that differ in the weight of one element, or of two.           *)
LEMMA SumChanged ==
  ASSUME NEW S, IsFiniteSet(S), NEW w, NEW v, \A x \in S : w[x] \in Int /\ v[x] \in Int,
         NEW p \in S, \A x \in S \ {p} : w[x] = v[x]
  PROVE  SumOver(v, S) = SumOver(w, S) + (v[p] - w[p])
<1>1. SumOver(w, S) = w[p] + SumOver(w, S \ {p})
  BY SumWithout
<1>2. SumOver(v, S) = v[p] + SumOver(v, S \ {p})
  BY SumWithout
<1>3. SumOver(w, S \ {p}) = SumOver(v, S \ {p})
  BY SumSame
<1>4. SumOver(w, S \ {p}) \in Int
  BY FS_RemoveElement, SumInt
<1> QED
  BY <1>1, <1>2, <1>3, <1>4

LEMMA SumChangedTwice ==
  ASSUME NEW S, IsFiniteSet(S), NEW w, NEW v, \A x \in S : w[x] \in Int /\ v[x] \in Int,
         NEW p \in S, NEW q \in S, p # q, \A x \in S \ {p, q} : w[x] = v[x]
  PROVE  SumOver(v, S) = SumOver(w, S) + (v[p] - w[p]) + (v[q] - w[q])
<1> DEFINE u == [x \in S |-> IF x = p THEN v[x] ELSE w[x]]
<1>1. /\ \A x \in S : u[x] \in Int
      /\ \A x \in S \ {p} : w[x] = u[x]
      /\ \A x \in S \ {q} : u[x] = v[x]
      /\ u[p] = v[p] /\ u[q] = w[q]
  OBVIOUS
<1> HIDE DEF u
<1>2. SumOver(u, S) = SumOver(w, S) + (u[p] - w[p])
  BY <1>1, SumChanged
<1>3. SumOver(v, S) = SumOver(u, S) + (v[q] - u[q])
  BY <1>1, SumChanged
<1> QED
  BY <1>1, <1>2, <1>3

=============================================================================
