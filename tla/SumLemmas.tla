------------------------------ MODULE SumLemmas ------------------------------
(***************************************************************************)
(* What SumFunctionOnSet and SumFunction of the community module Functions *)
(* compute for every finite set: MakerChaser adds up with them what the    *)
(* exchange executed of a chase's orders.                                  *)
(*                                                                         *)
(* They are recursive functions over the subsets of a set, and the         *)
(* induction theorems of the library take a predicate as a parameter, which*)
(* the provers cannot instantiate.  Every induction here is by the smallest*)
(* counterexample instead: of the subsets of a finite set that violate a   *)
(* formula, one is minimal (SmallestSubset).                               *)
(***************************************************************************)
EXTENDS Integers, Functions, FiniteSetTheorems, TLAPS

\* The element the fold takes first.
Chosen(s) == CHOOSE x \in s : TRUE

Step(g, f, s) == IF s = {} THEN 0 ELSE f[Chosen(s)] + g[s \ {Chosen(s)}]

\* The recursive function behind the fold over S.
Fold(f, S) == CHOOSE g : g = [s \in SUBSET S |-> Step(g, f, s)]

\* g follows the recursion on the subsets of S.
Follows(g, f, S) == \A s \in SUBSET S : g[s] = Step(g, f, s)

LEMMA FoldIs ==
  ASSUME NEW f, NEW S
  PROVE  SumFunctionOnSet(f, S) = Fold(f, S)[S]
BY Zenon DEF SumFunctionOnSet, FoldFunctionOnSet, MapThenFoldSet, Fold, Step, Chosen

LEMMA ChosenIn ==
  ASSUME NEW s, s # {}
  PROVE  Chosen(s) \in s
BY DEF Chosen

LEMMA SmallestSubset ==
  ASSUME NEW S, IsFiniteSet(S), NEW T \in SUBSET (SUBSET S), T # {}
  PROVE  \E x \in T : \A y \in SUBSET x : y # x => y \notin T
<1>1. IsWellFoundedOn(StrictSubsetOrdering(S), SUBSET S)
  BY FS_StrictSubsetOrderingWellFounded, FS_FiniteSubsetsOfFinite
<1>2. PICK x \in T : \A y \in T : ~ (<<y, x>> \in StrictSubsetOrdering(S))
  BY <1>1, WFMin
<1>3. ASSUME NEW y \in SUBSET x, y # x, y \in T PROVE FALSE
  <2>1. <<y, x>> \in (SUBSET S) \X (SUBSET S)
    BY <1>2, <1>3
  <2>2. <<y, x>> \in StrictSubsetOrdering(S)
    BY <1>3, <2>1 DEF StrictSubsetOrdering
  <2>3. QED BY <1>2, <1>3, <2>2
<1>4. QED BY <1>2, <1>3
-----------------------------------------------------------------------------
\* Two functions that follow the recursion agree where both do.
LEMMA FollowsUnique ==
  ASSUME NEW S, IsFiniteSet(S), NEW f, NEW g, NEW h, Follows(g, f, S), Follows(h, f, S)
  PROVE  \A s \in SUBSET S : g[s] = h[s]
<1> DEFINE Bad == {s \in SUBSET S : g[s] # h[s]}
<1> SUFFICES ASSUME Bad # {} PROVE FALSE
  OBVIOUS
<1>1. PICK s \in Bad : \A y \in SUBSET s : y # s => y \notin Bad
  <2>1. Bad \in SUBSET (SUBSET S)
    OBVIOUS
  <2> HIDE DEF Bad
  <2>2. QED BY <2>1, SmallestSubset
<1>2. s \in SUBSET S /\ g[s] = Step(g, f, s) /\ h[s] = Step(h, f, s)
  BY <1>1 DEF Follows
<1>3. CASE s = {}
  BY <1>1, <1>2, <1>3 DEF Step
<1>4. CASE s # {}
  <2>1. Chosen(s) \in s
    BY <1>4, ChosenIn
  <2>2. g[s \ {Chosen(s)}] = h[s \ {Chosen(s)}]
    BY <1>1, <1>2, <2>1
  <2>3. QED BY <1>1, <1>2, <2>2 DEF Step
<1>5. QED BY <1>3, <1>4

LEMMA FollowsBelow ==
  ASSUME NEW S, NEW T \in SUBSET S, NEW f, NEW g, Follows(g, f, S)
  PROVE  Follows(g, f, T)
BY DEF Follows

LEMMA FollowerExists ==
  ASSUME NEW S, IsFiniteSet(S), NEW f \in [S -> Int]
  PROVE  \E g \in [SUBSET S -> Int] : Follows(g, f, S)
<1> DEFINE Has(T) == \E g \in [SUBSET T -> Int] : Follows(g, f, T)
           Bad == {T \in SUBSET S : ~Has(T)}
<1> SUFFICES ASSUME Bad # {} PROVE FALSE
  OBVIOUS
<1>1. PICK T \in Bad : \A y \in SUBSET T : y # T => y \notin Bad
  <2>1. Bad \in SUBSET (SUBSET S)
    OBVIOUS
  <2> HIDE DEF Bad
  <2>2. QED BY <2>1, SmallestSubset
<1>2. \A U \in SUBSET T : U # T => Has(U)
  BY <1>1
<1> DEFINE G(U) == CHOOSE g \in [SUBSET U -> Int] : Follows(g, f, U)
<1>3. \A U \in SUBSET T : U # T => G(U) \in [SUBSET U -> Int] /\ Follows(G(U), f, U)
  BY <1>2
<1> HIDE DEF G
<1>4. T \in SUBSET S /\ IsFiniteSet(T)
  BY <1>1, FS_Subset
<1> DEFINE top == IF T = {} THEN 0 ELSE f[Chosen(T)] + G(T \ {Chosen(T)})[T \ {Chosen(T)}]
           g == [s \in SUBSET T |-> IF s = T THEN top ELSE G(s)[s]]
<1>5. top \in Int
  <2>1. CASE T = {}
    BY <2>1
  <2>2. CASE T # {}
    <3>1. Chosen(T) \in T /\ f[Chosen(T)] \in Int
      BY <1>4, <2>2, ChosenIn
    <3>2. T \ {Chosen(T)} \in SUBSET T /\ T \ {Chosen(T)} # T
      BY <3>1
    <3> DEFINE U == T \ {Chosen(T)}
    <3>3. U \in SUBSET T /\ U # T
      BY <3>2
    <3> HIDE DEF U
    <3>4. G(U)[U] \in Int
      BY <1>3, <3>3
    <3>5. G(T \ {Chosen(T)})[T \ {Chosen(T)}] \in Int
      BY <3>4 DEF U
    <3>6. QED BY <2>2, <3>1, <3>5
  <2>3. QED BY <2>1, <2>2
<1>6. \A s \in SUBSET T : s # T => G(s)[s] \in Int
  BY <1>3
<1>7. g \in [SUBSET T -> Int]
  BY <1>5, <1>6
<1>8. Follows(g, f, T)
  <2> SUFFICES ASSUME NEW s \in SUBSET T PROVE g[s] = Step(g, f, s)
    BY DEF Follows
  <2> DEFINE r == s \ {Chosen(s)}
  <2>1. CASE s = {} /\ s = T
    BY <2>1 DEF Step
  <2>2. CASE s # {} /\ s = T
    <3>1. r \in SUBSET T /\ r # T
      BY <2>2, ChosenIn
    <3>2. g[r] = G(r)[r]
      BY <3>1
    <3>3. QED BY <2>2, <3>2 DEF Step
  <2>3. CASE s # T
    <3>1. g[s] = G(s)[s] /\ Follows(G(s), f, s)
      BY <1>3, <2>3
    <3>2. G(s)[s] = Step(G(s), f, s)
      BY <3>1 DEF Follows
    <3>3. CASE s = {}
      BY <3>1, <3>2, <3>3 DEF Step
    <3>4. CASE s # {}
      <4>1. r \in SUBSET s /\ r \in SUBSET T /\ r # T
        BY <2>3, <3>4, ChosenIn
      <4>2. Follows(G(s), f, r) /\ Follows(G(r), f, r)
        BY <1>3, <3>1, <4>1, FollowsBelow
      <4>3. IsFiniteSet(r) /\ r \in SUBSET r
        BY <1>4, <4>1, FS_Subset
      <4> HIDE DEF r
      <4>4. G(s)[r] = G(r)[r]
        BY <4>2, <4>3, FollowsUnique
      <4>5. g[r] = G(r)[r]
        BY <4>1
      <4>6. QED BY <3>1, <3>2, <3>4, <4>4, <4>5 DEF Step, r
    <3>5. QED BY <3>3, <3>4
  <2>4. QED BY <2>1, <2>2, <2>3
<1> HIDE DEF g
<1>9. QED BY <1>1, <1>7, <1>8

\* The fold itself follows the recursion.
LEMMA FoldFollows ==
  ASSUME NEW S, IsFiniteSet(S), NEW f \in [S -> Int]
  PROVE  Fold(f, S) \in [SUBSET S -> Int] /\ Follows(Fold(f, S), f, S)
<1>1. PICK g \in [SUBSET S -> Int] : Follows(g, f, S)
  BY FollowerExists
<1>2. g = [s \in SUBSET S |-> Step(g, f, s)]
  BY <1>1 DEF Follows
<1>3. Fold(f, S) = [s \in SUBSET S |-> Step(Fold(f, S), f, s)]
  BY <1>2 DEF Fold
<1>4. Follows(Fold(f, S), f, S)
  BY <1>3, Zenon DEF Follows
<1>5. \A s \in SUBSET S : Fold(f, S)[s] = g[s]
  BY <1>1, <1>4, FollowsUnique
<1>6. Fold(f, S) \in [SUBSET S -> Int]
  <2>1. \A s \in SUBSET S : Fold(f, S)[s] \in Int
    BY <1>1, <1>5
  <2>2. \A s \in SUBSET S : Step(Fold(f, S), f, s) \in Int
    BY <1>4, <2>1 DEF Follows
  <2>3. QED BY <1>3, <2>2
<1>7. QED BY <1>4, <1>6
-----------------------------------------------------------------------------
\* Sums over the subsets of one finite set are one function that follows the
\* recursion.
LEMMA SumsFollow ==
  ASSUME NEW S, IsFiniteSet(S), NEW f \in [S -> Int]
  PROVE  \A s \in SUBSET S :
           /\ SumFunctionOnSet(f, s) = Fold(f, S)[s]
           /\ SumFunctionOnSet(f, s) \in Int
<1> SUFFICES ASSUME NEW s \in SUBSET S
             PROVE  /\ SumFunctionOnSet(f, s) = Fold(f, S)[s]
                    /\ SumFunctionOnSet(f, s) \in Int
  OBVIOUS
<1>1. IsFiniteSet(s)
  BY FS_Subset
<1>2. PICK g \in [SUBSET S -> Int] : Follows(g, f, S)
  BY FollowerExists
<1>3. Follows(g, f, s)
  BY <1>2, FollowsBelow
<1>4. Fold(f, s) = [t \in SUBSET s |-> Step(Fold(f, s), f, t)]
  <2> DEFINE h == [t \in SUBSET s |-> g[t]]
  <2>1. \A t \in SUBSET s : h[t] = Step(h, f, t)
    <3> SUFFICES ASSUME NEW t \in SUBSET s PROVE h[t] = Step(h, f, t)
      OBVIOUS
    <3>1. g[t] = Step(g, f, t)
      BY <1>3 DEF Follows
    <3>2. t # {} => t \ {Chosen(t)} \in SUBSET s
      OBVIOUS
    <3>3. QED BY <3>1, <3>2 DEF Step
  <2>2. h = [t \in SUBSET s |-> Step(h, f, t)]
    BY <2>1
  <2> HIDE DEF h
  <2>3. QED BY <2>2 DEF Fold
<1>5. Follows(Fold(f, s), f, s)
  BY <1>4, Zenon DEF Follows
<1>6. Follows(Fold(f, S), f, s) /\ Fold(f, S)[s] \in Int
  BY FoldFollows, FollowsBelow
<1>7. Fold(f, s)[s] = Fold(f, S)[s]
  BY <1>1, <1>5, <1>6, FollowsUnique
<1>8. QED BY <1>6, <1>7, FoldIs

LEMMA SumOfNone ==
  ASSUME NEW f \in [{} -> Int]
  PROVE  SumFunctionOnSet(f, {}) = 0
<1>1. IsFiniteSet({})
  BY FS_EmptySet
<1>2. Follows(Fold(f, {}), f, {}) /\ {} \in SUBSET {}
  BY <1>1, FoldFollows
<1>3. Fold(f, {})[{}] = 0
  BY <1>2 DEF Follows, Step
<1>4. QED BY <1>3, FoldIs

\* Whichever element is taken out first, the sum is the same.
LEMMA SumTakesOut ==
  ASSUME NEW S, IsFiniteSet(S), NEW f \in [S -> Int]
  PROVE  \A s \in SUBSET S : \A x \in s :
           SumFunctionOnSet(f, s) = f[x] + SumFunctionOnSet(f, s \ {x})
<1> DEFINE Sum(s) == SumFunctionOnSet(f, s)
           Bad == {s \in SUBSET S : \E x \in s : Sum(s) # f[x] + Sum(s \ {x})}
<1>1. \A s \in SUBSET S : s # {} => Sum(s) = f[Chosen(s)] + Sum(s \ {Chosen(s)})
  <2> SUFFICES ASSUME NEW s \in SUBSET S, s # {}
               PROVE  Sum(s) = f[Chosen(s)] + Sum(s \ {Chosen(s)})
    OBVIOUS
  <2>1. Fold(f, S)[s] = Step(Fold(f, S), f, s)
    BY FoldFollows DEF Follows
  <2>2. s \ {Chosen(s)} \in SUBSET S
    OBVIOUS
  <2>3. QED BY <2>1, <2>2, SumsFollow DEF Step
<1>2. \A s \in SUBSET S : Sum(s) \in Int
  BY SumsFollow
<1> HIDE DEF Sum
<1>3. Bad = {}
  <2> SUFFICES ASSUME Bad # {} PROVE FALSE
    OBVIOUS
  <2>1. PICK s \in Bad : \A y \in SUBSET s : y # s => y \notin Bad
    <3>1. Bad \in SUBSET (SUBSET S)
      OBVIOUS
    <3> HIDE DEF Bad
    <3>2. QED BY <3>1, SmallestSubset
  <2>2. PICK x \in s : Sum(s) # f[x] + Sum(s \ {x})
    BY <2>1
  <2> DEFINE c == Chosen(s)
  <2>3. c \in s /\ s \in SUBSET S /\ x # c
    BY <1>1, <2>1, <2>2, ChosenIn
  <2>4. Sum(s) = f[c] + Sum(s \ {c})
    BY <1>1, <2>3
  <2> HIDE DEF c
  <2>5. Sum(s \ {c}) = f[x] + Sum((s \ {c}) \ {x})
    <3>1. s \ {c} \in SUBSET s /\ s \ {c} # s /\ s \ {c} \in SUBSET S /\ x \in s \ {c}
      BY <2>3
    <3>2. s \ {c} \notin Bad
      BY <2>1, <3>1
    <3>3. QED BY <3>1, <3>2
  <2>6. Sum(s \ {x}) = f[c] + Sum((s \ {x}) \ {c})
    <3>1. s \ {x} \in SUBSET s /\ s \ {x} # s /\ s \ {x} \in SUBSET S /\ c \in s \ {x}
      BY <2>3
    <3>2. s \ {x} \notin Bad
      BY <2>1, <3>1
    <3>3. QED BY <3>1, <3>2
  <2>7. (s \ {c}) \ {x} = (s \ {x}) \ {c}
    OBVIOUS
  <2>8. f[x] \in Int /\ f[c] \in Int /\ Sum((s \ {x}) \ {c}) \in Int
    BY <1>2, <2>2, <2>3
  <2> DEFINE rest == Sum((s \ {x}) \ {c})
  <2>9. Sum(s) = f[c] + (f[x] + rest) /\ Sum(s \ {x}) = f[c] + rest /\ rest \in Int
    BY <2>4, <2>5, <2>6, <2>7, <2>8
  <2> HIDE DEF rest
  <2>10. Sum(s) = f[x] + Sum(s \ {x})
    BY <2>8, <2>9
  <2>11. QED BY <2>2, <2>10
<1>4. QED BY <1>3 DEF Sum

\* A sum looks only at the values it adds up.
LEMMA SumLooksAt ==
  ASSUME NEW S, IsFiniteSet(S), NEW f \in [S -> Int], NEW R, IsFiniteSet(R), NEW h \in [R -> Int],
         NEW T \in SUBSET (S \cap R), \A x \in T : f[x] = h[x]
  PROVE  SumFunctionOnSet(f, T) = SumFunctionOnSet(h, T)
<1>1. IsFiniteSet(T) /\ T \in SUBSET S /\ T \in SUBSET R /\ T \in SUBSET T
  BY FS_Subset
<1>2. Follows(Fold(f, S), f, T) /\ Follows(Fold(h, R), h, T)
  BY <1>1, FoldFollows, FollowsBelow
<1>3. Follows(Fold(h, R), f, T)
  <2> SUFFICES ASSUME NEW s \in SUBSET T PROVE Fold(h, R)[s] = Step(Fold(h, R), f, s)
    BY DEF Follows
  <2>1. Fold(h, R)[s] = Step(Fold(h, R), h, s)
    BY <1>2 DEF Follows
  <2>2. s # {} => f[Chosen(s)] = h[Chosen(s)]
    BY ChosenIn
  <2>3. QED BY <2>1, <2>2 DEF Step
<1>4. Fold(f, S)[T] = Fold(h, R)[T]
  BY <1>1, <1>2, <1>3, FollowsUnique
<1>5. QED BY <1>1, <1>4, SumsFollow
-----------------------------------------------------------------------------
\* The sum of a function after one of its values was changed.
LEMMA SumChanges ==
  ASSUME NEW S, IsFiniteSet(S), NEW f \in [S -> Int], NEW x \in S, NEW v \in Int
  PROVE  SumFunction([f EXCEPT ![x] = v]) = SumFunction(f) - f[x] + v
<1> DEFINE h == [f EXCEPT ![x] = v]
<1>1. h \in [S -> Int] /\ h[x] = v /\ \A y \in S \ {x} : f[y] = h[y]
  OBVIOUS
<1>2. DOMAIN f = S /\ DOMAIN h = S
  OBVIOUS
<1> HIDE DEF h
<1>3. S \in SUBSET S /\ S \ {x} \in SUBSET (S \cap S) /\ S \ {x} \in SUBSET S
  OBVIOUS
<1>4. SumFunctionOnSet(f, S \ {x}) = SumFunctionOnSet(h, S \ {x})
  BY <1>1, <1>3, SumLooksAt
<1>5. SumFunctionOnSet(f, S) = f[x] + SumFunctionOnSet(f, S \ {x})
  BY <1>3, SumTakesOut
<1>6. SumFunctionOnSet(h, S) = h[x] + SumFunctionOnSet(h, S \ {x})
  BY <1>1, <1>3, SumTakesOut
<1>7. SumFunctionOnSet(f, S \ {x}) \in Int /\ f[x] \in Int
  BY <1>3, SumsFollow
<1>8. SumFunction(h) = SumFunction(f) - f[x] + v
  BY <1>1, <1>2, <1>4, <1>5, <1>6, <1>7 DEF SumFunction
<1>9. QED BY <1>8 DEF h

\* The sum of a function after its domain got one more element.
LEMMA SumGrows ==
  ASSUME NEW S, IsFiniteSet(S), NEW f \in [S -> Int], NEW x, x \notin S,
         NEW R, R = S \cup {x}, NEW h \in [R -> Int], \A y \in S : h[y] = f[y]
  PROVE  SumFunction(h) = SumFunction(f) + h[x]
<1>1. IsFiniteSet(R) /\ R \in SUBSET R /\ S \in SUBSET (S \cap R) /\ R \ {x} = S /\ x \in R
  BY FS_AddElement
<1>2. DOMAIN f = S /\ DOMAIN h = R /\ h \in [R -> Int]
  OBVIOUS
<1>3. SumFunctionOnSet(f, S) = SumFunctionOnSet(h, S)
  BY <1>1, <1>2, SumLooksAt
<1>4. SumFunctionOnSet(h, R) = h[x] + SumFunctionOnSet(h, S)
  BY <1>1, <1>2, SumTakesOut
<1>5. SumFunctionOnSet(f, S) \in Int /\ h[x] \in Int
  BY <1>1, <1>2, SumsFollow
<1>6. QED BY <1>2, <1>3, <1>4, <1>5 DEF SumFunction

\* A sum of natural numbers is one, and no less than any of them.
LEMMA SumOfNats ==
  ASSUME NEW S, IsFiniteSet(S), NEW f \in [S -> Nat]
  PROVE  SumFunction(f) \in Nat /\ \A x \in S : f[x] <= SumFunction(f)
<1> DEFINE Sum(s) == SumFunctionOnSet(f, s)
           Bad == {s \in SUBSET S : Sum(s) \notin Nat}
<1>1. f \in [S -> Int] /\ DOMAIN f = S
  OBVIOUS
<1>2. \A s \in SUBSET S : \A x \in s : Sum(s) = f[x] + Sum(s \ {x})
  <2> TAKE s \in SUBSET S
  <2> TAKE x \in s
  <2>1. SumFunctionOnSet(f, s) = f[x] + SumFunctionOnSet(f, s \ {x})
    BY <1>1, SumTakesOut
  <2>2. QED BY <2>1
<1>3. Sum({}) = 0
  <2>1. IsFiniteSet({}) /\ {} \in SUBSET {} /\ {} \in SUBSET S
    BY FS_EmptySet
  <2>2. Fold(f, S)[{}] = Step(Fold(f, S), f, {})
    BY <1>1, <2>1, FoldFollows DEF Follows
  <2>3. QED BY <1>1, <2>1, <2>2, SumsFollow DEF Step
<1> HIDE DEF Sum
<1>4. Bad = {}
  <2> SUFFICES ASSUME Bad # {} PROVE FALSE
    OBVIOUS
  <2>1. PICK s \in Bad : \A y \in SUBSET s : y # s => y \notin Bad
    <3>1. Bad \in SUBSET (SUBSET S)
      OBVIOUS
    <3> HIDE DEF Bad
    <3>2. QED BY <3>1, SmallestSubset
  <2>2. s # {}
    <3>1. Sum(s) \notin Nat
      BY <2>1
    <3>2. s = {} => Sum(s) = 0
      BY <1>3, Zenon
    <3>3. QED BY <3>1, <3>2
  <2>3. PICK x \in s : TRUE
    BY <2>2
  <2>4. s \ {x} \in SUBSET s /\ s \ {x} # s /\ s \ {x} \in SUBSET S /\ x \in S /\ s \in SUBSET S
    BY <2>1, <2>3
  <2>5. Sum(s \ {x}) \in Nat
    BY <2>1, <2>4
  <2>6. Sum(s) = f[x] + Sum(s \ {x}) /\ f[x] \in Nat
    BY <1>2, <2>3, <2>4
  <2>7. QED BY <2>1, <2>5, <2>6
<1>5. \A s \in SUBSET S : Sum(s) \in Nat
  BY <1>4
<1>6. SumFunction(f) = Sum(S)
  BY <1>1 DEF SumFunction, Sum
<1>7. ASSUME NEW x \in S PROVE f[x] <= Sum(S)
  <2>1. Sum(S) = f[x] + Sum(S \ {x}) /\ Sum(S \ {x}) \in Nat /\ f[x] \in Nat
    BY <1>2, <1>5
  <2>2. QED BY <2>1
<1>8. QED BY <1>5, <1>6, <1>7
=============================================================================
