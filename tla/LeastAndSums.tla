----------------------------- MODULE LeastAndSums ----------------------------
(***************************************************************************)
(* What the proofs need of least elements and of sums over finite sets.    *)
(* The induction theorems of the library take an operator, which no prover *)
(* here can instantiate; that a well-founded relation has minimal elements *)
(* (WFMin) takes a set, and a proof by least counterexample does what an   *)
(* induction would.                                                        *)
(***************************************************************************)
EXTENDS Integers, Functions, WellFoundedInduction, FiniteSetTheorems, TLAPS

(* A collection of subsets of a finite set has a smallest member.          *)
LEMMA SmallestSet ==
  ASSUME NEW U, IsFiniteSet(U), NEW C, C \subseteq SUBSET U, C # {}
  PROVE  \E m \in C : \A z \in C : ~(z \subseteq m /\ z # m)
<1>1. IsWellFoundedOn(StrictSubsetOrdering(U), SUBSET U)
  BY FS_StrictSubsetOrderingWellFounded, FS_FiniteSubsetsOfFinite
<1>2. \E x \in C : \A y \in C : ~ (<<y, x>> \in StrictSubsetOrdering(U))
  BY <1>1, WFMin, Zenon
<1> QED BY <1>2 DEF StrictSubsetOrdering

(* A set of numbers that is not empty has a least one.                     *)
LEMMA LeastNumber ==
  ASSUME NEW T, T \subseteq Nat, T # {}
  PROVE  \E x \in T : \A y \in T : x <= y
<1>1. PICK t \in T : TRUE
  OBVIOUS
<1> DEFINE Initial == {0 .. x : x \in T \cap (0 .. t)}
<1> DEFINE Upto == 0 .. t
<1>2. IsFiniteSet(Upto)
  BY <1>1, FS_Interval
<1>3. \E m \in Initial : \A z \in Initial : ~(z \subseteq m /\ z # m)
  <2>1. Initial \subseteq SUBSET Upto
    OBVIOUS
  <2>2. Initial # {}
    BY <1>1
  <2> HIDE DEF Initial, Upto
  <2> QED BY <1>2, <2>1, <2>2, SmallestSet
<1>4. PICK m \in Initial : \A z \in Initial : ~(z \subseteq m /\ z # m)
  BY <1>3
<1>5. PICK x \in T \cap (0 .. t) : m = 0 .. x
  BY <1>4
<1>6. ASSUME NEW y \in T, ~ (x <= y) PROVE FALSE
  <2>1. y \in T \cap (0 .. t) /\ y < x /\ (0 .. y) \in Initial
    BY <1>1, <1>5, <1>6
  <2>2. (0 .. y) \subseteq (0 .. x) /\ x \in 0 .. x /\ x \notin 0 .. y
    BY <2>1, <1>5
  <2> QED BY <2>1, <2>2, <1>4, <1>5
<1> QED BY <1>5, <1>6
------------------------------------------------------------------------------
(* SumFunctionOnSet of the community modules is a recursive function over  *)
(* the subsets of a set, which takes one element of each away by CHOOSE.   *)
(* That there is such a function, and that the sum does not depend on the  *)
(* order, is shown by smallest counterexamples.                            *)
Rest(s) == s \ {CHOOSE x \in s : TRUE}
SumsFrom(f, g, s) == IF s = {} THEN 0 ELSE f[CHOOSE x \in s : TRUE] + g[Rest(s)]
AreSums(f, g, T) == g = [s \in SUBSET T |-> SumsFrom(f, g, s)]

LEMMA SumChosen ==
  ASSUME NEW f, NEW S
  PROVE  SumFunctionOnSet(f, S) = (CHOOSE g : AreSums(f, g, S))[S]
  BY DEF SumFunctionOnSet, FoldFunctionOnSet, MapThenFoldSet, AreSums, SumsFrom, Rest

LEMMA RestIsSmaller ==
  ASSUME NEW s, s # {}
  PROVE  /\ (CHOOSE x \in s : TRUE) \in s
         /\ Rest(s) \subseteq s
         /\ Rest(s) # s
<1>1. (CHOOSE x \in s : TRUE) \in s
  OBVIOUS
<1> QED BY <1>1 DEF Rest

(* The sums over two sets agree on what is common to both.                 *)
LEMMA SumsAgree ==
  ASSUME NEW f, NEW T, NEW U, IsFiniteSet(T), NEW g, NEW h,
         AreSums(f, g, T), AreSums(f, h, U),
         NEW s, s \subseteq T, s \subseteq U
  PROVE  g[s] = h[s]
<1> DEFINE Bad == {t \in SUBSET T : t \subseteq U /\ g[t] # h[t]}
<1>1. SUFFICES ASSUME g[s] # h[s] PROVE FALSE
  OBVIOUS
<1>2. \E m \in Bad : \A z \in Bad : ~(z \subseteq m /\ z # m)
  <2>1. Bad \subseteq SUBSET T /\ Bad # {}
    BY <1>1
  <2> HIDE DEF Bad
  <2> QED BY <2>1, SmallestSet
<1>6. PICK m \in Bad : \A z \in Bad : ~(z \subseteq m /\ z # m)
  BY <1>2
<1>3. g[m] = SumsFrom(f, g, m) /\ h[m] = SumsFrom(f, h, m)
  <2>1. m \in SUBSET T /\ m \in SUBSET U
    BY <1>6
  <2> QED BY <2>1 DEF AreSums
<1>4. CASE m = {}
  BY <1>6, <1>3, <1>4 DEF SumsFrom
<1>5. CASE m # {}
  <2>1. Rest(m) \subseteq m /\ Rest(m) # m
    BY <1>5, RestIsSmaller
  <2>2. Rest(m) \in SUBSET T /\ Rest(m) \subseteq U /\ Rest(m) \notin Bad
    BY <2>1, <1>6
  <2>3. g[Rest(m)] = h[Rest(m)]
    BY <2>2
  <2> QED BY <1>6, <1>3, <1>5, <2>3 DEF SumsFrom
<1> QED BY <1>4, <1>5

LEMMA SumsExist ==
  ASSUME NEW f, NEW S, IsFiniteSet(S)
  PROVE  \E g : AreSums(f, g, S)
<1> DEFINE Bad == {t \in SUBSET S : ~ \E g : AreSums(f, g, t)}
<1>1. SUFFICES ASSUME Bad # {} PROVE FALSE
  OBVIOUS
<1>7. \E T \in Bad : \A z \in Bad : ~(z \subseteq T /\ z # T)
  <2>1. Bad \subseteq SUBSET S
    OBVIOUS
  <2> HIDE DEF Bad
  <2> QED BY <1>1, <2>1, SmallestSet
<1>2. PICK T \in Bad : \A z \in Bad : ~(z \subseteq T /\ z # T)
  BY <1>7
<1> DEFINE Of(t) == CHOOSE g : AreSums(f, g, t)
<1> DEFINE G == [t \in SUBSET T |-> Of(t)[t]]
<1> DEFINE H == [t \in SUBSET T |-> SumsFrom(f, G, t)]
<1>3. ASSUME NEW t, t \subseteq T, t # T PROVE AreSums(f, Of(t), t) /\ IsFiniteSet(t)
  <2>1. t \in SUBSET S /\ t \notin Bad
    BY <1>2, <1>3
  <2>2. IsFiniteSet(t)
    BY <2>1, FS_Subset
  <2> QED BY <2>1, <2>2
<1>4. ASSUME NEW t, t \subseteq T, t # T PROVE H[t] = G[t]
  <2>1. AreSums(f, Of(t), t) /\ IsFiniteSet(t)
    BY <1>3, <1>4
  <2>2. G[t] = SumsFrom(f, Of(t), t)
    <3>1. G[t] = Of(t)[t]
      BY <1>4
    <3> HIDE DEF G, H, Of
    <3> QED BY <2>1, <3>1 DEF AreSums
  <2>3. H[t] = SumsFrom(f, G, t)
    BY <1>4
  <2>4. CASE t = {}
    BY <2>2, <2>3, <2>4 DEF SumsFrom
  <2>5. CASE t # {}
    <3>1. Rest(t) \subseteq t /\ Rest(t) # t
      BY <2>5, RestIsSmaller
    <3>2. Rest(t) \subseteq T /\ Rest(t) # T
      BY <3>1, <1>4
    <3>3. AreSums(f, Of(Rest(t)), Rest(t)) /\ IsFiniteSet(Rest(t))
      BY <3>2, <1>3
    <3>4. G[Rest(t)] = Of(Rest(t))[Rest(t)]
      BY <3>2
    <3> HIDE DEF G, H, Of
    <3>5. Of(t)[Rest(t)] = Of(Rest(t))[Rest(t)]
      <4>1. Rest(t) \subseteq Rest(t)
        OBVIOUS
      <4> HIDE DEF Bad
      <4> DEFINE g == Of(t)
      <4> DEFINE h == Of(Rest(t))
      <4>2. AreSums(f, g, t) /\ AreSums(f, h, Rest(t)) /\ IsFiniteSet(t)
        BY <2>1, <3>3
      <4> HIDE DEF g, h
      <4>3. g[Rest(t)] = h[Rest(t)]
        BY <3>1, <4>1, <4>2, SumsAgree
      <4> QED BY <4>3 DEF g, h
    <3> QED BY <2>2, <2>3, <2>5, <3>4, <3>5 DEF SumsFrom
  <2> QED BY <2>4, <2>5
<1>5. ASSUME NEW t \in SUBSET T PROVE H[t] = SumsFrom(f, H, t)
  <2>1. H[t] = SumsFrom(f, G, t)
    OBVIOUS
  <2>2. CASE t = {}
    BY <2>1, <2>2 DEF SumsFrom
  <2>3. CASE t # {}
    <3>1. Rest(t) \subseteq T /\ Rest(t) # T
      BY <2>3, RestIsSmaller
    <3>2. H[Rest(t)] = G[Rest(t)]
      BY <3>1, <1>4
    <3> HIDE DEF G, H, Of
    <3> QED BY <2>1, <2>3, <3>2 DEF SumsFrom
  <2> QED BY <2>2, <2>3
<1>6. AreSums(f, H, T)
  <2>1. H = [t \in SUBSET T |-> H[t]]
    OBVIOUS
  <2> HIDE DEF H
  <2> QED BY <2>1, <1>5 DEF AreSums
<1> QED BY <1>2, <1>6

(* What a sum over a finite set is.                                        *)
LEMMA SumUnfolded ==
  ASSUME NEW f, NEW S, IsFiniteSet(S)
  PROVE  SumFunctionOnSet(f, S) =
           IF S = {} THEN 0
           ELSE f[CHOOSE x \in S : TRUE] + SumFunctionOnSet(f, Rest(S))
<1> DEFINE Of(t) == CHOOSE g : AreSums(f, g, t)
<1>1. AreSums(f, Of(S), S)
  BY SumsExist
<1>2. SumFunctionOnSet(f, S) = Of(S)[S]
  BY SumChosen
<1>3. Of(S)[S] = SumsFrom(f, Of(S), S)
  <2> HIDE DEF Of
  <2> QED BY <1>1 DEF AreSums
<1>4. CASE S = {}
  BY <1>2, <1>3, <1>4 DEF SumsFrom
<1>5. CASE S # {}
  <2>1. Rest(S) \subseteq S /\ IsFiniteSet(Rest(S))
    BY <1>5, RestIsSmaller, FS_Subset
  <2>2. AreSums(f, Of(Rest(S)), Rest(S))
    BY <2>1, SumsExist
  <2>3. SumFunctionOnSet(f, Rest(S)) = Of(Rest(S))[Rest(S)]
    BY SumChosen
  <2> HIDE DEF Of
  <2>4. Of(S)[Rest(S)] = Of(Rest(S))[Rest(S)]
    BY <1>1, <2>1, <2>2, SumsAgree
  <2> QED BY <1>2, <1>3, <1>5, <2>3, <2>4 DEF SumsFrom
<1> QED BY <1>4, <1>5
Numbers(f, S) == \A x \in S : f[x] \in Int

(* A sum of numbers is a number, and any of its terms may be taken first.  *)
LEMMA SumRemove ==
  ASSUME NEW f, NEW S, IsFiniteSet(S), Numbers(f, S)
  PROVE  /\ SumFunctionOnSet(f, S) \in Int
         /\ \A x \in S : SumFunctionOnSet(f, S) = f[x] + SumFunctionOnSet(f, S \ {x})
<1> DEFINE Good(T) ==
      /\ SumFunctionOnSet(f, T) \in Int
      /\ \A x \in T : SumFunctionOnSet(f, T) = f[x] + SumFunctionOnSet(f, T \ {x})
<1> DEFINE Bad == {T \in SUBSET S : ~ Good(T)}
<1>1. SUFFICES ASSUME Bad # {} PROVE FALSE
  BY DEF Bad
<1>2. \E T \in Bad : \A z \in Bad : ~(z \subseteq T /\ z # T)
  <2>1. Bad \subseteq SUBSET S
    OBVIOUS
  <2> HIDE DEF Bad
  <2> QED BY <1>1, <2>1, SmallestSet
<1>3. PICK T \in Bad : \A z \in Bad : ~(z \subseteq T /\ z # T)
  BY <1>2
<1>4. T \subseteq S /\ ~ Good(T) /\ IsFiniteSet(T)
  BY FS_Subset
<1>5. ASSUME NEW z, z \subseteq T, z # T PROVE Good(z) /\ IsFiniteSet(z)
  <2>1. z \in SUBSET S /\ z \notin Bad
    BY <1>3, <1>4, <1>5
  <2> QED BY <2>1, FS_Subset
<1>6. CASE T = {}
  <2>1. SumFunctionOnSet(f, T) = 0
    BY <1>4, <1>6, SumUnfolded
  <2> QED BY <1>4, <1>6, <2>1
<1>7. CASE T # {}
  <2> DEFINE c == CHOOSE x \in T : TRUE
  <2>1. c \in T
    BY <1>7
  <2>2. SumFunctionOnSet(f, T) = f[c] + SumFunctionOnSet(f, T \ {c})
    BY <1>4, <1>7, SumUnfolded DEF Rest
  <2> HIDE DEF c
  <2>3. Good(T \ {c}) /\ f[c] \in Int
    <3>1. T \ {c} \subseteq T /\ T \ {c} # T
      BY <2>1
    <3>2. f[c] \in Int
      BY <2>1, <1>4 DEF Numbers
    <3> HIDE DEF Good
    <3> QED BY <1>5, <3>1, <3>2
  <2>4. SumFunctionOnSet(f, T) \in Int
    BY <2>2, <2>3
  <2>5. ASSUME NEW x \in T PROVE SumFunctionOnSet(f, T) = f[x] + SumFunctionOnSet(f, T \ {x})
    <3>1. CASE x = c
      BY <3>1, <2>2
    <3>2. CASE x # c
      <4>1. Good(T \ {x}) /\ f[x] \in Int
        <5>1. T \ {x} \subseteq T /\ T \ {x} # T
          OBVIOUS
        <5>2. f[x] \in Int
          BY <1>4 DEF Numbers
        <5> HIDE DEF Good
        <5> QED BY <1>5, <5>1, <5>2
      <4>2. SumFunctionOnSet(f, T \ {c}) = f[x] + SumFunctionOnSet(f, (T \ {c}) \ {x})
        BY <3>2, <2>3
      <4>3. SumFunctionOnSet(f, T \ {x}) = f[c] + SumFunctionOnSet(f, (T \ {x}) \ {c})
        BY <3>2, <2>1, <4>1
      <4>4. (T \ {x}) \ {c} = (T \ {c}) \ {x}
        OBVIOUS
      <4>5. SumFunctionOnSet(f, (T \ {c}) \ {x}) \in Int
        <5>1. (T \ {c}) \ {x} \subseteq T /\ (T \ {c}) \ {x} # T
          BY <2>1
        <5>2. Good((T \ {c}) \ {x})
          <6> HIDE DEF Good
          <6> QED BY <1>5, <5>1
        <5> QED BY <5>2
      <4> DEFINE a == SumFunctionOnSet(f, (T \ {c}) \ {x})
      <4>6. /\ SumFunctionOnSet(f, T) = f[c] + (f[x] + a)
            /\ SumFunctionOnSet(f, T \ {x}) = f[c] + a
            /\ a \in Int
        BY <2>2, <4>2, <4>3, <4>4, <4>5
      <4> HIDE DEF a
      <4> QED BY <4>6, <4>1, <2>3
    <3> QED BY <3>1, <3>2
  <2> QED BY <1>4, <2>4, <2>5
<1> QED BY <1>6, <1>7

LEMMA SumOfNone ==
  ASSUME NEW f
  PROVE  SumFunctionOnSet(f, {}) = 0
  BY SumUnfolded, FS_EmptySet

LEMMA SumOfOne ==
  ASSUME NEW f, NEW x, f[x] \in Int
  PROVE  SumFunctionOnSet(f, {x}) = f[x]
<1>1. IsFiniteSet({x}) /\ Numbers(f, {x}) /\ {x} \ {x} = {}
  BY FS_Singleton DEF Numbers
<1>2. SumFunctionOnSet(f, {x}) = f[x] + SumFunctionOnSet(f, {})
  BY <1>1, SumRemove
<1> QED BY <1>2, SumOfNone

(* Term by term, two sums add up.                                          *)
LEMMA SumPlus ==
  ASSUME NEW S, IsFiniteSet(S), NEW f, NEW g, NEW h, Numbers(f, S), Numbers(g, S),
         \A x \in S : h[x] = f[x] + g[x]
  PROVE  SumFunctionOnSet(h, S) = SumFunctionOnSet(f, S) + SumFunctionOnSet(g, S)
<1> DEFINE Good(T) ==
      SumFunctionOnSet(h, T) = SumFunctionOnSet(f, T) + SumFunctionOnSet(g, T)
<1> DEFINE Bad == {T \in SUBSET S : ~ Good(T)}
<1>1. SUFFICES ASSUME Bad # {} PROVE FALSE
  BY DEF Bad
<1>2. \E T \in Bad : \A z \in Bad : ~(z \subseteq T /\ z # T)
  <2>1. Bad \subseteq SUBSET S
    OBVIOUS
  <2> HIDE DEF Bad
  <2> QED BY <1>1, <2>1, SmallestSet
<1>3. PICK T \in Bad : \A z \in Bad : ~(z \subseteq T /\ z # T)
  BY <1>2
<1>4. T \subseteq S /\ ~ Good(T) /\ IsFiniteSet(T)
  BY FS_Subset
<1>5. CASE T = {}
  BY <1>4, <1>5, SumOfNone
<1>6. CASE T # {}
  <2>1. PICK x \in T : TRUE
    BY <1>6
  <2>2. Good(T \ {x}) /\ IsFiniteSet(T \ {x})
    BY <1>3, <1>4, <2>1, FS_Subset
  <2>3. Numbers(f, T) /\ Numbers(g, T) /\ Numbers(h, T)
    BY <1>4 DEF Numbers
  <2>4. Numbers(f, T \ {x}) /\ Numbers(g, T \ {x})
    BY <2>3 DEF Numbers
  <2>5. /\ SumFunctionOnSet(f, T) = f[x] + SumFunctionOnSet(f, T \ {x})
        /\ SumFunctionOnSet(g, T) = g[x] + SumFunctionOnSet(g, T \ {x})
        /\ SumFunctionOnSet(h, T) = h[x] + SumFunctionOnSet(h, T \ {x})
    BY <1>4, <2>3, SumRemove
  <2>6. SumFunctionOnSet(f, T \ {x}) \in Int /\ SumFunctionOnSet(g, T \ {x}) \in Int
    BY <2>2, <2>4, SumRemove
  <2>7. f[x] \in Int /\ g[x] \in Int /\ h[x] = f[x] + g[x]
    BY <1>4 DEF Numbers
  <2> QED BY <1>4, <2>2, <2>5, <2>6, <2>7
<1> QED BY <1>5, <1>6
LEMMA SumNotNegative ==
  ASSUME NEW S, IsFiniteSet(S), NEW g, \A x \in S : g[x] \in Nat
  PROVE  SumFunctionOnSet(g, S) \in Nat
<1> DEFINE Good(T) == SumFunctionOnSet(g, T) \in Nat
<1> DEFINE Bad == {T \in SUBSET S : ~ Good(T)}
<1>1. SUFFICES ASSUME Bad # {} PROVE FALSE
  BY DEF Bad
<1>2. \E T \in Bad : \A z \in Bad : ~(z \subseteq T /\ z # T)
  <2>1. Bad \subseteq SUBSET S
    OBVIOUS
  <2> HIDE DEF Bad
  <2> QED BY <1>1, <2>1, SmallestSet
<1>3. PICK T \in Bad : \A z \in Bad : ~(z \subseteq T /\ z # T)
  BY <1>2
<1>4. T \subseteq S /\ ~ Good(T) /\ IsFiniteSet(T)
  BY FS_Subset
<1>5. CASE T = {}
  BY <1>4, <1>5, SumOfNone
<1>6. CASE T # {}
  <2>1. PICK x \in T : TRUE
    BY <1>6
  <2>2. Good(T \ {x})
    BY <1>3, <1>4, <2>1
  <2>3. Numbers(g, T)
    BY <1>4 DEF Numbers
  <2>4. SumFunctionOnSet(g, T) = g[x] + SumFunctionOnSet(g, T \ {x})
    BY <1>4, <2>3, SumRemove
  <2> QED BY <1>4, <2>2, <2>4
<1> QED BY <1>5, <1>6

(* A sum stays within another one, of terms that are not negative, if each *)
(* of its terms that is positive stays within a term of the other, no two  *)
(* of them within the same.                                                *)
LEMMA SumWithin ==
  ASSUME NEW T, IsFiniteSet(T), NEW f, Numbers(f, T),
         NEW S, IsFiniteSet(S), NEW g, \A y \in S : g[y] \in Nat,
         NEW P, \A x \in T \ P : f[x] <= 0,
         NEW to, \A x \in T \cap P : to[x] \in S /\ f[x] <= g[to[x]],
         \A x, y \in T \cap P : to[x] = to[y] => x = y
  PROVE  SumFunctionOnSet(f, T) <= SumFunctionOnSet(g, S)
<1> DEFINE Into(U, V) == \A x \in U \cap P : to[x] \in V
<1> DEFINE Good(U) == \A V \in SUBSET S :
      Into(U, V) => SumFunctionOnSet(f, U) <= SumFunctionOnSet(g, V)
<1> DEFINE Bad == {U \in SUBSET T : ~ Good(U)}
<1>1. SUFFICES ASSUME Bad # {} PROVE FALSE
  <2>1. T \in SUBSET T /\ S \in SUBSET S /\ Into(T, S)
    OBVIOUS
  <2>2. Bad = {} => Good(T)
    <3> HIDE DEF Good
    <3> QED BY <2>1
  <2> HIDE DEF Bad, Into
  <2> QED BY <1>1, <2>1, <2>2
<1>2. \E U \in Bad : \A z \in Bad : ~(z \subseteq U /\ z # U)
  <2>1. Bad \subseteq SUBSET T
    OBVIOUS
  <2> HIDE DEF Bad
  <2> QED BY <1>1, <2>1, SmallestSet
<1>3. PICK U \in Bad : \A z \in Bad : ~(z \subseteq U /\ z # U)
  BY <1>2
<1>4. U \subseteq T /\ ~ Good(U) /\ IsFiniteSet(U) /\ Numbers(f, U)
  <2>1. U \subseteq T /\ ~ Good(U)
    OBVIOUS
  <2> HIDE DEF Good
  <2> QED BY <2>1, FS_Subset DEF Numbers
<1>5. PICK V \in SUBSET S :
        Into(U, V) /\ ~ (SumFunctionOnSet(f, U) <= SumFunctionOnSet(g, V))
  <2> HIDE DEF Into
  <2> QED BY <1>4
<1>6. /\ IsFiniteSet(V)
      /\ \A y \in V : g[y] \in Nat
      /\ Numbers(g, V)
  BY FS_Subset DEF Numbers
<1>7. CASE U = {}
  BY <1>5, <1>6, <1>7, SumOfNone, SumNotNegative
<1>8. CASE U # {}
  <2>1. PICK x \in U : TRUE
    BY <1>8
  <2>2. U \ {x} \subseteq T /\ Good(U \ {x})
    <3>1. U \ {x} \in SUBSET T /\ U \ {x} \subseteq U /\ U \ {x} # U
      BY <1>4, <2>1
    <3> HIDE DEF Good
    <3> QED BY <1>3, <3>1
  <2>3. SumFunctionOnSet(f, U) = f[x] + SumFunctionOnSet(f, U \ {x})
    BY <1>4, SumRemove
  <2>4. f[x] \in Int /\ SumFunctionOnSet(f, U \ {x}) \in Int
    <3>1. Numbers(f, U \ {x}) /\ IsFiniteSet(U \ {x})
      BY <1>4, FS_Subset DEF Numbers
    <3>2. f[x] \in Int
      BY <1>4 DEF Numbers
    <3> QED BY <3>1, <3>2, SumRemove
  <2>5. CASE x \in P
    <3>1. /\ to[x] \in V
          /\ f[x] <= g[to[x]]
          /\ g[to[x]] \in Nat
      BY <2>5, <1>4, <1>5, <1>6
    <3>2. Into(U \ {x}, V \ {to[x]})
      BY <2>5, <1>4, <1>5
    <3>3. SumFunctionOnSet(f, U \ {x}) <= SumFunctionOnSet(g, V \ {to[x]})
      <4>1. V \ {to[x]} \in SUBSET S
        OBVIOUS
      <4> HIDE DEF Into
      <4> QED BY <2>2, <3>2, <4>1
    <3>4. SumFunctionOnSet(g, V) = g[to[x]] + SumFunctionOnSet(g, V \ {to[x]})
      BY <1>6, <3>1, SumRemove
    <3>5. SumFunctionOnSet(g, V \ {to[x]}) \in Int
      <4>1. Numbers(g, V \ {to[x]}) /\ IsFiniteSet(V \ {to[x]})
        BY <1>6, FS_Subset DEF Numbers
      <4> QED BY <4>1, SumRemove
    <3> HIDE DEF Into
    <3> QED BY <1>5, <2>3, <2>4, <3>1, <3>3, <3>4, <3>5
  <2>6. CASE x \notin P
    <3>1. f[x] <= 0
      BY <2>6, <1>4
    <3>2. Into(U \ {x}, V)
      BY <1>5
    <3>3. SumFunctionOnSet(f, U \ {x}) <= SumFunctionOnSet(g, V)
      <4> HIDE DEF Into
      <4> QED BY <2>2, <3>2
    <3>4. SumFunctionOnSet(g, V) \in Int
      BY <1>6, SumRemove
    <3> HIDE DEF Into
    <3> QED BY <1>5, <2>3, <2>4, <3>1, <3>3, <3>4
  <2> QED BY <2>5, <2>6
<1> QED BY <1>7, <1>8

(* The sum of the negated terms.                                           *)
LEMMA SumNegated ==
  ASSUME NEW S, IsFiniteSet(S), NEW f, NEW h, Numbers(f, S), \A x \in S : h[x] = - f[x]
  PROVE  SumFunctionOnSet(h, S) = - SumFunctionOnSet(f, S)
<1> DEFINE zero == [x \in S |-> 0]
<1>1. Numbers(h, S) /\ Numbers(zero, S)
  BY DEF Numbers
<1>2. \A x \in S : zero[x] = f[x] + h[x]
  BY DEF Numbers
<1>3. /\ \A x \in S : zero[x] \in Nat
      /\ \A x \in S \ {} : zero[x] <= 0
      /\ IsFiniteSet({})
      /\ \A x \in {} : zero[x] \in Nat
      /\ Numbers(zero, {})
  BY FS_EmptySet DEF Numbers
<1> HIDE DEF zero
<1>4. SumFunctionOnSet(zero, S) = SumFunctionOnSet(f, S) + SumFunctionOnSet(h, S)
  BY <1>1, <1>2, SumPlus
<1>5. SumFunctionOnSet(zero, S) \in Nat
  BY <1>3, SumNotNegative
<1>6. SumFunctionOnSet(zero, S) <= SumFunctionOnSet(zero, {})
  <2>1. /\ \A x \in S \cap {} : f[x] \in {} /\ zero[x] <= zero[f[x]]
        /\ \A x, y \in S \cap {} : f[x] = f[y] => x = y
    OBVIOUS
  <2> QED BY <1>1, <1>3, <2>1, SumWithin
<1>7. SumFunctionOnSet(f, S) \in Int /\ SumFunctionOnSet(h, S) \in Int
  BY <1>1, SumRemove
<1> QED BY <1>4, <1>5, <1>6, <1>7, SumOfNone
==============================================================================
