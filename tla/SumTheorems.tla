---------------------------- MODULE SumTheorems ----------------------------
(***************************************************************************)
(* Facts about SumFunctionOnSet of the community module Functions: what    *)
(* the sum of f[i] over a finite set is when an element is taken out, and  *)
(* that it does not depend on the order in which the elements are taken.   *)
(*                                                                         *)
(* The sum is a recursive function on subsets.  Induction on sets is done  *)
(* by minimal counterexample: of the sets for which a fact fails there is  *)
(* a smallest, which loses an element that the fact holds without.         *)
(***************************************************************************)
EXTENDS Integers, Functions, FiniteSetTheorems, TLAPS

Some(s) == CHOOSE x \in s : TRUE

\* g is the recursive function whose value for S is the sum of f over S.
SumsOf(g, f, S) == g = [s \in SUBSET S |-> IF s = {} THEN 0 ELSE f[Some(s)] + g[s \ {Some(s)}]]

\* Of subsets of a finite set one has no other inside it.
LEMMA SmallestSet ==
  ASSUME NEW S, IsFiniteSet(S), NEW B \in SUBSET (SUBSET S), B # {}
  PROVE  \E T \in B : \A U \in B : U \subseteq T => U = T
<1>1. IsWellFoundedOn(StrictSubsetOrdering(S), FiniteSubsetsOf(S))
  BY FS_StrictSubsetOrderingWellFounded
<1>2. FiniteSubsetsOf(S) = SUBSET S
  BY FS_FiniteSubsetsOfFinite
<1>3. B \subseteq FiniteSubsetsOf(S)
  BY <1>2
<1>4. PICK T \in B : \A U \in B : ~ (<<U, T>> \in StrictSubsetOrdering(S))
  BY <1>1, <1>3, WFMin
<1> QED
  BY <1>4 DEF StrictSubsetOrdering

\* The sum is the value of such a function, when there is one.
LEMMA SumIsChosen == \A f, S : SumFunctionOnSet(f, S) = (CHOOSE g : SumsOf(g, f, S))[S]
  BY DEF SumFunctionOnSet, FoldFunctionOnSet, MapThenFoldSet, SumsOf, Some

\* Two of them agree on the sets both are defined for.
LEMMA SumsAgree ==
  ASSUME NEW S, IsFiniteSet(S), NEW f, NEW T \in SUBSET S, NEW U \in SUBSET S,
         NEW g, NEW h, SumsOf(g, f, T), SumsOf(h, f, U),
         NEW s \in SUBSET (T \cap U)
  PROVE  g[s] = h[s]
<1> DEFINE B == {r \in SUBSET S : r \subseteq T \cap U /\ g[r] # h[r]}
<1> SUFFICES ASSUME B # {} PROVE FALSE
  OBVIOUS
<1>1. PICK r \in B : \A q \in B : q \subseteq r => q = r
  <2>1. B \in SUBSET (SUBSET S)
    OBVIOUS
  <2> HIDE DEF B
  <2> QED
    BY <2>1, SmallestSet
<1>2. \A q \in SUBSET T : g[q] = IF q = {} THEN 0 ELSE f[Some(q)] + g[q \ {Some(q)}]
  BY DEF SumsOf
<1>3. \A q \in SUBSET U : h[q] = IF q = {} THEN 0 ELSE f[Some(q)] + h[q \ {Some(q)}]
  BY DEF SumsOf
<1>4. r \in SUBSET T /\ r \in SUBSET U /\ g[r] # h[r]
  OBVIOUS
<1>5. r # {}
  BY <1>2, <1>3, <1>4
<1>6. Some(r) \in r
  BY <1>5 DEF Some
<1>7. g[r \ {Some(r)}] = h[r \ {Some(r)}]
  BY <1>1, <1>4, <1>6
<1> QED
  BY <1>2, <1>3, <1>4, <1>5, <1>7

\* There is one for every finite set.
LEMMA SumsExist ==
  ASSUME NEW S, IsFiniteSet(S), NEW f
  PROVE  \E g : SumsOf(g, f, S)
<1> DEFINE B == {T \in SUBSET S : ~ \E g : SumsOf(g, f, T)}
<1> SUFFICES ASSUME B # {} PROVE FALSE
  OBVIOUS
<1>1. PICK T \in B : \A U \in B : U \subseteq T => U = T
  <2>1. B \in SUBSET (SUBSET S)
    OBVIOUS
  <2> HIDE DEF B
  <2> QED
    BY <2>1, SmallestSet
<1> DEFINE G(U) == CHOOSE g : SumsOf(g, f, U)
<1>2. \A U \in SUBSET T : U # T => SumsOf(G(U), f, U)
  BY <1>1
<1> DEFINE h == [s \in SUBSET T |-> IF s = {} THEN 0
                                    ELSE f[Some(s)] + G(s \ {Some(s)})[s \ {Some(s)}]]
<1>3. ASSUME NEW s \in SUBSET T, s # {}
      PROVE  h[s \ {Some(s)}] = G(s \ {Some(s)})[s \ {Some(s)}]
  <2> DEFINE r == s \ {Some(s)}
  <2>1. Some(s) \in s
    BY <1>3 DEF Some
  <2>2. r \in SUBSET T /\ r # T
    BY <2>1
  <2>3. SumsOf(G(r), f, r)
    BY <1>2, <2>2
  <2>4. G(r)[r] = IF r = {} THEN 0 ELSE f[Some(r)] + G(r)[r \ {Some(r)}]
    <3> HIDE DEF r, G
    <3> QED
      BY <2>3 DEF SumsOf
  <2>5. h[r] = IF r = {} THEN 0 ELSE f[Some(r)] + G(r \ {Some(r)})[r \ {Some(r)}]
    BY <2>2
  <2>6. ASSUME r # {} PROVE G(r)[r \ {Some(r)}] = G(r \ {Some(r)})[r \ {Some(r)}]
    <3> DEFINE q == r \ {Some(r)}
    <3>1. q \in SUBSET T /\ q # T /\ q \subseteq r /\ q \in SUBSET (r \cap q)
      BY <2>2
    <3>2. SumsOf(G(q), f, q)
      BY <1>2, <3>1
    <3>3. r \in SUBSET S /\ q \in SUBSET S
      BY <2>2, <3>1
    <3> HIDE DEF q, r, G
    <3>4. G(r)[q] = G(q)[q]
      BY <2>3, <3>1, <3>2, <3>3, SumsAgree
    <3> QED
      BY <3>4 DEF q
  <2> QED
    BY <2>4, <2>5, <2>6
<1>4. SumsOf(h, f, T)
  <2>1. h = [s \in SUBSET T |-> h[s]]
    OBVIOUS
  <2>2. \A s \in SUBSET T : h[s] = IF s = {} THEN 0 ELSE f[Some(s)] + G(s \ {Some(s)})[s \ {Some(s)}]
    OBVIOUS
  <2> HIDE DEF h
  <2>3. \A s \in SUBSET T : h[s] = IF s = {} THEN 0 ELSE f[Some(s)] + h[s \ {Some(s)}]
    BY <1>3, <2>2
  <2> QED
    BY <2>1, <2>3 DEF SumsOf
<1> QED
  BY <1>1, <1>4

\* The sum over a finite set, by the element that is chosen first.
LEMMA SumByFirst ==
  ASSUME NEW S, IsFiniteSet(S), NEW f
  PROVE  SumFunctionOnSet(f, S) =
           IF S = {} THEN 0 ELSE f[Some(S)] + SumFunctionOnSet(f, S \ {Some(S)})
<1> DEFINE T == S \ {Some(S)}
           g == CHOOSE x : SumsOf(x, f, S)
           h == CHOOSE x : SumsOf(x, f, T)
<1>1. IsFiniteSet(T) /\ T \in SUBSET S
  BY FS_Subset
<1>2. SumsOf(g, f, S)
  BY SumsExist
<1>3. SumsOf(h, f, T)
  BY <1>1, SumsExist
<1>4. g[T] = h[T]
  <2> HIDE DEF T, g, h
  <2> QED
    BY <1>1, <1>2, <1>3, SumsAgree
<1>5. SumFunctionOnSet(f, S) = g[S] /\ SumFunctionOnSet(f, T) = h[T]
  BY SumIsChosen
<1>6. g[S] = IF S = {} THEN 0 ELSE f[Some(S)] + g[T]
  <2> HIDE DEF g
  <2> QED
    BY <1>2 DEF SumsOf
<1> QED
  BY <1>4, <1>5, <1>6

\* The sum over nothing.
THEOREM SumNone == \A f : SumFunctionOnSet(f, {}) = 0
  BY FS_EmptySet, SumByFirst

\* A sum of integers is an integer.
THEOREM SumType ==
  ASSUME NEW S, IsFiniteSet(S), NEW f, \A x \in S : f[x] \in Int
  PROVE  SumFunctionOnSet(f, S) \in Int
<1> DEFINE B == {T \in SUBSET S : SumFunctionOnSet(f, T) \notin Int}
<1> SUFFICES ASSUME B # {} PROVE FALSE
  OBVIOUS
<1>1. PICK T \in B : \A U \in B : U \subseteq T => U = T
  <2>1. B \in SUBSET (SUBSET S)
    OBVIOUS
  <2> HIDE DEF B
  <2> QED
    BY <2>1, SmallestSet
<1>2. IsFiniteSet(T)
  BY FS_Subset
<1>3. T # {}
  BY SumNone
<1>4. Some(T) \in T
  BY <1>3 DEF Some
<1>5. SumFunctionOnSet(f, T \ {Some(T)}) \in Int
  BY <1>1, <1>4
<1>6. f[Some(T)] \in Int
  BY <1>4
<1>7. SumFunctionOnSet(f, T) = f[Some(T)] + SumFunctionOnSet(f, T \ {Some(T)})
  BY <1>2, <1>3, SumByFirst
<1> QED
  BY <1>5, <1>6, <1>7

\* Any element may be taken out first.
THEOREM SumTakeOut ==
  ASSUME NEW S, IsFiniteSet(S), NEW f, \A y \in S : f[y] \in Int, NEW x \in S
  PROVE  SumFunctionOnSet(f, S) = f[x] + SumFunctionOnSet(f, S \ {x})
<1> DEFINE B == {T \in SUBSET S : \E z \in T :
                   SumFunctionOnSet(f, T) # f[z] + SumFunctionOnSet(f, T \ {z})}
<1> SUFFICES ASSUME B # {} PROVE FALSE
  OBVIOUS
<1>1. PICK T \in B : \A U \in B : U \subseteq T => U = T
  <2>1. B \in SUBSET (SUBSET S)
    OBVIOUS
  <2> HIDE DEF B
  <2> QED
    BY <2>1, SmallestSet
<1>2. PICK z \in T : SumFunctionOnSet(f, T) # f[z] + SumFunctionOnSet(f, T \ {z})
  OBVIOUS
<1> DEFINE c == Some(T)
<1>3. c \in T
  BY DEF Some
<1> HIDE DEF c
<1>4. IsFiniteSet(T) /\ T \in SUBSET S
  BY FS_Subset
<1>5. SumFunctionOnSet(f, T) = f[c] + SumFunctionOnSet(f, T \ {c})
  BY <1>3, <1>4, SumByFirst DEF c
<1>6. c # z
  BY <1>2, <1>5
<1>7. T \ {c} \notin B /\ T \ {z} \notin B
  BY <1>1, <1>3
<1>8. SumFunctionOnSet(f, T \ {c}) = f[z] + SumFunctionOnSet(f, (T \ {c}) \ {z})
  BY <1>4, <1>6, <1>7
<1>9. (T \ {c}) \ {z} = (T \ {z}) \ {c}
  OBVIOUS
<1>10. SumFunctionOnSet(f, T \ {z}) = f[c] + SumFunctionOnSet(f, (T \ {c}) \ {z})
  BY <1>3, <1>4, <1>6, <1>7, <1>9
<1>11. SumFunctionOnSet(f, (T \ {c}) \ {z}) \in Int
  <2>1. IsFiniteSet((T \ {c}) \ {z})
    BY <1>4, FS_Subset
  <2> QED
    BY <1>4, <2>1, SumType
<1>12. f[c] \in Int /\ f[z] \in Int
  BY <1>3, <1>4
<1> QED
  BY <1>2, <1>5, <1>8, <1>10, <1>11, <1>12

\* Functions that agree on a set have the same sum there.
THEOREM SumSame ==
  ASSUME NEW S, IsFiniteSet(S), NEW f, NEW g, \A x \in S : f[x] = g[x]
  PROVE  SumFunctionOnSet(f, S) = SumFunctionOnSet(g, S)
<1> DEFINE B == {T \in SUBSET S : SumFunctionOnSet(f, T) # SumFunctionOnSet(g, T)}
<1> SUFFICES ASSUME B # {} PROVE FALSE
  OBVIOUS
<1>1. PICK T \in B : \A U \in B : U \subseteq T => U = T
  <2>1. B \in SUBSET (SUBSET S)
    OBVIOUS
  <2> HIDE DEF B
  <2> QED
    BY <2>1, SmallestSet
<1>2. IsFiniteSet(T)
  BY FS_Subset
<1>3. T # {}
  BY SumNone
<1>4. Some(T) \in T
  BY <1>3 DEF Some
<1>5. SumFunctionOnSet(f, T \ {Some(T)}) = SumFunctionOnSet(g, T \ {Some(T)})
  BY <1>1, <1>4
<1>6. f[Some(T)] = g[Some(T)]
  BY <1>4
<1> QED
  BY <1>2, <1>3, <1>5, <1>6, SumByFirst

\* Zeros sum to zero.
THEOREM SumZero ==
  ASSUME NEW S, IsFiniteSet(S), NEW f, \A x \in S : f[x] = 0
  PROVE  SumFunctionOnSet(f, S) = 0
<1> DEFINE B == {T \in SUBSET S : SumFunctionOnSet(f, T) # 0}
<1> SUFFICES ASSUME B # {} PROVE FALSE
  OBVIOUS
<1>1. PICK T \in B : \A U \in B : U \subseteq T => U = T
  <2>1. B \in SUBSET (SUBSET S)
    OBVIOUS
  <2> HIDE DEF B
  <2> QED
    BY <2>1, SmallestSet
<1>2. IsFiniteSet(T)
  BY FS_Subset
<1>3. T # {}
  BY SumNone
<1>4. Some(T) \in T
  BY <1>3 DEF Some
<1>5. SumFunctionOnSet(f, T \ {Some(T)}) = 0
  BY <1>1, <1>4
<1>6. f[Some(T)] = 0
  BY <1>4
<1> QED
  BY <1>2, <1>3, <1>5, <1>6, SumByFirst

\* The sum of a function of integers is an integer.
THEOREM SumInt ==
  ASSUME NEW S, IsFiniteSet(S), NEW f \in [S -> Int]
  PROVE  SumFunction(f) \in Int
BY SumType DEF SumFunction

\* The sum of a function that is 0 everywhere.
THEOREM SumBlank ==
  ASSUME NEW S, IsFiniteSet(S), NEW f \in [S -> Int], \A x \in S : f[x] = 0
  PROVE  SumFunction(f) = 0
BY SumZero DEF SumFunction

\* When a function changes at one place its sum changes by the difference.
THEOREM SumChange ==
  ASSUME NEW S, IsFiniteSet(S), NEW f \in [S -> Int], NEW g \in [S -> Int],
         NEW x \in S, \A y \in S \ {x} : g[y] = f[y]
  PROVE  SumFunction(g) = SumFunction(f) - f[x] + g[x]
<1>1. SumFunction(f) = f[x] + SumFunctionOnSet(f, S \ {x})
  BY SumTakeOut DEF SumFunction
<1>2. SumFunction(g) = g[x] + SumFunctionOnSet(g, S \ {x})
  BY SumTakeOut DEF SumFunction
<1>3. IsFiniteSet(S \ {x})
  BY FS_Subset
<1>4. SumFunctionOnSet(g, S \ {x}) = SumFunctionOnSet(f, S \ {x})
  BY <1>3, SumSame
<1>5. SumFunctionOnSet(f, S \ {x}) \in Int
  BY <1>3, SumType
<1> QED
  BY <1>1, <1>2, <1>4, <1>5
=============================================================================
