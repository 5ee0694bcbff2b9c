----------------------------- MODULE SumTheorems -----------------------------
(***************************************************************************)
(* Facts about sums, maxima and least elements of finite sets, proved by   *)
(* looking at a smallest set for which they fail.                          *)
(***************************************************************************)
EXTENDS Integers, FiniteSets, FiniteSetsExt, FiniteSetTheorems, TLAPS

\* g is the function by which the fold over a subset of D is defined.
IsIter(g, f, D) ==
  g = [s \in D |-> IF s = {} THEN 0
                   ELSE f[CHOOSE x \in s : TRUE] + g[s \ {CHOOSE x \in s : TRUE}]]

\* A non-empty collection of subsets of a finite set has a smallest member.
LEMMA SmallestSet ==
  ASSUME NEW S, IsFiniteSet(S), NEW Bad, Bad \subseteq SUBSET S, Bad # {}
  PROVE  \E s \in Bad : \A t \in Bad : t \subseteq s => t = s
<1>1. IsWellFoundedOn(StrictSubsetOrdering(S), FiniteSubsetsOf(S))
  BY FS_StrictSubsetOrderingWellFounded
<1>2. Bad \subseteq FiniteSubsetsOf(S)
  BY FS_Subset DEF FiniteSubsetsOf
<1>3. PICK s \in Bad : \A t \in Bad : ~(<<t, s>> \in StrictSubsetOrdering(S))
  BY <1>1, <1>2, WFMin
<1>4. QED
  BY <1>3 DEF StrictSubsetOrdering

\* The sum is the value of such a function.
LEMMA SumIter ==
  ASSUME NEW f, NEW S
  PROVE  SumFunctionOnSet(f, S) = (CHOOSE g : IsIter(g, f, SUBSET S))[S]
BY DEF SumFunctionOnSet, FoldFunctionOnSet, MapThenFoldSet, IsIter

\* Two such functions agree where both are defined.
LEMMA IterUnique ==
  ASSUME NEW f, NEW A, NEW B, NEW g, NEW h,
         IsIter(g, f, SUBSET A), IsIter(h, f, SUBSET B),
         NEW S, S \subseteq A, S \subseteq B, IsFiniteSet(S)
  PROVE  g[S] = h[S]
<1> DEFINE Bad == {s \in SUBSET S : g[s] # h[s]}
<1>1. SUFFICES ASSUME Bad # {} PROVE FALSE
  OBVIOUS
<1>2. Bad \subseteq SUBSET S
  OBVIOUS
<1>3. PICK s \in Bad : \A t \in Bad : t \subseteq s => t = s
  <2> HIDE DEF Bad
  <2> QED BY <1>1, <1>2, SmallestSet
<1>4. CASE s = {}
  BY <1>4 DEF IsIter
<1>5. CASE s # {}
  <2> DEFINE c == CHOOSE x \in s : TRUE
  <2>1. c \in s
    BY <1>5
  <2>2. g[s \ {c}] = h[s \ {c}]
    BY <1>3, <2>1
  <2>3. g[s] = f[c] + g[s \ {c}] /\ h[s] = f[c] + h[s \ {c}]
    BY <1>5 DEF IsIter
  <2>4. QED
    BY <2>2, <2>3
<1>6. QED
  BY <1>4, <1>5

\* The sum over a non-empty set whose subsets all have such a function.
LEMMA SumStepIfIter ==
  ASSUME NEW f, NEW S, IsFiniteSet(S),
         \A T \in SUBSET S : \E g : IsIter(g, f, SUBSET T)
  PROVE  SumFunctionOnSet(f, S) =
           IF S = {} THEN 0
           ELSE f[CHOOSE x \in S : TRUE] + SumFunctionOnSet(f, S \ {CHOOSE x \in S : TRUE})
<1> DEFINE Iter(T) == CHOOSE g : IsIter(g, f, SUBSET T)
           c == CHOOSE x \in S : TRUE
           R == S \ {c}
<1>1. IsIter(Iter(S), f, SUBSET S) /\ IsIter(Iter(R), f, SUBSET R)
  OBVIOUS
<1>2. SumFunctionOnSet(f, S) = Iter(S)[S] /\ SumFunctionOnSet(f, R) = Iter(R)[R]
  BY SumIter
<1> HIDE DEF Iter
<1>3. Iter(S)[S] = IF S = {} THEN 0 ELSE f[c] + Iter(S)[R]
  BY <1>1 DEF IsIter
<1>4. Iter(S)[R] = Iter(R)[R]
  <2>1. IsFiniteSet(R)
    BY FS_RemoveElement
  <2>2. R \subseteq S
    OBVIOUS
  <2> HIDE DEF R
  <2>3. QED
    BY <1>1, <2>1, <2>2, IterUnique
<1>5. QED
  BY <1>2, <1>3, <1>4

\* Every finite set has such a function.
LEMMA IterExists ==
  ASSUME NEW f, NEW S, IsFiniteSet(S)
  PROVE  \E g : IsIter(g, f, SUBSET S)
<1> DEFINE Bad == {s \in SUBSET S : ~ \E g : IsIter(g, f, SUBSET s)}
<1>1. SUFFICES ASSUME Bad # {} PROVE FALSE
  OBVIOUS
<1>2. Bad \subseteq SUBSET S
  OBVIOUS
<1>3. PICK s \in Bad : \A t \in Bad : t \subseteq s => t = s
  <2> HIDE DEF Bad
  <2> QED BY <1>1, <1>2, SmallestSet
<1>4. \A t \in SUBSET s : t # s => \E g : IsIter(g, f, SUBSET t)
  BY <1>3
<1> DEFINE Step(t) == IF t = {} THEN 0
                      ELSE f[CHOOSE x \in t : TRUE] + SumFunctionOnSet(f, t \ {CHOOSE x \in t : TRUE})
           h == [t \in SUBSET s |-> Step(t)]
<1>5. \A t \in SUBSET s : t # s => SumFunctionOnSet(f, t) = Step(t)
  <2> SUFFICES ASSUME NEW t \in SUBSET s, t # s
               PROVE  SumFunctionOnSet(f, t) = Step(t)
    OBVIOUS
  <2>1. \A u \in SUBSET t : \E g : IsIter(g, f, SUBSET u)
    BY <1>4
  <2>2. IsFiniteSet(t)
    BY <1>2, FS_Subset
  <2>3. QED
    BY <2>1, <2>2, SumStepIfIter
<1>6. \A t \in SUBSET s : t # {} => h[t \ {CHOOSE x \in t : TRUE}] = SumFunctionOnSet(f, t \ {CHOOSE x \in t : TRUE})
  <2> SUFFICES ASSUME NEW t \in SUBSET s, t # {}
               PROVE  h[t \ {CHOOSE x \in t : TRUE}] = SumFunctionOnSet(f, t \ {CHOOSE x \in t : TRUE})
    OBVIOUS
  <2> DEFINE c == CHOOSE x \in t : TRUE
             u == t \ {c}
  <2>1. c \in t
    OBVIOUS
  <2>2. u \in SUBSET s /\ u # s
    BY <2>1
  <2>3. h[u] = Step(u)
    BY <2>2
  <2>4. QED
    BY <1>5, <2>2, <2>3
<1>7. IsIter(h, f, SUBSET s)
  <2> DEFINE Body(g, t) == IF t = {} THEN 0
                           ELSE f[CHOOSE x \in t : TRUE] + g[t \ {CHOOSE x \in t : TRUE}]
  <2>1. h = [t \in SUBSET s |-> Step(t)]
    OBVIOUS
  <2> HIDE DEF h
  <2>2. \A t \in SUBSET s : Step(t) = Body(h, t)
    <3> SUFFICES ASSUME NEW t \in SUBSET s PROVE Step(t) = Body(h, t)
      OBVIOUS
    <3>1. CASE t = {}
      BY <3>1
    <3>2. CASE t # {}
      <4>1. h[t \ {CHOOSE x \in t : TRUE}] = SumFunctionOnSet(f, t \ {CHOOSE x \in t : TRUE})
        BY <1>6, <3>2
      <4>2. QED
        BY <3>2, <4>1
    <3>3. QED
      BY <3>1, <3>2
  <2>3. h = [t \in SUBSET s |-> Body(h, t)]
    <3> HIDE DEF Body, Step
    <3> QED BY <2>1, <2>2
  <2>4. QED
    BY <2>3 DEF IsIter
<1>8. QED
  BY <1>3, <1>7

\* The empty sum.
LEMMA SumEmpty == ASSUME NEW f PROVE SumFunctionOnSet(f, {}) = 0
BY SumStepIfIter, IterExists, FS_EmptySet, FS_Subset

\* The sum takes off one element of the set.
LEMMA SumStep ==
  ASSUME NEW f, NEW S, IsFiniteSet(S), S # {}
  PROVE  SumFunctionOnSet(f, S) =
           f[CHOOSE x \in S : TRUE] + SumFunctionOnSet(f, S \ {CHOOSE x \in S : TRUE})
BY SumStepIfIter, IterExists, FS_Subset

\* A sum of natural numbers is a natural number.
LEMMA SumType ==
  ASSUME NEW f, NEW S, IsFiniteSet(S), \A x \in S : f[x] \in Nat
  PROVE  SumFunctionOnSet(f, S) \in Nat
<1> DEFINE Bad == {s \in SUBSET S : SumFunctionOnSet(f, s) \notin Nat}
<1>1. SUFFICES ASSUME Bad # {} PROVE FALSE
  OBVIOUS
<1>2. Bad \subseteq SUBSET S
  OBVIOUS
<1>3. PICK s \in Bad : \A t \in Bad : t \subseteq s => t = s
  <2> HIDE DEF Bad
  <2> QED BY <1>1, <1>2, SmallestSet
<1>4. s \in SUBSET S /\ SumFunctionOnSet(f, s) \notin Nat
  OBVIOUS
<1>5. \A t \in SUBSET s : t # s => SumFunctionOnSet(f, t) \in Nat
  BY <1>3, <1>4
<1> HIDE DEF Bad
<1>6. s # {} /\ IsFiniteSet(s)
  <2>1. SumFunctionOnSet(f, {}) \in Nat
    BY SumEmpty
  <2>2. QED
    BY <1>4, <2>1, FS_Subset
<1> DEFINE c == CHOOSE x \in s : TRUE
<1>7. c \in s /\ f[c] \in Nat
  BY <1>4, <1>6
<1>8. SumFunctionOnSet(f, s \ {c}) \in Nat
  BY <1>5, <1>7
<1>9. SumFunctionOnSet(f, s) = f[c] + SumFunctionOnSet(f, s \ {c})
  BY <1>6, SumStep
<1> HIDE DEF c
<1>10. QED
  BY <1>4, <1>7, <1>8, <1>9

\* Any element may be taken off.
LEMMA SumRemove ==
  ASSUME NEW f, NEW S, IsFiniteSet(S), \A x \in S : f[x] \in Nat, NEW y \in S
  PROVE  SumFunctionOnSet(f, S) = f[y] + SumFunctionOnSet(f, S \ {y})
<1> DEFINE Fails(s, e) == e \in s /\ SumFunctionOnSet(f, s) # f[e] + SumFunctionOnSet(f, s \ {e})
           Bad == {s \in SUBSET S : \E e \in s : Fails(s, e)}
<1>1. SUFFICES ASSUME Bad # {} PROVE FALSE
  OBVIOUS
<1>2. Bad \subseteq SUBSET S
  OBVIOUS
<1>3. PICK s \in Bad : \A t \in Bad : t \subseteq s => t = s
  <2> HIDE DEF Bad
  <2> QED BY <1>1, <1>2, SmallestSet
<1>4. s \in SUBSET S /\ \A t \in SUBSET s : t # s => \A e \in t : ~Fails(t, e)
  <2> HIDE DEF Fails
  <2> QED BY <1>3
<1>5. PICK e \in s : Fails(s, e)
  OBVIOUS
<1> DEFINE c == CHOOSE x \in s : TRUE
           both == s \ {c, e}
<1> HIDE DEF Bad
<1>6. IsFiniteSet(s) /\ s # {} /\ c \in s
  BY <1>4, <1>5, FS_Subset
<1>7. SumFunctionOnSet(f, s) = f[c] + SumFunctionOnSet(f, s \ {c})
  BY <1>6, SumStep
<1>8. c # e
  BY <1>5, <1>7
<1> HIDE DEF c
<1>9. SumFunctionOnSet(f, s \ {c}) = f[e] + SumFunctionOnSet(f, both)
  <2>1. (s \ {c}) \ {e} = both /\ s \ {c} # s /\ e \in s \ {c}
    BY <1>6, <1>8
  <2>2. QED
    BY <1>4, <2>1
<1>10. SumFunctionOnSet(f, s \ {e}) = f[c] + SumFunctionOnSet(f, both)
  <2>1. (s \ {e}) \ {c} = both /\ s \ {e} # s /\ c \in s \ {e}
    BY <1>6, <1>8
  <2>2. QED
    BY <1>4, <2>1
<1>11. f[c] \in Nat /\ f[e] \in Nat /\ SumFunctionOnSet(f, both) \in Nat
  <2>1. IsFiniteSet(both) /\ both \subseteq S
    BY <1>4, <1>6, FS_Subset
  <2>2. SumFunctionOnSet(f, both) \in Nat
    BY <2>1, SumType
  <2>3. QED
    BY <1>4, <1>6, <2>2
<1> HIDE DEF both
<1>12. QED
  BY <1>5, <1>7, <1>9, <1>10, <1>11

\* An element that is not in the set may be added.
LEMMA SumAdd ==
  ASSUME NEW f, NEW S, IsFiniteSet(S), NEW y, y \notin S, \A x \in S \cup {y} : f[x] \in Nat
  PROVE  SumFunctionOnSet(f, S \cup {y}) = f[y] + SumFunctionOnSet(f, S)
<1> DEFINE T == S \cup {y}
<1>1. IsFiniteSet(T)
  BY FS_AddElement
<1>2. T \ {y} = S /\ y \in T
  OBVIOUS
<1> HIDE DEF T
<1>3. SumFunctionOnSet(f, T) = f[y] + SumFunctionOnSet(f, T \ {y})
  BY <1>1, <1>2, SumRemove DEF T
<1>4. QED
  BY <1>2, <1>3 DEF T

\* The sum depends on the values of the function on the set only.
LEMMA SumEqual ==
  ASSUME NEW f, NEW g, NEW S, IsFiniteSet(S), \A x \in S : f[x] = g[x]
  PROVE  SumFunctionOnSet(f, S) = SumFunctionOnSet(g, S)
<1> DEFINE Bad == {s \in SUBSET S : SumFunctionOnSet(f, s) # SumFunctionOnSet(g, s)}
<1>1. SUFFICES ASSUME Bad # {} PROVE FALSE
  OBVIOUS
<1>2. Bad \subseteq SUBSET S
  OBVIOUS
<1>3. PICK s \in Bad : \A t \in Bad : t \subseteq s => t = s
  <2> HIDE DEF Bad
  <2> QED BY <1>1, <1>2, SmallestSet
<1>4. s \in SUBSET S /\ SumFunctionOnSet(f, s) # SumFunctionOnSet(g, s)
  OBVIOUS
<1>5. \A t \in SUBSET s : t # s => SumFunctionOnSet(f, t) = SumFunctionOnSet(g, t)
  BY <1>3, <1>4
<1> HIDE DEF Bad
<1>6. s # {} /\ IsFiniteSet(s)
  BY <1>4, SumEmpty, FS_Subset
<1> DEFINE c == CHOOSE x \in s : TRUE
<1>7. c \in s /\ f[c] = g[c]
  BY <1>4, <1>6
<1>8. SumFunctionOnSet(f, s \ {c}) = SumFunctionOnSet(g, s \ {c})
  BY <1>5, <1>7
<1>9. /\ SumFunctionOnSet(f, s) = f[c] + SumFunctionOnSet(f, s \ {c})
      /\ SumFunctionOnSet(g, s) = g[c] + SumFunctionOnSet(g, s \ {c})
  BY <1>6, SumStep
<1> HIDE DEF c
<1>10. QED
  BY <1>4, <1>7, <1>8, <1>9

\* A larger set has a larger sum.
LEMMA SumMonotone ==
  ASSUME NEW f, NEW S, IsFiniteSet(S), \A x \in S : f[x] \in Nat, NEW T, T \subseteq S
  PROVE  SumFunctionOnSet(f, T) <= SumFunctionOnSet(f, S)
<1> DEFINE Bad == {s \in SUBSET S : T \subseteq s /\ ~(SumFunctionOnSet(f, T) <= SumFunctionOnSet(f, s))}
<1>1. SUFFICES ASSUME Bad # {} PROVE FALSE
  OBVIOUS
<1>2. Bad \subseteq SUBSET S
  OBVIOUS
<1>3. PICK s \in Bad : \A t \in Bad : t \subseteq s => t = s
  <2> HIDE DEF Bad
  <2> QED BY <1>1, <1>2, SmallestSet
<1>4. s \in SUBSET S /\ T \subseteq s /\ ~(SumFunctionOnSet(f, T) <= SumFunctionOnSet(f, s))
  OBVIOUS
<1>5. \A t \in SUBSET s : t # s /\ T \subseteq t => SumFunctionOnSet(f, T) <= SumFunctionOnSet(f, t)
  BY <1>3, <1>4
<1> HIDE DEF Bad
<1>6. IsFiniteSet(T) /\ IsFiniteSet(s)
  BY <1>4, FS_Subset
<1>7. SumFunctionOnSet(f, T) \in Nat
  BY <1>6, SumType
<1>8. PICK y \in s : y \notin T
  BY <1>4, <1>7
<1>9. SumFunctionOnSet(f, s) = f[y] + SumFunctionOnSet(f, s \ {y})
  BY <1>4, <1>6, SumRemove
<1>10. SumFunctionOnSet(f, T) <= SumFunctionOnSet(f, s \ {y})
  BY <1>4, <1>5, <1>8
<1>11. SumFunctionOnSet(f, s \ {y}) \in Nat /\ f[y] \in Nat
  <2>1. IsFiniteSet(s \ {y})
    BY <1>6, FS_RemoveElement
  <2>2. QED
    BY <1>4, <2>1, SumType
<1>12. QED
  BY <1>4, <1>7, <1>9, <1>10, <1>11

\* The image of a finite set is finite.
LEMMA ImageFinite ==
  ASSUME NEW S, IsFiniteSet(S), NEW g
  PROVE  IsFiniteSet({g[x] : x \in S})
<1> DEFINE T == {g[x] : x \in S}
           h == [x \in S |-> g[x]]
<1>1. h \in Surjection(S, T)
  BY DEF Surjection
<1>2. QED
  <2> HIDE DEF h, T
  <2>1. IsFiniteSet(T)
    BY <1>1, FS_Surjection
  <2> QED BY <2>1 DEF T

\* A finite set of numbers with a member contains its maximum.
LEMMA MaxInSet ==
  ASSUME NEW S, IsFiniteSet(S)
  PROVE  S \subseteq Int /\ S # {} => Max(S) \in S
<1> DEFINE Bad == {s \in SUBSET S : s # {} /\ ~\E x \in s : \A y \in s : x >= y}
<1>0. SUFFICES ASSUME S \subseteq Int PROVE S # {} => Max(S) \in S
  OBVIOUS
<1>1. SUFFICES ASSUME Bad # {} PROVE FALSE
  BY DEF Max
<1>2. Bad \subseteq SUBSET S
  OBVIOUS
<1>3. PICK s \in Bad : \A t \in Bad : t \subseteq s => t = s
  <2> HIDE DEF Bad
  <2> QED BY <1>1, <1>2, SmallestSet
<1>4. s \subseteq Int /\ s # {} /\ ~\E x \in s : \A y \in s : x >= y
  BY <1>0
<1>5. \A t \in SUBSET s : t # s /\ t # {} => \E x \in t : \A y \in t : x >= y
  BY <1>3
<1> HIDE DEF Bad
<1>6. PICK e \in s : TRUE
  BY <1>4, Zenon
<1>7. s \ {e} # {}
  BY <1>4, <1>6
<1>8. PICK m \in s \ {e} : \A y \in s \ {e} : m >= y
  BY <1>5, <1>6, <1>7
<1>9. QED
  BY <1>4, <1>6, <1>8

\* A finite set with a member has a least one in every order that is total on it.
LEMMA LeastExists ==
  ASSUME NEW S, IsFiniteSet(S), NEW rel
  PROVE  /\ S # {}
         /\ \A x, y \in S : x = y \/ <<x, y>> \in rel \/ <<y, x>> \in rel
         /\ \A x, y, z \in S : <<x, y>> \in rel /\ <<y, z>> \in rel => <<x, z>> \in rel
         => \E x \in S : \A y \in S : x = y \/ <<x, y>> \in rel
<1> DEFINE Bad == {s \in SUBSET S : s # {} /\ ~\E x \in s : \A y \in s : x = y \/ <<x, y>> \in rel}
<1>0. SUFFICES ASSUME \A x, y \in S : x = y \/ <<x, y>> \in rel \/ <<y, x>> \in rel,
                      \A x, y, z \in S : <<x, y>> \in rel /\ <<y, z>> \in rel => <<x, z>> \in rel
               PROVE  S # {} => \E x \in S : \A y \in S : x = y \/ <<x, y>> \in rel
  OBVIOUS
<1>1. SUFFICES ASSUME Bad # {} PROVE FALSE
  OBVIOUS
<1>2. Bad \subseteq SUBSET S
  OBVIOUS
<1>3. PICK s \in Bad : \A t \in Bad : t \subseteq s => t = s
  <2> HIDE DEF Bad
  <2> QED BY <1>1, <1>2, SmallestSet
<1>4. s \subseteq S /\ s # {} /\ ~\E x \in s : \A y \in s : x = y \/ <<x, y>> \in rel
  OBVIOUS
<1>5. \A t \in SUBSET s : t # s /\ t # {} => \E x \in t : \A y \in t : x = y \/ <<x, y>> \in rel
  BY <1>3
<1> HIDE DEF Bad
<1>6. PICK e \in s : TRUE
  BY <1>4, Zenon
<1>7. s \ {e} # {} /\ s \ {e} # s /\ s \ {e} \in SUBSET s
  BY <1>4, <1>6
<1>8. PICK m \in s \ {e} : \A y \in s \ {e} : m = y \/ <<m, y>> \in rel
  BY <1>5, <1>7, Zenon
<1>9. CASE <<m, e>> \in rel
  BY <1>4, <1>6, <1>8, <1>9
<1>10. CASE <<m, e>> \notin rel
  <2>1. <<e, m>> \in rel
    BY <1>0, <1>4, <1>6, <1>8, <1>10
  <2>2. \A y \in s : e = y \/ <<e, y>> \in rel
    BY <1>0, <1>4, <1>6, <1>8, <2>1
  <2>3. QED
    BY <1>4, <1>6, <2>2
<1>11. QED
  BY <1>9, <1>10
=============================================================================
