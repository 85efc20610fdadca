---------------------------- MODULE SumTheorems ----------------------------
(***************************************************************************)
(* Sums over finite sets.  SumFunctionOnSet of the module Functions adds   *)
(* up by recursion on the subsets of its set, so what it computes is shown *)
(* by induction: if a claim failed for some subsets, one of them would be  *)
(* the smallest.  The ledgers of the point of sale rest on these facts.    *)
(***************************************************************************)
EXTENDS Integers, Functions, WellFoundedInduction, FiniteSetTheorems, TLAPS

(***************************************************************************)
(* The recursive function is there, and unique.                            *)
(***************************************************************************)

AnyOf(s) == CHOOSE x \in s : TRUE

Recurs(f, g, S) == f = [s \in SUBSET S |-> IF s = {} THEN 0 ELSE g[AnyOf(s)] + f[s \ {AnyOf(s)}]]

\* The operator computes the recursive function, where there is one.
LEMMA SumIsRec ==
    ASSUME NEW g, NEW S, NEW f0, Recurs(f0, g, S)
    PROVE  \E f : Recurs(f, g, S) /\ SumFunctionOnSet(g, S) = f[S]
  BY DEF SumFunctionOnSet, FoldFunctionOnSet, MapThenFoldSet, Recurs, AnyOf

\* The member the recursion takes is a member.
LEMMA AnyOfIn == ASSUME NEW s, s # {} PROVE AnyOf(s) \in s
  BY DEF AnyOf

\* A set of finite subsets has a smallest one.
LEMMA Smallest ==
    ASSUME NEW S, IsFiniteSet(S), NEW Bad \in SUBSET SUBSET S, Bad # {}
    PROVE  \E s \in Bad : \A t \in Bad : ~(t \subseteq s /\ t # s)
<1>1. SUBSET S = FiniteSubsetsOf(S)
  BY FS_Subset DEF FiniteSubsetsOf
<1>2. PICK s \in Bad : \A t \in Bad : ~(<<t, s>> \in StrictSubsetOrdering(S))
  BY <1>1, FS_StrictSubsetOrderingWellFounded, WFMin
<1>3. \A t \in Bad : ~(t \subseteq s /\ t # s)
  BY <1>2 DEF StrictSubsetOrdering
<1> QED
  BY <1>3

\* Its equations, case by case.
LEMMA RecStep ==
    ASSUME NEW f, NEW g, NEW S, Recurs(f, g, S), NEW s \in SUBSET S
    PROVE  /\ s = {} => f[s] = 0
           /\ s # {} => f[s] = g[AnyOf(s)] + f[s \ {AnyOf(s)}]
  BY DEF Recurs

\* Two such functions agree, on the subsets of the smaller domain.
LEMMA RecAgree ==
    ASSUME NEW f, NEW h, NEW g, NEW S, NEW U \in SUBSET S, IsFiniteSet(U),
           Recurs(f, g, S), Recurs(h, g, U)
    PROVE  \A s \in SUBSET U : f[s] = h[s]
<1> DEFINE Bad == {s \in SUBSET U : f[s] # h[s]}
<1> SUFFICES ASSUME Bad # {} PROVE FALSE
  OBVIOUS
<1>0. Bad \in SUBSET SUBSET U
  OBVIOUS
<1>1. PICK s \in Bad : \A t \in Bad : ~(t \subseteq s /\ t # s)
  <2> HIDE DEF Bad
  <2> QED BY <1>0, Smallest
<1>2. s # {}
  BY RecStep
<1>3. s \ {AnyOf(s)} \subseteq s /\ s \ {AnyOf(s)} # s
  BY <1>2, AnyOfIn
<1>4. f[s \ {AnyOf(s)}] = h[s \ {AnyOf(s)}]
  BY <1>1, <1>3
<1>5. f[s] = h[s]
  BY <1>2, <1>4, RecStep
<1> QED
  BY <1>5

\* There is one for every finite set: for a smallest set without one, the
\* function of the set without one member would extend to it.
LEMMA RecExists ==
    ASSUME NEW g, NEW S, IsFiniteSet(S)
    PROVE  \E f : Recurs(f, g, S)
<1> DEFINE Bad == {s \in SUBSET S : ~ \E f : Recurs(f, g, s)}
<1> SUFFICES ASSUME Bad # {} PROVE FALSE
  OBVIOUS
<1>0. Bad \in SUBSET SUBSET S
  OBVIOUS
<1>1. PICK U \in Bad : \A t \in Bad : ~(t \subseteq U /\ t # U)
  <2> HIDE DEF Bad
  <2> QED BY <1>0, Smallest
<1>f. IsFiniteSet(U) /\ \A t \in SUBSET U : IsFiniteSet(t)
  BY FS_Subset
<1> DEFINE h(t) == CHOOSE f : Recurs(f, g, t)
           F == [s \in SUBSET U |-> IF s = {} THEN 0
                                    ELSE g[AnyOf(s)] + h(s \ {AnyOf(s)})[s \ {AnyOf(s)}]]
<1>2. \A t \in SUBSET U : t # U => Recurs(h(t), g, t)
  BY <1>1
<1>3. ASSUME NEW s \in SUBSET U, s # {}
      PROVE  F[s] = g[AnyOf(s)] + F[s \ {AnyOf(s)}]
  <2> DEFINE t == s \ {AnyOf(s)}
  <2>1. t \in SUBSET U /\ t # U
    BY <1>3, AnyOfIn
  <2>2. Recurs(h(t), g, t)
    BY <1>2, <2>1
  <2>3. F[s] = g[AnyOf(s)] + h(t)[t]
    BY <1>3
  <2>4. h(t)[t] = F[t]
    <3>1. CASE t = {}
      <4>1. h(t)[t] = 0
        BY <2>2, <3>1, RecStep
      <4> QED
        BY <4>1, <2>1, <3>1
    <3>2. CASE t # {}
      <4> DEFINE q == t \ {AnyOf(t)}
      <4>1. q \in SUBSET t /\ q \in SUBSET U /\ q # U
        BY <2>1
      <4>2. Recurs(h(q), g, q)
        BY <1>2, <4>1
      <4>3. h(t)[q] = h(q)[q]
        <5> HIDE DEF h, t, q
        <5> QED BY <4>1, <4>2, <2>2, <1>f, RecAgree
      <4>4. h(t)[t] = g[AnyOf(t)] + h(t)[q]
        <5>1. t \in SUBSET t /\ q = t \ {AnyOf(t)}
          OBVIOUS
        <5> HIDE DEF h, t, q
        <5> QED BY <2>2, <3>2, <5>1, RecStep
      <4>5. F[t] = g[AnyOf(t)] + h(q)[q]
        BY <2>1, <3>2
      <4> QED
        BY <4>3, <4>4, <4>5
    <3> QED
      BY <3>1, <3>2
  <2> QED
    BY <2>3, <2>4
<1>4. F[{}] = 0
  OBVIOUS
<1>5. Recurs(F, g, U)
  <2>1. \A s \in SUBSET U : F[s] = IF s = {} THEN 0 ELSE g[AnyOf(s)] + F[s \ {AnyOf(s)}]
    <3> TAKE s \in SUBSET U
    <3> HIDE DEF F
    <3> QED BY <1>3, <1>4
  <2>2. F = [s \in SUBSET U |-> F[s]]
    OBVIOUS
  <2> HIDE DEF F
  <2>3. F = [s \in SUBSET U |-> IF s = {} THEN 0 ELSE g[AnyOf(s)] + F[s \ {AnyOf(s)}]]
    BY <2>1, <2>2
  <2> QED
    BY <2>3 DEF Recurs
<1> QED
  BY <1>5

(***************************************************************************)
(* What a sum computes.                                                    *)
(***************************************************************************)
\* One step of the sum.
LEMMA SumStep ==
    ASSUME NEW g, NEW S, IsFiniteSet(S)
    PROVE  /\ S = {} => SumFunctionOnSet(g, S) = 0
           /\ S # {} => SumFunctionOnSet(g, S) = g[AnyOf(S)] + SumFunctionOnSet(g, S \ {AnyOf(S)})
<1>1. PICK f0 : Recurs(f0, g, S)
  BY RecExists
<1>2. PICK f : Recurs(f, g, S) /\ SumFunctionOnSet(g, S) = f[S]
  BY <1>1, SumIsRec
<1>3. S = {} => f[S] = 0
  BY <1>2, RecStep
<1>4. ASSUME S # {}
      PROVE  f[S] = g[AnyOf(S)] + SumFunctionOnSet(g, S \ {AnyOf(S)})
  <2> DEFINE U == S \ {AnyOf(S)}
  <2>1. IsFiniteSet(U) /\ U \in SUBSET S
    BY FS_Subset
  <2> HIDE DEF U
  <2>2. PICK h0 : Recurs(h0, g, U)
    BY <2>1, RecExists
  <2>3. PICK h : Recurs(h, g, U) /\ SumFunctionOnSet(g, U) = h[U]
    BY <2>2, SumIsRec
  <2>4. f[U] = h[U]
    BY <1>2, <2>1, <2>3, RecAgree
  <2>5. f[S] = g[AnyOf(S)] + f[U]
    BY <1>2, <1>4, RecStep DEF U
  <2> QED
    BY <2>3, <2>4, <2>5 DEF U
<1> QED
  BY <1>2, <1>3, <1>4

\* Nothing adds up to zero.
LEMMA SumEmpty == ASSUME NEW g PROVE SumFunctionOnSet(g, {}) = 0
  BY SumStep, FS_EmptySet

\* A sum of integers is an integer.
LEMMA SumInt ==
    ASSUME NEW g, NEW S, IsFiniteSet(S), \A x \in S : g[x] \in Int
    PROVE  SumFunctionOnSet(g, S) \in Int
<1> DEFINE Bad == {s \in SUBSET S : SumFunctionOnSet(g, s) \notin Int}
<1> SUFFICES ASSUME Bad # {} PROVE FALSE
  OBVIOUS
<1>0. Bad \in SUBSET SUBSET S
  OBVIOUS
<1>1. PICK s \in Bad : \A t \in Bad : ~(t \subseteq s /\ t # s)
  <2> HIDE DEF Bad
  <2> QED BY <1>0, Smallest
<1>2. IsFiniteSet(s)
  BY FS_Subset
<1>. SumFunctionOnSet(g, s) \notin Int
  OBVIOUS
<1>3. s # {}
  <2> HIDE DEF Bad
  <2>1. s = {} => SumFunctionOnSet(g, s) = 0
    BY <1>2, SumStep
  <2> QED
    BY <2>1
<1>4. AnyOf(s) \in s
  BY <1>3, AnyOfIn
<1>5. SumFunctionOnSet(g, s \ {AnyOf(s)}) \in Int
  BY <1>1, <1>4
<1>6. SumFunctionOnSet(g, s) = g[AnyOf(s)] + SumFunctionOnSet(g, s \ {AnyOf(s)})
  BY <1>2, <1>3, SumStep
<1> QED
  BY <1>4, <1>5, <1>6

\* Any member may be taken out first.
LEMMA SumRemove ==
    ASSUME NEW g, NEW S, IsFiniteSet(S), \A x \in S : g[x] \in Int, NEW x \in S
    PROVE  SumFunctionOnSet(g, S) = g[x] + SumFunctionOnSet(g, S \ {x})
<1> DEFINE Bad == {s \in SUBSET S : \E y \in s : SumFunctionOnSet(g, s) # g[y] + SumFunctionOnSet(g, s \ {y})}
<1> SUFFICES ASSUME Bad # {} PROVE FALSE
  OBVIOUS
<1>0. Bad \in SUBSET SUBSET S
  OBVIOUS
<1>1. PICK s \in Bad : \A t \in Bad : ~(t \subseteq s /\ t # s)
  <2> HIDE DEF Bad
  <2> QED BY <1>0, Smallest
<1>2. \A t \in SUBSET S : IsFiniteSet(t) /\ SumFunctionOnSet(g, t) \in Int
  BY FS_Subset, SumInt
<1>3. PICK y \in s : SumFunctionOnSet(g, s) # g[y] + SumFunctionOnSet(g, s \ {y})
  OBVIOUS
<1> DEFINE p == AnyOf(s)
<1>4. p \in s /\ SumFunctionOnSet(g, s) = g[p] + SumFunctionOnSet(g, s \ {p})
  BY <1>2, <1>3, SumStep, AnyOfIn
<1> HIDE DEF p
<1>5. p # y
  BY <1>3, <1>4
<1>6. SumFunctionOnSet(g, s \ {p}) = g[y] + SumFunctionOnSet(g, (s \ {p}) \ {y})
  <2>1. s \ {p} \notin Bad
    BY <1>1, <1>4
  <2> QED
    BY <2>1, <1>5
<1>7. SumFunctionOnSet(g, s \ {y}) = g[p] + SumFunctionOnSet(g, (s \ {y}) \ {p})
  <2>1. s \ {y} \notin Bad
    BY <1>1, <1>3
  <2> QED
    BY <2>1, <1>4, <1>5
<1>8. SumFunctionOnSet(g, s \ {y}) = g[p] + SumFunctionOnSet(g, (s \ {p}) \ {y})
  <2>1. (s \ {y}) \ {p} = (s \ {p}) \ {y}
    OBVIOUS
  <2> HIDE DEF Bad
  <2> QED
    BY <1>7, <2>1
<1>9. /\ g[p] \in Int /\ g[y] \in Int
      /\ SumFunctionOnSet(g, (s \ {p}) \ {y}) \in Int
  BY <1>2, <1>4
<1> HIDE DEF Bad
<1> DEFINE u == SumFunctionOnSet(g, (s \ {p}) \ {y})
<1>10. u \in Int /\ SumFunctionOnSet(g, s \ {p}) = g[y] + u /\ SumFunctionOnSet(g, s \ {y}) = g[p] + u
  BY <1>6, <1>8, <1>9
<1> HIDE DEF u
<1>11. g[p] + (g[y] + u) = g[y] + (g[p] + u)
  BY <1>9, <1>10
<1> QED
  BY <1>3, <1>4, <1>10, <1>11

\* A new member adds its term.
LEMMA SumAdd ==
    ASSUME NEW g, NEW S, IsFiniteSet(S), NEW x, x \notin S, \A y \in S \cup {x} : g[y] \in Int
    PROVE  SumFunctionOnSet(g, S \cup {x}) = g[x] + SumFunctionOnSet(g, S)
<1>1. IsFiniteSet(S \cup {x}) /\ (S \cup {x}) \ {x} = S
  BY FS_AddElement
<1> QED
  BY <1>1, SumRemove

\* Equal terms have equal sums.
LEMMA SumSame ==
    ASSUME NEW g, NEW h, NEW S, IsFiniteSet(S), \A x \in S : g[x] = h[x]
    PROVE  SumFunctionOnSet(g, S) = SumFunctionOnSet(h, S)
<1> DEFINE Bad == {s \in SUBSET S : SumFunctionOnSet(g, s) # SumFunctionOnSet(h, s)}
<1> SUFFICES ASSUME Bad # {} PROVE FALSE
  OBVIOUS
<1>0. Bad \in SUBSET SUBSET S
  OBVIOUS
<1>1. PICK s \in Bad : \A t \in Bad : ~(t \subseteq s /\ t # s)
  <2> HIDE DEF Bad
  <2> QED BY <1>0, Smallest
<1>2. IsFiniteSet(s)
  BY FS_Subset
<1>. SumFunctionOnSet(g, s) # SumFunctionOnSet(h, s)
  OBVIOUS
<1>3. s # {}
  <2> HIDE DEF Bad
  <2>1. s = {} => SumFunctionOnSet(g, s) = 0 /\ SumFunctionOnSet(h, s) = 0
    BY <1>2, SumStep
  <2> QED
    BY <2>1
<1>4. AnyOf(s) \in s
  BY <1>3, AnyOfIn
<1>5. SumFunctionOnSet(g, s \ {AnyOf(s)}) = SumFunctionOnSet(h, s \ {AnyOf(s)})
  BY <1>1, <1>4
<1> QED
  BY <1>2, <1>3, <1>4, <1>5, SumStep

\* A sum of which one term changes.
LEMMA SumChange ==
    ASSUME NEW g, NEW h, NEW S, IsFiniteSet(S), NEW x \in S,
           \A y \in S : g[y] \in Int /\ h[y] \in Int,
           \A y \in S \ {x} : h[y] = g[y]
    PROVE  SumFunctionOnSet(h, S) = SumFunctionOnSet(g, S) - g[x] + h[x]
<1>1. IsFiniteSet(S \ {x})
  BY FS_Subset
<1>2. SumFunctionOnSet(h, S \ {x}) = SumFunctionOnSet(g, S \ {x})
  BY <1>1, SumSame
<1>3. SumFunctionOnSet(h, S \ {x}) \in Int
  BY <1>1, SumInt
<1>4. SumFunctionOnSet(g, S) = g[x] + SumFunctionOnSet(g, S \ {x}) /\ SumFunctionOnSet(h, S) = h[x] + SumFunctionOnSet(h, S \ {x})
  BY SumRemove
<1> QED
  BY <1>2, <1>3, <1>4

\* Terms that are all zero add up to zero.
LEMMA SumZero ==
    ASSUME NEW g, NEW S, IsFiniteSet(S), \A x \in S : g[x] = 0
    PROVE  SumFunctionOnSet(g, S) = 0
<1> DEFINE Bad == {s \in SUBSET S : SumFunctionOnSet(g, s) # 0}
<1> SUFFICES ASSUME Bad # {} PROVE FALSE
  OBVIOUS
<1>0. Bad \in SUBSET SUBSET S
  OBVIOUS
<1>1. PICK s \in Bad : \A t \in Bad : ~(t \subseteq s /\ t # s)
  <2> HIDE DEF Bad
  <2> QED BY <1>0, Smallest
<1>2. IsFiniteSet(s)
  BY FS_Subset
<1>. SumFunctionOnSet(g, s) # 0
  OBVIOUS
<1>3. s # {}
  <2> HIDE DEF Bad
  <2>1. s = {} => SumFunctionOnSet(g, s) = 0
    BY <1>2, SumStep
  <2> QED
    BY <2>1
<1>4. AnyOf(s) \in s
  BY <1>3, AnyOfIn
<1>5. SumFunctionOnSet(g, s \ {AnyOf(s)}) = 0
  BY <1>1, <1>4
<1> QED
  BY <1>2, <1>3, <1>4, <1>5, SumStep

\* Smaller terms have a smaller sum.
LEMMA SumAtMost ==
    ASSUME NEW g, NEW h, NEW S, IsFiniteSet(S),
           \A x \in S : g[x] \in Int /\ h[x] \in Int /\ g[x] <= h[x]
    PROVE  SumFunctionOnSet(g, S) <= SumFunctionOnSet(h, S)
<1> DEFINE Bad == {s \in SUBSET S : ~(SumFunctionOnSet(g, s) <= SumFunctionOnSet(h, s))}
<1> SUFFICES ASSUME Bad # {} PROVE FALSE
  OBVIOUS
<1>0. Bad \in SUBSET SUBSET S
  OBVIOUS
<1>1. PICK s \in Bad : \A t \in Bad : ~(t \subseteq s /\ t # s)
  <2> HIDE DEF Bad
  <2> QED BY <1>0, Smallest
<1>2. IsFiniteSet(s) /\ IsFiniteSet(s \ {AnyOf(s)})
  BY FS_Subset
<1>. ~(SumFunctionOnSet(g, s) <= SumFunctionOnSet(h, s))
  OBVIOUS
<1>3. s # {}
  <2> HIDE DEF Bad
  <2>1. s = {} => SumFunctionOnSet(g, s) = 0 /\ SumFunctionOnSet(h, s) = 0
    BY <1>2, SumStep
  <2> QED
    BY <2>1
<1>4. AnyOf(s) \in s /\ s \in SUBSET S
  BY <1>3, AnyOfIn
<1>5. SumFunctionOnSet(g, s \ {AnyOf(s)}) <= SumFunctionOnSet(h, s \ {AnyOf(s)})
  BY <1>1, <1>4
<1>6. SumFunctionOnSet(g, s \ {AnyOf(s)}) \in Int /\ SumFunctionOnSet(h, s \ {AnyOf(s)}) \in Int
  BY <1>2, <1>4, SumInt
<1>7. /\ SumFunctionOnSet(g, s) = g[AnyOf(s)] + SumFunctionOnSet(g, s \ {AnyOf(s)})
      /\ SumFunctionOnSet(h, s) = h[AnyOf(s)] + SumFunctionOnSet(h, s \ {AnyOf(s)})
  BY <1>2, <1>3, SumStep
<1>8. /\ g[AnyOf(s)] \in Int /\ h[AnyOf(s)] \in Int /\ g[AnyOf(s)] <= h[AnyOf(s)]
  BY <1>4
<1>9. ~(SumFunctionOnSet(g, s) <= SumFunctionOnSet(h, s))
  OBVIOUS
<1> HIDE DEF Bad
<1> QED
  BY <1>5, <1>6, <1>7, <1>8, <1>9

\* A sum of naturals is a natural, and no term is more than the sum.
LEMMA SumNat ==
    ASSUME NEW g, NEW S, IsFiniteSet(S), \A x \in S : g[x] \in Nat
    PROVE  /\ SumFunctionOnSet(g, S) \in Nat
           /\ \A x \in S : g[x] <= SumFunctionOnSet(g, S)
<1>1. \A T \in SUBSET S : SumFunctionOnSet(g, T) \in Nat
  <2> TAKE T \in SUBSET S
  <2>1. IsFiniteSet(T)
    BY FS_Subset
  <2> DEFINE z == [x \in T |-> 0]
  <2>2. SumFunctionOnSet(z, T) = 0
    BY <2>1, SumZero
  <2>3. \A x \in T : z[x] \in Int /\ g[x] \in Int /\ z[x] <= g[x]
    OBVIOUS
  <2> HIDE DEF z
  <2>4. SumFunctionOnSet(z, T) <= SumFunctionOnSet(g, T)
    BY <2>1, <2>3, SumAtMost
  <2>5. SumFunctionOnSet(g, T) \in Int
    BY <2>1, SumInt
  <2> QED
    BY <2>2, <2>4, <2>5
<1>2. ASSUME NEW x \in S PROVE g[x] <= SumFunctionOnSet(g, S)
  <2>1. SumFunctionOnSet(g, S) = g[x] + SumFunctionOnSet(g, S \ {x})
    BY SumRemove
  <2>2. SumFunctionOnSet(g, S \ {x}) \in Nat
    BY <1>1
  <2> QED
    BY <2>1, <2>2
<1> QED
  BY <1>1, <1>2

\* Adding two terms for every member adds the two sums.
LEMMA SumPlus ==
    ASSUME NEW g, NEW h, NEW k, NEW S, IsFiniteSet(S),
           \A x \in S : g[x] \in Int /\ h[x] \in Int /\ k[x] = g[x] + h[x]
    PROVE  SumFunctionOnSet(k, S) = SumFunctionOnSet(g, S) + SumFunctionOnSet(h, S)
<1> DEFINE Bad == {s \in SUBSET S : SumFunctionOnSet(k, s) # SumFunctionOnSet(g, s) + SumFunctionOnSet(h, s)}
<1> SUFFICES ASSUME Bad # {} PROVE FALSE
  OBVIOUS
<1>0. Bad \in SUBSET SUBSET S
  OBVIOUS
<1>1. PICK s \in Bad : \A t \in Bad : ~(t \subseteq s /\ t # s)
  <2> HIDE DEF Bad
  <2> QED BY <1>0, Smallest
<1>2. IsFiniteSet(s) /\ IsFiniteSet(s \ {AnyOf(s)})
  BY FS_Subset
<1>. SumFunctionOnSet(k, s) # SumFunctionOnSet(g, s) + SumFunctionOnSet(h, s)
  OBVIOUS
<1>3. s # {}
  <2> HIDE DEF Bad
  <2>1. s = {} => SumFunctionOnSet(g, s) = 0 /\ SumFunctionOnSet(h, s) = 0 /\ SumFunctionOnSet(k, s) = 0
    BY <1>2, SumStep
  <2> QED
    BY <2>1
<1> DEFINE p == AnyOf(s)
           t == s \ {AnyOf(s)}
<1>4. p \in s /\ s \in SUBSET S /\ t \in SUBSET s /\ t # s /\ IsFiniteSet(t)
  BY <1>2, <1>3, AnyOfIn
<1>5. SumFunctionOnSet(k, t) = SumFunctionOnSet(g, t) + SumFunctionOnSet(h, t)
  BY <1>1, <1>4
<1>7. /\ SumFunctionOnSet(g, s) = g[p] + SumFunctionOnSet(g, t)
      /\ SumFunctionOnSet(h, s) = h[p] + SumFunctionOnSet(h, t)
      /\ SumFunctionOnSet(k, s) = k[p] + SumFunctionOnSet(k, t)
  BY <1>2, <1>3, SumStep
<1>9. SumFunctionOnSet(k, s) # SumFunctionOnSet(g, s) + SumFunctionOnSet(h, s)
  OBVIOUS
<1> HIDE DEF Bad, p, t
<1>6. SumFunctionOnSet(g, t) \in Int /\ SumFunctionOnSet(h, t) \in Int
  BY <1>4, SumInt
<1>8. /\ g[p] \in Int /\ h[p] \in Int /\ k[p] = g[p] + h[p]
  BY <1>4
<1> QED
  BY <1>5, <1>6, <1>7, <1>8, <1>9

\* The sum over two disjoint sets is the sum of the two sums.
LEMMA SumUnion ==
    ASSUME NEW g, NEW S, NEW T, IsFiniteSet(S), IsFiniteSet(T), S \cap T = {},
           \A x \in S \cup T : g[x] \in Int
    PROVE  SumFunctionOnSet(g, S \cup T) = SumFunctionOnSet(g, S) + SumFunctionOnSet(g, T)
<1> DEFINE Bad == {s \in SUBSET S : SumFunctionOnSet(g, s \cup T) # SumFunctionOnSet(g, s) + SumFunctionOnSet(g, T)}
<1> SUFFICES ASSUME Bad # {} PROVE FALSE
  OBVIOUS
<1>0. Bad \in SUBSET SUBSET S
  OBVIOUS
<1>1. PICK s \in Bad : \A t \in Bad : ~(t \subseteq s /\ t # s)
  <2> HIDE DEF Bad
  <2> QED BY <1>0, Smallest
<1>2. s \in SUBSET S /\ SumFunctionOnSet(g, s \cup T) # SumFunctionOnSet(g, s) + SumFunctionOnSet(g, T)
  OBVIOUS
<1>3. SumFunctionOnSet(g, T) \in Int
  BY SumInt
<1>4. s # {}
  <2>1. {} \cup T = T /\ SumFunctionOnSet(g, {}) = 0
    BY SumEmpty
  <2> HIDE DEF Bad
  <2>2. s = {} => SumFunctionOnSet(g, s \cup T) = SumFunctionOnSet(g, s) + SumFunctionOnSet(g, T)
    BY <1>3, <2>1
  <2> QED
    BY <1>2, <2>2
<1>5. PICK x \in s : TRUE
  BY <1>4
<1> DEFINE t == s \ {x}
<1>6. t \in SUBSET s /\ t # s /\ t \in SUBSET S /\ (s \cup T) \ {x} = t \cup T /\ x \in S
  BY <1>2, <1>5
<1>7. SumFunctionOnSet(g, t \cup T) = SumFunctionOnSet(g, t) + SumFunctionOnSet(g, T)
  BY <1>1, <1>6
<1>8. IsFiniteSet(s) /\ IsFiniteSet(t) /\ IsFiniteSet(s \cup T)
  BY <1>2, <1>6, FS_Subset, FS_Union
<1>9. SumFunctionOnSet(g, s) = g[x] + SumFunctionOnSet(g, t)
  BY <1>2, <1>5, <1>8, SumRemove
<1>10. SumFunctionOnSet(g, s \cup T) = g[x] + SumFunctionOnSet(g, t \cup T)
  BY <1>2, <1>5, <1>6, <1>8, SumRemove
<1>11. SumFunctionOnSet(g, t) \in Int /\ g[x] \in Int
  BY <1>6, <1>8, SumInt
<1> HIDE DEF Bad, t
<1> QED
  BY <1>2, <1>3, <1>7, <1>9, <1>10, <1>11

\* The sum of the terms of some members is that of all, the other terms being zero.
LEMMA SumWhere ==
    ASSUME NEW g, NEW h, NEW S, NEW T \in SUBSET S, IsFiniteSet(S),
           \A x \in T : g[x] \in Int /\ h[x] = g[x],
           \A x \in S \ T : h[x] = 0
    PROVE  SumFunctionOnSet(h, S) = SumFunctionOnSet(g, T)
<1>1. IsFiniteSet(T) /\ IsFiniteSet(S \ T)
  BY FS_Subset
<1>2. \A x \in T \cup (S \ T) : h[x] \in Int
  OBVIOUS
<1>3. SumFunctionOnSet(h, T \cup (S \ T)) = SumFunctionOnSet(h, T) + SumFunctionOnSet(h, S \ T)
  <2> DEFINE U == S \ T
  <2>1. T \cap U = {} /\ IsFiniteSet(U) /\ \A x \in T \cup U : h[x] \in Int
    BY <1>1, <1>2
  <2> HIDE DEF U
  <2>2. SumFunctionOnSet(h, T \cup U) = SumFunctionOnSet(h, T) + SumFunctionOnSet(h, U)
    BY <1>1, <2>1, SumUnion
  <2> QED
    BY <2>2 DEF U
<1>4. SumFunctionOnSet(h, S \ T) = 0
  BY <1>1, SumZero
<1>5. SumFunctionOnSet(h, T) = SumFunctionOnSet(g, T)
  BY <1>1, SumSame
<1>6. SumFunctionOnSet(g, T) \in Int
  BY <1>1, SumInt
<1>7. T \cup (S \ T) = S
  OBVIOUS
<1>8. SumFunctionOnSet(h, S) = SumFunctionOnSet(g, T) + 0
  BY <1>3, <1>4, <1>5, <1>7
<1> QED
  BY <1>6, <1>8

\* A multiple of each term gives the multiple of the sum.
LEMMA SumScale ==
    ASSUME NEW g, NEW h, NEW S, IsFiniteSet(S), NEW k \in Int,
           \A x \in S : g[x] \in Int /\ h[x] = k * g[x]
    PROVE  SumFunctionOnSet(h, S) = k * SumFunctionOnSet(g, S)
<1> DEFINE Bad == {s \in SUBSET S : SumFunctionOnSet(h, s) # k * SumFunctionOnSet(g, s)}
<1> SUFFICES ASSUME Bad # {} PROVE FALSE
  OBVIOUS
<1>0. Bad \in SUBSET SUBSET S
  OBVIOUS
<1>1. PICK s \in Bad : \A t \in Bad : ~(t \subseteq s /\ t # s)
  <2> HIDE DEF Bad
  <2> QED BY <1>0, Smallest
<1>2. IsFiniteSet(s) /\ IsFiniteSet(s \ {AnyOf(s)})
  BY FS_Subset
<1>3. SumFunctionOnSet(h, s) # k * SumFunctionOnSet(g, s)
  OBVIOUS
<1>4. s # {}
  <2> HIDE DEF Bad
  <2>1. s = {} => SumFunctionOnSet(g, s) = 0 /\ SumFunctionOnSet(h, s) = 0
    BY <1>2, SumStep
  <2> QED BY <1>3, <2>1
<1> DEFINE p == AnyOf(s)
           t == s \ {AnyOf(s)}
<1>5. p \in s /\ s \in SUBSET S /\ t \in SUBSET s /\ t # s /\ IsFiniteSet(t)
  BY <1>2, <1>4, AnyOfIn
<1>6. SumFunctionOnSet(h, t) = k * SumFunctionOnSet(g, t)
  BY <1>1, <1>5
<1>7. /\ SumFunctionOnSet(g, s) = g[p] + SumFunctionOnSet(g, t)
      /\ SumFunctionOnSet(h, s) = h[p] + SumFunctionOnSet(h, t)
  BY <1>2, <1>4, SumStep
<1> HIDE DEF Bad, p, t
<1>8. SumFunctionOnSet(g, t) \in Int
  BY <1>5, SumInt
<1>9. g[p] \in Int /\ h[p] = k * g[p]
  BY <1>5
<1>10. \A a, b \in Int : k * (a + b) = k * a + k * b
  OBVIOUS
<1> QED
  BY <1>3, <1>6, <1>7, <1>8, <1>9, <1>10

\* Ones add up to the number of members.
LEMMA SumOnes ==
    ASSUME NEW g, NEW S, IsFiniteSet(S), \A x \in S : g[x] = 1
    PROVE  SumFunctionOnSet(g, S) = Cardinality(S)
<1> DEFINE Bad == {s \in SUBSET S : SumFunctionOnSet(g, s) # Cardinality(s)}
<1> SUFFICES ASSUME Bad # {} PROVE FALSE
  OBVIOUS
<1>0. Bad \in SUBSET SUBSET S
  OBVIOUS
<1>1. PICK s \in Bad : \A t \in Bad : ~(t \subseteq s /\ t # s)
  <2> HIDE DEF Bad
  <2> QED BY <1>0, Smallest
<1>2. IsFiniteSet(s) /\ IsFiniteSet(s \ {AnyOf(s)})
  BY FS_Subset
<1>3. SumFunctionOnSet(g, s) # Cardinality(s)
  OBVIOUS
<1>4. s # {}
  <2> HIDE DEF Bad
  <2>1. s = {} => SumFunctionOnSet(g, s) = 0 /\ Cardinality(s) = 0
    BY <1>2, SumStep, FS_EmptySet
  <2> QED BY <1>3, <2>1
<1> DEFINE p == AnyOf(s)
           t == s \ {AnyOf(s)}
<1>5. p \in s /\ s \in SUBSET S /\ t \in SUBSET s /\ t # s /\ t = s \ {p}
  BY <1>2, <1>4, AnyOfIn
<1>6. SumFunctionOnSet(g, t) = Cardinality(t)
  BY <1>1, <1>5
<1>7. SumFunctionOnSet(g, s) = g[p] + SumFunctionOnSet(g, t)
  BY <1>2, <1>4, SumStep
<1> HIDE DEF Bad, p, t
<1>8. Cardinality(t) = Cardinality(s) - 1 /\ Cardinality(s) \in Nat
  BY <1>2, <1>5, FS_RemoveElement, FS_CardinalityType
<1>9. g[p] = 1
  BY <1>5
<1> QED
  BY <1>3, <1>6, <1>7, <1>8, <1>9

\* Terms within a bound add up within the bound for each.
LEMMA SumWithin ==
    ASSUME NEW g, NEW S, IsFiniteSet(S), NEW m \in Nat,
           \A x \in S : g[x] \in Int /\ g[x] <= m /\ 0 - m <= g[x]
    PROVE  /\ SumFunctionOnSet(g, S) \in Int /\ Cardinality(S) \in Nat
           /\ SumFunctionOnSet(g, S) <= m * Cardinality(S)
           /\ 0 - m * Cardinality(S) <= SumFunctionOnSet(g, S)
<1> DEFINE one == [x \in S |-> 1]
           up == [x \in S |-> m]
           down == [x \in S |-> 0 - m]
<1>1. /\ \A x \in S : one[x] \in Int /\ one[x] = 1
      /\ \A x \in S : up[x] \in Int /\ up[x] = m * one[x] /\ g[x] <= up[x]
      /\ \A x \in S : down[x] \in Int /\ down[x] = (0 - m) * one[x] /\ down[x] <= g[x]
  OBVIOUS
<1> HIDE DEF one, up, down
<1>2. SumFunctionOnSet(one, S) = Cardinality(S) /\ Cardinality(S) \in Nat
  BY <1>1, SumOnes, FS_CardinalityType
<1>3. SumFunctionOnSet(up, S) = m * SumFunctionOnSet(one, S)
  BY <1>1, SumScale
<1>4. SumFunctionOnSet(down, S) = (0 - m) * SumFunctionOnSet(one, S)
  <2>1. 0 - m \in Int
    OBVIOUS
  <2> QED BY <1>1, <2>1, SumScale
<1>5. SumFunctionOnSet(g, S) <= SumFunctionOnSet(up, S)
  BY <1>1, SumAtMost
<1>6. SumFunctionOnSet(down, S) <= SumFunctionOnSet(g, S)
  BY <1>1, SumAtMost
<1>7. SumFunctionOnSet(g, S) \in Int
  BY SumInt
<1>8. \A c \in Nat : (0 - m) * c = 0 - m * c /\ m * c \in Nat
  OBVIOUS
<1> QED
  BY <1>2, <1>3, <1>4, <1>5, <1>6, <1>7, <1>8

(***************************************************************************)
(* Filling a quantity in order.                                            *)
(***************************************************************************)

SmallerOf(m, n) == IF m < n THEN m ELSE n

StrictOrder(R, S) ==
    /\ \A x, y \in S : x # y => <<x, y>> \in R \/ <<y, x>> \in R
    /\ \A x, y \in S : ~(<<x, y>> \in R /\ <<y, x>> \in R)
    /\ \A x, y, z \in S : <<x, y>> \in R /\ <<y, z>> \in R => <<x, z>> \in R

Ahead(R, S, x) == {y \in S : <<y, x>> \in R}

\* What x gives of q units when those ahead of it give first.
Portion(w, R, S, q, x) ==
    IF SumFunctionOnSet(w, Ahead(R, S, x)) < q
    THEN SmallerOf(w[x], q - SumFunctionOnSet(w, Ahead(R, S, x))) ELSE 0

Portions(w, R, S, q) == [x \in S |-> Portion(w, R, S, q, x)]

\* A finite set that is not empty has a last member.
LEMMA LastExists ==
    ASSUME NEW S, IsFiniteSet(S), S # {}, NEW R, StrictOrder(R, S)
    PROVE  \E m \in S : \A x \in S \ {m} : <<x, m>> \in R
<1> DEFINE Bad == {T \in SUBSET S : T # {} /\ ~ \E m \in T : \A x \in T \ {m} : <<x, m>> \in R}
<1> SUFFICES ASSUME Bad # {} PROVE FALSE
  OBVIOUS
<1>0. Bad \in SUBSET SUBSET S
  OBVIOUS
<1>1. PICK T \in Bad : \A U \in Bad : ~(U \subseteq T /\ U # T)
  <2> HIDE DEF Bad
  <2> QED BY <1>0, Smallest
<1>2. PICK x \in T : TRUE
  OBVIOUS
<1>3. T \ {x} # {}
  OBVIOUS
<1>4. T \ {x} \in SUBSET S /\ T \ {x} \notin Bad
  <2>1. T \ {x} \subseteq T /\ T \ {x} # T
    BY <1>2
  <2> QED BY <1>1, <2>1
<1>5. PICK m \in T \ {x} : \A y \in (T \ {x}) \ {m} : <<y, m>> \in R
  BY <1>3, <1>4
<1>6. m \in S /\ x \in S /\ m # x
  OBVIOUS
<1>7. CASE <<x, m>> \in R
  <2>1. \A y \in T \ {m} : <<y, m>> \in R
    BY <1>5, <1>7
  <2> QED BY <2>1
<1>8. CASE <<m, x>> \in R
  <2>1. \A y \in T \ {x} : <<y, x>> \in R
    BY <1>5, <1>6, <1>8 DEF StrictOrder
  <2> QED BY <2>1
<1> QED
  BY <1>6, <1>7, <1>8 DEF StrictOrder

\* Together they give all of q, or all they have.
LEMMA FillInOrder ==
    ASSUME NEW S, IsFiniteSet(S), NEW R, StrictOrder(R, S), NEW q \in Nat, NEW w,
           \A x \in S : w[x] \in Nat
    PROVE  SumFunctionOnSet(Portions(w, R, S, q), S) = SmallerOf(q, SumFunctionOnSet(w, S))
<1> DEFINE Good(T) == SumFunctionOnSet(Portions(w, R, T, q), T) = SmallerOf(q, SumFunctionOnSet(w, T))
<1> DEFINE Bad == {T \in SUBSET S : ~Good(T)}
<1> SUFFICES ASSUME Bad # {} PROVE FALSE
  OBVIOUS
<1>0. Bad \in SUBSET SUBSET S
  OBVIOUS
<1>1. PICK T \in Bad : \A U \in Bad : ~(U \subseteq T /\ U # T)
  <2> HIDE DEF Bad
  <2> QED BY <1>0, Smallest
<1>2. T \in SUBSET S /\ IsFiniteSet(T) /\ ~Good(T)
  BY FS_Subset
<1>3. CASE T = {}
  <2>1. SumFunctionOnSet(Portions(w, R, T, q), T) = 0 /\ SumFunctionOnSet(w, T) = 0
    BY <1>3, SumEmpty
  <2> QED BY <1>2, <2>1 DEF SmallerOf
<1>4. CASE T # {}
  <2>0. StrictOrder(R, T)
    BY <1>2 DEF StrictOrder
  <2>1. PICK m \in T : \A x \in T \ {m} : <<x, m>> \in R
    BY <1>2, <1>4, <2>0, LastExists
  <2> DEFINE U == T \ {m}
  <2>2. U \in SUBSET S /\ IsFiniteSet(U) /\ U \subseteq T /\ U # T /\ m \notin U
    BY <1>2, <2>1, FS_Subset
  <2>3. Good(U)
    <3>1. U \notin Bad
      BY <1>1, <2>2
    <3> QED BY <2>2, <3>1
  <2>4. \A x \in U : Ahead(R, T, x) = Ahead(R, U, x)
    BY <1>2, <2>1 DEF Ahead, StrictOrder
  <2>5. Ahead(R, T, m) = U
    BY <1>2, <2>1 DEF Ahead, StrictOrder
  <2> DEFINE P == Portions(w, R, T, q)  V == Portions(w, R, U, q)
  <2>6. \A x \in U : P[x] = V[x]
    BY <2>2, <2>4 DEF Portions, Portion
  <2>7. \A X \in SUBSET S : SumFunctionOnSet(w, X) \in Nat
    BY FS_Subset, SumNat
  <2>8. \A x \in T : P[x] \in Nat
    <3> TAKE x \in T
    <3>1. Ahead(R, T, x) \in SUBSET S
      BY <1>2 DEF Ahead
    <3>2. SumFunctionOnSet(w, Ahead(R, T, x)) \in Nat /\ w[x] \in Nat
      BY <1>2, <2>7, <3>1
    <3>3. P[x] = Portion(w, R, T, q, x)
      BY DEF Portions
    <3> QED BY <3>2, <3>3 DEF Portion, SmallerOf
  <2>9. P[m] = IF SumFunctionOnSet(w, U) < q THEN SmallerOf(w[m], q - SumFunctionOnSet(w, U)) ELSE 0
    BY <2>5 DEF Portions, Portion
  <2>10. SumFunctionOnSet(P, T) = P[m] + SumFunctionOnSet(P, U)
    <3> HIDE DEF P
    <3> QED BY <1>2, <2>8, SumRemove
  <2>11. SumFunctionOnSet(P, U) = SumFunctionOnSet(V, U)
    <3> HIDE DEF P, V
    <3> QED BY <2>2, <2>6, SumSame
  <2>12. SumFunctionOnSet(w, T) = w[m] + SumFunctionOnSet(w, U)
    BY <1>2, SumRemove
  <2>13. SumFunctionOnSet(w, U) \in Nat /\ w[m] \in Nat
    BY <1>2, <2>2, <2>7
  <2>14. SumFunctionOnSet(V, U) = SmallerOf(q, SumFunctionOnSet(w, U))
    BY <2>3
  <2>15. SumFunctionOnSet(P, T) = SmallerOf(q, SumFunctionOnSet(w, T))
    <3> HIDE DEF P, V, U
    <3> QED BY <2>9, <2>10, <2>11, <2>12, <2>13, <2>14 DEF SmallerOf
  <2> QED BY <1>2, <2>15
<1> QED
  BY <1>3, <1>4

\* The terms added up by parts, then the parts.
LEMMA SumParts ==
    ASSUME NEW g, NEW S, IsFiniteSet(S), \A x \in S : g[x] \in Int,
           NEW A, IsFiniteSet(A), NEW part, \A x \in S : part[x] \in A,
           NEW F, \A a \in A : \A x : x \in F[a] <=> x \in S /\ part[x] = a,
           NEW h, \A a \in A : h[a] = SumFunctionOnSet(g, F[a])
    PROVE  SumFunctionOnSet(h, A) = SumFunctionOnSet(g, S)
<1> DEFINE In(s, a) == {x \in s : part[x] = a}
           by(s) == [a \in A |-> SumFunctionOnSet(g, In(s, a))]
           Bad == {s \in SUBSET S : SumFunctionOnSet(by(s), A) # SumFunctionOnSet(g, s)}
<1>1. SumFunctionOnSet(h, A) = SumFunctionOnSet(by(S), A)
  <2>1. \A a \in A : h[a] = by(S)[a]
    <3>1. \A a \in A : F[a] = In(S, a)
      OBVIOUS
    <3> HIDE DEF In
    <3> QED BY <3>1
  <2> HIDE DEF by
  <2> QED BY <2>1, SumSame
<1> SUFFICES ASSUME Bad # {} PROVE FALSE
  BY <1>1
<1>2. Bad \in SUBSET SUBSET S
  OBVIOUS
<1>3. PICK s \in Bad : \A t \in Bad : ~(t \subseteq s /\ t # s)
  <2> HIDE DEF Bad
  <2> QED BY <1>2, Smallest
<1>4. s \in SUBSET S /\ SumFunctionOnSet(by(s), A) # SumFunctionOnSet(g, s)
  OBVIOUS
<1>5. ASSUME NEW t \in SUBSET S
      PROVE  /\ IsFiniteSet(t) /\ SumFunctionOnSet(g, t) \in Int
             /\ \A a \in A : by(t)[a] \in Int
  <2>1. IsFiniteSet(t) /\ SumFunctionOnSet(g, t) \in Int
    BY FS_Subset, SumInt
  <2>2. ASSUME NEW a \in A PROVE SumFunctionOnSet(g, In(t, a)) \in Int
    <3>1. IsFiniteSet(In(t, a)) /\ \A x \in In(t, a) : g[x] \in Int
      BY FS_Subset
    <3> HIDE DEF In
    <3> QED BY <3>1, SumInt
  <2> QED BY <2>1, <2>2
<1>6. s # {}
  <2> SUFFICES ASSUME s = {} PROVE FALSE
    OBVIOUS
  <2>1. \A a \in A : In(s, a) = {}
    OBVIOUS
  <2>2. \A a \in A : by(s)[a] = 0
    BY <2>1, SumEmpty
  <2> HIDE DEF by
  <2> QED BY <1>4, <2>2, SumZero, SumEmpty
<1>7. PICK x \in s : TRUE
  BY <1>6
<1> DEFINE t == s \ {x}
           b == part[x]
<1>8. t \in SUBSET S /\ t \subseteq s /\ t # s /\ x \in S /\ b \in A
  BY <1>4, <1>7
<1>9. SumFunctionOnSet(by(t), A) = SumFunctionOnSet(g, t)
  BY <1>3, <1>8
<1>10. \A a \in A \ {b} : by(s)[a] = by(t)[a]
  <2>1. \A a \in A \ {b} : In(s, a) = In(t, a)
    OBVIOUS
  <2> HIDE DEF In, t, b
  <2> QED BY <2>1
<1>11. by(s)[b] = g[x] + by(t)[b]
  <2>1. x \in In(s, b) /\ In(s, b) \ {x} = In(t, b)
    BY <1>7
  <2>2. IsFiniteSet(In(s, b)) /\ \A y \in In(s, b) : g[y] \in Int
    BY <1>4, <1>5, FS_Subset
  <2>3. b \in A
    BY <1>8
  <2> HIDE DEF In, t, b
  <2>4. SumFunctionOnSet(g, In(s, b)) = g[x] + SumFunctionOnSet(g, In(s, b) \ {x})
    BY <2>1, <2>2, SumRemove
  <2> QED BY <2>1, <2>3, <2>4
<1>12. SumFunctionOnSet(g, s) = g[x] + SumFunctionOnSet(g, t)
  BY <1>4, <1>5, <1>7, SumRemove
<1>13. /\ \A a \in A : by(s)[a] \in Int /\ by(t)[a] \in Int
       /\ SumFunctionOnSet(g, t) \in Int /\ g[x] \in Int
  BY <1>4, <1>5, <1>8
<1>14. b \in A
  BY <1>8
<1> HIDE DEF Bad, by, t, b
<1>15. SumFunctionOnSet(by(s), A) = SumFunctionOnSet(by(t), A) - by(t)[b] + by(s)[b]
  BY <1>10, <1>13, <1>14, SumChange
<1> QED
  BY <1>4, <1>9, <1>11, <1>12, <1>13, <1>14, <1>15

\* SumRemove, for any function and set at once.
LEMMA SumTakes ==
    \A g : \A T : IsFiniteSet(T) /\ (\A y \in T : g[y] \in Int) =>
        \A x \in T : SumFunctionOnSet(g, T) = g[x] + SumFunctionOnSet(g, T \ {x})
<1> SUFFICES ASSUME NEW g, NEW T, IsFiniteSet(T), \A y \in T : g[y] \in Int, NEW x \in T
             PROVE  SumFunctionOnSet(g, T) = g[x] + SumFunctionOnSet(g, T \ {x})
  OBVIOUS
<1> QED BY SumRemove

\* A table adds up to the same by rows and by columns.
TwoWays(A, S, m, across, c, down) ==
    /\ IsFiniteSet(A) /\ IsFiniteSet(S) /\ \A a \in A : \A i \in S : m[a][i] \in Int
    /\ \A a \in A : across[a] = SumFunctionOnSet(m[a], S)
    /\ \A i \in S : \A a \in A : c[i][a] = m[a][i]
    /\ \A i \in S : down[i] = SumFunctionOnSet(c[i], A)

\* The rows' sums add up to what the columns' do.
LEMMA SumSwap ==
    ASSUME NEW A, NEW S, NEW m, NEW across, NEW c, NEW down,
           TwoWays(A, S, m, across, c, down)
    PROVE  SumFunctionOnSet(across, A) = SumFunctionOnSet(down, S)
<1> USE DEF TwoWays
<1> DEFINE to(T) == [i \in S |-> SumFunctionOnSet(c[i], T)]
           Bad == {T \in SUBSET A : SumFunctionOnSet(across, T) # SumFunctionOnSet(to(T), S)}
<1>1. SumFunctionOnSet(down, S) = SumFunctionOnSet(to(A), S)
  <2>1. \A i \in S : down[i] = to(A)[i]
    OBVIOUS
  <2> HIDE DEF to
  <2> QED BY <2>1, SumSame
<1> SUFFICES ASSUME Bad # {} PROVE FALSE
  BY <1>1
<1>2. Bad \in SUBSET SUBSET A
  OBVIOUS
<1>3. PICK T \in Bad : \A U \in Bad : ~(U \subseteq T /\ U # T)
  <2> HIDE DEF Bad
  <2> QED BY <1>2, Smallest
<1>4. T \in SUBSET A /\ SumFunctionOnSet(across, T) # SumFunctionOnSet(to(T), S)
  OBVIOUS
<1>5. \A i \in S : \A a \in A : c[i][a] = m[a][i] /\ c[i][a] \in Int
  OBVIOUS
<1>6. \A a \in A : across[a] \in Int
  BY SumInt
<1>7. ASSUME NEW U \in SUBSET A
      PROVE  /\ IsFiniteSet(U) /\ SumFunctionOnSet(across, U) \in Int
             /\ \A i \in S : to(U)[i] \in Int
  <2>1. IsFiniteSet(U)
    BY FS_Subset
  <2>2. \A i \in S : SumFunctionOnSet(c[i], U) \in Int
    BY <1>5, <2>1, SumInt
  <2> QED BY <1>6, <2>1, <2>2, SumInt
<1>8. T # {}
  <2> SUFFICES ASSUME T = {} PROVE FALSE
    OBVIOUS
  <2>1. \A i \in S : to(T)[i] = 0
    BY SumEmpty
  <2> HIDE DEF to
  <2> QED BY <1>4, <2>1, SumZero, SumEmpty
<1>9. PICK x \in T : TRUE
  BY <1>8
<1> DEFINE U == T \ {x}
<1>10. U \in SUBSET A /\ U \subseteq T /\ U # T /\ x \in A
  BY <1>4, <1>9
<1>11. SumFunctionOnSet(across, U) = SumFunctionOnSet(to(U), S)
  BY <1>3, <1>10
<1>12. SumFunctionOnSet(across, T) = across[x] + SumFunctionOnSet(across, U)
  <2>1. IsFiniteSet(T) /\ x \in T /\ \A a \in T : across[a] \in Int
    BY <1>4, <1>6, <1>7, <1>9
  <2> HIDE DEF Bad, to
  <2> QED BY <2>1, SumTakes
<1>13. \A i \in S : to(T)[i] = m[x][i] + to(U)[i]
  <2> SUFFICES ASSUME NEW i \in S PROVE to(T)[i] = m[x][i] + to(U)[i]
    OBVIOUS
  <2>1. IsFiniteSet(T) /\ \A a \in T : c[i][a] \in Int
    BY <1>4, <1>5, <1>7
  <2>2. c[i][x] = m[x][i]
    BY <1>10
  <2>3. PICK g : g = c[i]
    OBVIOUS
  <2>4. x \in T /\ IsFiniteSet(T) /\ \A a \in T : g[a] \in Int
    BY <1>9, <2>1, <2>3
  <2> HIDE DEF Bad, to
  <2>5. SumFunctionOnSet(g, T) = g[x] + SumFunctionOnSet(g, T \ {x})
    BY <2>4, SumTakes
  <2> QED BY <2>2, <2>3, <2>5 DEF to
<1>14. \A i \in S : m[x][i] \in Int /\ to(U)[i] \in Int
  BY <1>7, <1>10
<1> HIDE DEF Bad, to, U
<1>15. SumFunctionOnSet(to(T), S) = SumFunctionOnSet(m[x], S) + SumFunctionOnSet(to(U), S)
  BY <1>13, <1>14, SumPlus
<1> QED
  BY <1>4, <1>10, <1>11, <1>12, <1>15
=============================================================================
