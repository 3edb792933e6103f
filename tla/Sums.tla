-------------------------------- MODULE Sums --------------------------------
(***************************************************************************)
(* Sums of functions over finite sets: what the proofs of the equations    *)
(* between rows and the movements behind them rest on.  SumFunctionOnSet   *)
(* picks one element after the other; the lemmas show that it may be any.  *)
(*                                                                         *)
(* Induction over a finite set is the choice of a smallest counterexample: *)
(* a set of subsets that is not empty has one that contains no other.      *)
(***************************************************************************)
EXTENDS Integers, FiniteSets, Functions, FiniteSetTheorems, TLAPS

LEMMA SmallestSubset ==
  ASSUME NEW S, IsFiniteSet(S), NEW T, T \subseteq SUBSET S, T # {}
  PROVE  \E m \in T : \A y \in T : y \subseteq m => y = m
<1>1. IsWellFoundedOn(StrictSubsetOrdering(S), SUBSET S)
  BY FS_StrictSubsetOrderingWellFounded, FS_FiniteSubsetsOfFinite
<1>2. PICK m \in T : \A y \in T : <<y, m>> \notin StrictSubsetOrdering(S)
  BY <1>1, WFMin
<1> QED BY <1>2 DEF StrictSubsetOrdering

-----------------------------------------------------------------------------
(***************************************************************************)
(* The recursive function behind the sum                                   *)
(***************************************************************************)
Picked(s) == CHOOSE x \in s : TRUE

Partial(g, f, S) ==
  g = [s \in SUBSET S |-> IF s = {} THEN 0 ELSE f[Picked(s)] + g[s \ {Picked(s)}]]

LEMMA SumIsPartial ==
  ASSUME NEW f, NEW S PROVE SumFunctionOnSet(f, S) = (CHOOSE g : Partial(g, f, S))[S]
  BY DEF SumFunctionOnSet, FoldFunctionOnSet, MapThenFoldSet, Partial, Picked

LEMMA PickedIn == ASSUME NEW s, s # {} PROVE Picked(s) \in s
  BY DEF Picked

LEMMA PartialAt ==
  ASSUME NEW f, NEW S, NEW g, Partial(g, f, S), NEW s \in SUBSET S
  PROVE  g[s] = IF s = {} THEN 0 ELSE f[Picked(s)] + g[s \ {Picked(s)}]
<1> DEFINE F(t) == IF t = {} THEN 0 ELSE f[Picked(t)] + g[t \ {Picked(t)}]
<1>1. g = [t \in SUBSET S |-> F(t)]
  BY DEF Partial
<1> HIDE DEF F
<1>2. g[s] = F(s)
  BY <1>1
<1> QED BY <1>2 DEF F

LEMMA PartialEmpty ==
  ASSUME NEW f, NEW S, NEW g, Partial(g, f, S) PROVE g[{}] = 0
<1>1. {} \in SUBSET S
  OBVIOUS
<1> QED BY <1>1, PartialAt

LEMMA PartialStep ==
  ASSUME NEW f, NEW S, NEW g, Partial(g, f, S), NEW s \in SUBSET S, s # {}
  PROVE  g[s] = f[Picked(s)] + g[s \ {Picked(s)}]
BY PartialAt

LEMMA PartialsAgree ==
  ASSUME NEW f, NEW S, IsFiniteSet(S), NEW T \in SUBSET S,
         NEW g, Partial(g, f, S), NEW h, Partial(h, f, T)
  PROVE  \A s \in SUBSET T : g[s] = h[s]
<1> DEFINE Bad == {s \in SUBSET T : g[s] # h[s]}
<1>1. \A s : s \in Bad <=> s \in SUBSET T /\ g[s] # h[s]
  OBVIOUS
<1> HIDE DEF Bad
<1>2. SUFFICES ASSUME Bad # {} PROVE FALSE
  BY <1>1
<1>3. IsFiniteSet(T) /\ Bad \subseteq SUBSET T
  BY <1>1, FS_Subset
<1>4. PICK m \in Bad : \A y \in Bad : y \subseteq m => y = m
  BY <1>2, <1>3, SmallestSubset
<1>5. m \in SUBSET T /\ m \in SUBSET S /\ g[m] # h[m]
  BY <1>1
<1>7. m # {}
  BY <1>5, PartialEmpty
<1>6. /\ g[m] = f[Picked(m)] + g[m \ {Picked(m)}]
      /\ h[m] = f[Picked(m)] + h[m \ {Picked(m)}]
  BY <1>5, <1>7, PartialStep
<1>8. Picked(m) \in m /\ m \ {Picked(m)} \in SUBSET T
  BY <1>5, <1>7, PickedIn
<1>9. g[m \ {Picked(m)}] = h[m \ {Picked(m)}]
  BY <1>1, <1>4, <1>8
<1> QED BY <1>5, <1>6, <1>9

LEMMA PartialType ==
  ASSUME NEW S, IsFiniteSet(S), NEW f, \A x \in S : f[x] \in Int, NEW g, Partial(g, f, S)
  PROVE  \A s \in SUBSET S : g[s] \in Int
<1> DEFINE Bad == {s \in SUBSET S : g[s] \notin Int}
<1>1. \A s : s \in Bad <=> s \in SUBSET S /\ g[s] \notin Int
  OBVIOUS
<1> HIDE DEF Bad
<1>2. SUFFICES ASSUME Bad # {} PROVE FALSE
  BY <1>1
<1>3. PICK m \in Bad : \A y \in Bad : y \subseteq m => y = m
  BY <1>1, <1>2, SmallestSubset
<1>4. m \in SUBSET S /\ g[m] \notin Int
  BY <1>1
<1>6. m # {}
  BY <1>4, PartialEmpty
<1>5. g[m] = f[Picked(m)] + g[m \ {Picked(m)}]
  BY ONLY <1>4, <1>6, Partial(g, f, S), PartialStep
<1>7. Picked(m) \in m /\ m \ {Picked(m)} \in SUBSET S
  BY <1>4, <1>6, PickedIn
<1>8. g[m \ {Picked(m)}] \in Int
  BY <1>1, <1>3, <1>7
<1> QED BY <1>4, <1>5, <1>6, <1>7, <1>8

LEMMA PartialExists ==
  ASSUME NEW S, IsFiniteSet(S), NEW f
  PROVE  \E g : Partial(g, f, S)
<1> DEFINE Bad == {T \in SUBSET S : ~ \E g : Partial(g, f, T)}
<1>0. \A T : T \in Bad <=> T \in SUBSET S /\ ~ \E g : Partial(g, f, T)
  OBVIOUS
<1> HIDE DEF Bad
<1>1. SUFFICES ASSUME Bad # {} PROVE FALSE
  BY <1>0
<1>2. PICK T \in Bad : \A y \in Bad : y \subseteq T => y = T
  BY <1>0, <1>1, SmallestSubset
<1>3. T \in SUBSET S /\ ~ \E g : Partial(g, f, T)
  BY <1>0
<1> DEFINE h(U) == CHOOSE g : Partial(g, f, U)
           F(U) == IF U = {} THEN 0 ELSE f[Picked(U)] + h(U \ {Picked(U)})[U \ {Picked(U)}]
           H    == [U \in SUBSET T |-> F(U)]
<1>4. ASSUME NEW U \in SUBSET T, U # T PROVE Partial(h(U), f, U)
  <2>1. \E g : Partial(g, f, U)
    BY <1>0, <1>2, <1>3, <1>4
  <2> QED BY <2>1
<1>5. ASSUME NEW U \in SUBSET T, U # T PROVE h(U)[U] = F(U)
  <2>1. Partial(h(U), f, U) /\ U \in SUBSET U
    BY <1>4, <1>5
  <2>2. CASE U = {}
    BY <2>1, <2>2, PartialAt
  <2>3. CASE U # {}
    <3> DEFINE W == U \ {Picked(U)}
    <3>1. W \in SUBSET U /\ W \in SUBSET T /\ W # T
      BY <2>3, <1>5, PickedIn
    <3>2. Partial(h(W), f, W)
      BY <1>4, <3>1
    <3>3. IsFiniteSet(U)
      BY <1>3, FS_Subset
    <3> HIDE DEF h
    <3>4. h(U)[W] = h(W)[W]
      <4> HIDE DEF W
      <4>1. \A s \in SUBSET W : h(U)[s] = h(W)[s]
        BY <2>1, <3>1, <3>2, <3>3, PartialsAgree
      <4> QED BY <4>1
    <3>5. h(U)[U] = f[Picked(U)] + h(U)[W]
      BY <2>1, <2>3, PartialStep
    <3> QED BY <3>4, <3>5, <2>3
  <2> QED BY <2>2, <2>3
<1> HIDE DEF h
<1>6. \A U \in SUBSET T : H[U] = F(U)
  OBVIOUS
<1>7. ASSUME NEW U \in SUBSET T
      PROVE F(U) = IF U = {} THEN 0 ELSE f[Picked(U)] + H[U \ {Picked(U)}]
  <2>1. CASE U = {}
    BY <2>1
  <2>2. CASE U # {}
    <3> DEFINE W == U \ {Picked(U)}
    <3>1. W \in SUBSET T /\ W # T
      BY <2>2, PickedIn
    <3>2. H[W] = F(W)
      BY <3>1, <1>6
    <3>3. h(W)[W] = F(W)
      BY <3>1, <1>5
    <3> HIDE DEF H
    <3> QED BY <3>2, <3>3, <2>2
  <2> QED BY <2>1, <2>2
<1>8. Partial(H, f, T)
  <2> DEFINE K(U) == IF U = {} THEN 0 ELSE f[Picked(U)] + H[U \ {Picked(U)}]
  <2>1. \A U \in SUBSET T : F(U) = K(U)
    BY <1>7
  <2>2. H = [U \in SUBSET T |-> F(U)]
    OBVIOUS
  <2> HIDE DEF F, H, K
  <2>3. H = [U \in SUBSET T |-> K(U)]
    BY <2>1, <2>2
  <2> QED BY <2>3 DEF K, Partial
<1> QED BY <1>3, <1>8

-----------------------------------------------------------------------------
(***************************************************************************)
(* The sum over a set                                                      *)
(***************************************************************************)
\* The sums over the subsets of one finite set are one such function.
LEMMA SumsArePartial ==
  ASSUME NEW S, IsFiniteSet(S), NEW f
  PROVE  \E g : Partial(g, f, S) /\ \A T \in SUBSET S : SumFunctionOnSet(f, T) = g[T]
<1>1. PICK g : Partial(g, f, S)
  BY PartialExists
<1>2. ASSUME NEW T \in SUBSET S PROVE SumFunctionOnSet(f, T) = g[T]
  <2> DEFINE h == CHOOSE k : Partial(k, f, T)
  <2>1. IsFiniteSet(T)
    BY FS_Subset
  <2>2. Partial(h, f, T)
    BY <2>1, PartialExists
  <2>3. SumFunctionOnSet(f, T) = h[T]
    BY SumIsPartial
  <2> HIDE DEF h
  <2>4. g[T] = h[T]
    BY <1>1, <2>2, PartialsAgree
  <2> QED BY <2>3, <2>4
<1> QED BY <1>1, <1>2

\* An empty sum is zero.
LEMMA SumEmpty == ASSUME NEW f PROVE SumFunctionOnSet(f, {}) = 0
<1>1. IsFiniteSet({})
  BY FS_EmptySet
<1>2. PICK g : Partial(g, f, {}) /\ \A T \in SUBSET {} : SumFunctionOnSet(f, T) = g[T]
  BY <1>1, SumsArePartial
<1>3. g[{}] = 0
  BY <1>2, PartialEmpty
<1> QED BY <1>2, <1>3

LEMMA SumType ==
  ASSUME NEW S, IsFiniteSet(S), NEW f, \A x \in S : f[x] \in Int
  PROVE  SumFunctionOnSet(f, S) \in Int
<1>1. PICK g : Partial(g, f, S) /\ \A T \in SUBSET S : SumFunctionOnSet(f, T) = g[T]
  BY SumsArePartial
<1>2. g[S] \in Int
  BY <1>1, PartialType
<1> QED BY <1>1, <1>2

\* Whichever element is taken out, the sum is that element and the rest.
LEMMA SumTakeOut ==
  ASSUME NEW S, IsFiniteSet(S), NEW f, \A x \in S : f[x] \in Int, NEW x \in S
  PROVE  SumFunctionOnSet(f, S) = f[x] + SumFunctionOnSet(f, S \ {x})
<1>1. PICK g : Partial(g, f, S) /\ \A T \in SUBSET S : SumFunctionOnSet(f, T) = g[T]
  BY SumsArePartial
<1> DEFINE Bad == {T \in SUBSET S : \E y \in T : g[T] # f[y] + g[T \ {y}]}
<1>2. \A T : T \in Bad <=> T \in SUBSET S /\ \E y \in T : g[T] # f[y] + g[T \ {y}]
  OBVIOUS
<1> HIDE DEF Bad
<1>3. Bad = {}
  <2>1. SUFFICES ASSUME Bad # {} PROVE FALSE
    OBVIOUS
  <2>2. PICK m \in Bad : \A T \in Bad : T \subseteq m => T = m
    BY <1>2, <2>1, SmallestSubset
  <2>3. PICK y \in m : g[m] # f[y] + g[m \ {y}]
    BY <1>2
  <2> DEFINE p == Picked(m)
             rest == (m \ {p}) \ {y}
  <2>4. m \in SUBSET S /\ p \in m /\ m # {}
    BY <1>2, PickedIn
  <2>5. g[m] = f[p] + g[m \ {p}]
    BY <1>1, <2>4, PartialStep
  <2>6. y # p
    BY <2>3, <2>5
  <2> HIDE DEF p
  <2>7. m \ {p} \in SUBSET S /\ m \ {p} # m /\ m \ {y} \in SUBSET S /\ m \ {y} # m
    BY <2>4
  <2>8. y \in m \ {p} /\ p \in m \ {y} /\ (m \ {y}) \ {p} = rest
    BY <2>4, <2>6
  <2>9. g[m \ {p}] = f[y] + g[rest]
    BY <1>2, <2>2, <2>7, <2>8
  <2>10. g[m \ {y}] = f[p] + g[rest]
    BY <1>2, <2>2, <2>7, <2>8
  <2>11. f[y] \in Int /\ f[p] \in Int /\ g[rest] \in Int
    BY <1>1, <2>4, PartialType
  <2> HIDE DEF rest
  <2> QED BY <2>3, <2>5, <2>9, <2>10, <2>11
<1>4. g[S] = f[x] + g[S \ {x}]
  BY <1>2, <1>3
<1> QED BY <1>1, <1>4

\* Summands that are the sums of two functions' values.
LEMMA SumAdds ==
  ASSUME NEW S, IsFiniteSet(S), NEW f, NEW g, NEW h,
         \A x \in S : f[x] \in Int /\ g[x] \in Int /\ h[x] = f[x] + g[x]
  PROVE  SumFunctionOnSet(h, S) = SumFunctionOnSet(f, S) + SumFunctionOnSet(g, S)
<1> DEFINE Same(T) == SumFunctionOnSet(h, T) = SumFunctionOnSet(f, T) + SumFunctionOnSet(g, T)
           Bad == {T \in SUBSET S : ~ Same(T)}
<1>1. \A T : T \in Bad <=> T \in SUBSET S /\ ~ Same(T)
  OBVIOUS
<1> HIDE DEF Bad
<1>2. SUFFICES ASSUME Bad # {} PROVE FALSE
  BY <1>1
<1>3. PICK m \in Bad : \A T \in Bad : T \subseteq m => T = m
  BY <1>1, <1>2, SmallestSubset
<1>4. m \in SUBSET S /\ ~ Same(m)
  BY <1>1
<1>5. IsFiniteSet(m)
  BY <1>4, FS_Subset
<1>0. Same({})
  BY SumEmpty
<1>6. m # {}
  BY <1>4, <1>0
<1>7. PICK x \in m : TRUE
  BY <1>6
<1>8. m \ {x} \in SUBSET S /\ m \ {x} # m /\ IsFiniteSet(m \ {x})
  BY <1>4, <1>5, FS_Subset
<1>9. Same(m \ {x})
  BY <1>1, <1>3, <1>8
<1>10. \A y \in m : f[y] \in Int /\ g[y] \in Int /\ h[y] \in Int
  BY <1>4
<1>11. /\ SumFunctionOnSet(f, m) = f[x] + SumFunctionOnSet(f, m \ {x})
       /\ SumFunctionOnSet(g, m) = g[x] + SumFunctionOnSet(g, m \ {x})
       /\ SumFunctionOnSet(h, m) = h[x] + SumFunctionOnSet(h, m \ {x})
  BY <1>5, <1>10, SumTakeOut
<1>12. SumFunctionOnSet(f, m \ {x}) \in Int /\ SumFunctionOnSet(g, m \ {x}) \in Int
  BY <1>8, <1>10, SumType
<1>13. h[x] = f[x] + g[x] /\ f[x] \in Int /\ g[x] \in Int
  BY <1>4
<1> QED BY <1>4, <1>9, <1>11, <1>12, <1>13

\* Naturals that are no larger than others have no larger a sum.
LEMMA SumMonotone ==
  ASSUME NEW S, IsFiniteSet(S), NEW f, NEW g,
         \A x \in S : f[x] \in Int /\ g[x] \in Int /\ f[x] <= g[x]
  PROVE  SumFunctionOnSet(f, S) <= SumFunctionOnSet(g, S)
<1> DEFINE Leq(T) == SumFunctionOnSet(f, T) <= SumFunctionOnSet(g, T)
           Bad == {T \in SUBSET S : ~ Leq(T)}
<1>1. \A T : T \in Bad <=> T \in SUBSET S /\ ~ Leq(T)
  OBVIOUS
<1> HIDE DEF Bad
<1>2. SUFFICES ASSUME Bad # {} PROVE FALSE
  BY <1>1
<1>3. PICK m \in Bad : \A T \in Bad : T \subseteq m => T = m
  BY <1>1, <1>2, SmallestSubset
<1>4. m \in SUBSET S /\ ~ Leq(m)
  BY <1>1
<1>5. IsFiniteSet(m)
  BY <1>4, FS_Subset
<1>6. m # {}
  BY <1>4, SumEmpty
<1>7. PICK x \in m : TRUE
  BY <1>6
<1>8. m \ {x} \in SUBSET S /\ m \ {x} # m /\ IsFiniteSet(m \ {x})
  BY <1>4, <1>5, FS_Subset
<1>9. Leq(m \ {x})
  BY <1>1, <1>3, <1>8
<1>10. \A y \in m : f[y] \in Int /\ g[y] \in Int
  BY <1>4
<1>11. /\ SumFunctionOnSet(f, m) = f[x] + SumFunctionOnSet(f, m \ {x})
       /\ SumFunctionOnSet(g, m) = g[x] + SumFunctionOnSet(g, m \ {x})
  BY <1>5, <1>10, SumTakeOut
<1>12. SumFunctionOnSet(f, m \ {x}) \in Int /\ SumFunctionOnSet(g, m \ {x}) \in Int
  BY <1>8, <1>10, SumType
<1>13. f[x] <= g[x] /\ f[x] \in Int /\ g[x] \in Int
  BY <1>4
<1> QED BY <1>4, <1>9, <1>11, <1>12, <1>13

-----------------------------------------------------------------------------
(***************************************************************************)
(* What follows: the facts that are cited                                  *)
(***************************************************************************)
LEMMA SumSame ==
  ASSUME NEW S, IsFiniteSet(S), NEW f, NEW g, \A x \in S : f[x] \in Int /\ g[x] = f[x]
  PROVE  SumFunctionOnSet(g, S) = SumFunctionOnSet(f, S)
<1>1. \A x \in S : f[x] \in Int /\ g[x] \in Int /\ f[x] <= g[x] /\ g[x] <= f[x]
  OBVIOUS
<1>2. SumFunctionOnSet(f, S) <= SumFunctionOnSet(g, S) /\ SumFunctionOnSet(g, S) <= SumFunctionOnSet(f, S)
  BY <1>1, SumMonotone
<1>3. SumFunctionOnSet(f, S) \in Int /\ SumFunctionOnSet(g, S) \in Int
  BY <1>1, SumType
<1> QED BY <1>2, <1>3

\* One summand changes and the others stay.
LEMMA SumChanges ==
  ASSUME NEW S, IsFiniteSet(S), NEW x \in S, NEW f, NEW g,
         \A y \in S : f[y] \in Int /\ g[y] \in Int, \A y \in S \ {x} : g[y] = f[y]
  PROVE  SumFunctionOnSet(g, S) = SumFunctionOnSet(f, S) - f[x] + g[x]
<1>1. IsFiniteSet(S \ {x})
  BY FS_Subset
<1>2. SumFunctionOnSet(g, S \ {x}) = SumFunctionOnSet(f, S \ {x})
  BY <1>1, SumSame
<1>3. SumFunctionOnSet(f, S) = f[x] + SumFunctionOnSet(f, S \ {x})
  BY SumTakeOut
<1>4. SumFunctionOnSet(g, S) = g[x] + SumFunctionOnSet(g, S \ {x})
  BY SumTakeOut
<1>5. SumFunctionOnSet(f, S \ {x}) \in Int
  BY <1>1, SumType
<1> QED BY <1>2, <1>3, <1>4, <1>5

\* Zeroes add up to zero.
LEMMA SumZero ==
  ASSUME NEW S, IsFiniteSet(S), NEW f, \A x \in S : f[x] = 0
  PROVE  SumFunctionOnSet(f, S) = 0
<1>1. \A x \in S : f[x] \in Int /\ f[x] = f[x] + f[x]
  OBVIOUS
<1>2. SumFunctionOnSet(f, S) = SumFunctionOnSet(f, S) + SumFunctionOnSet(f, S)
  BY <1>1, SumAdds
<1>3. SumFunctionOnSet(f, S) \in Int
  BY <1>1, SumType
<1>4. \A n \in Int : n = n + n => n = 0
  OBVIOUS
<1> QED BY <1>2, <1>3, <1>4

LEMMA SumNat ==
  ASSUME NEW S, IsFiniteSet(S), NEW f, \A x \in S : f[x] \in Nat
  PROVE  SumFunctionOnSet(f, S) \in Nat
<1> DEFINE zero == [x \in S |-> 0]
<1>1. SumFunctionOnSet(zero, S) = 0
  BY SumZero
<1>2. \A x \in S : zero[x] \in Int /\ f[x] \in Int /\ zero[x] <= f[x]
  OBVIOUS
<1>3. SumFunctionOnSet(zero, S) <= SumFunctionOnSet(f, S)
  BY <1>2, SumMonotone
<1>4. SumFunctionOnSet(f, S) \in Int
  BY SumType
<1> QED BY <1>1, <1>3, <1>4

-----------------------------------------------------------------------------
\* A table of quantities with one row written, whether it existed or not.
Updated(f, s, n) == [x \in DOMAIN f \cup {s} |-> IF x = s THEN n ELSE f[x]]

LEMMA SumUpdated ==
  ASSUME NEW f, IsFiniteSet(DOMAIN f), \A x \in DOMAIN f : f[x] \in Int, NEW s, NEW n \in Int
  PROVE  /\ IsFiniteSet(DOMAIN Updated(f, s, n))
         /\ SumFunction(f) \in Int
         /\ SumFunction(Updated(f, s, n))
              = SumFunction(f) + n - (IF s \in DOMAIN f THEN f[s] ELSE 0)
<1> DEFINE g == Updated(f, s, n)
           D == DOMAIN f
<1>1. DOMAIN g = D \cup {s} /\ g[s] = n /\ \A x \in D \ {s} : g[x] = f[x]
  BY DEF Updated
<1>2. IsFiniteSet(D \cup {s}) /\ IsFiniteSet(D \ {s})
  BY FS_AddElement, FS_RemoveElement
<1>3. SumFunctionOnSet(f, D) \in Int /\ SumFunctionOnSet(f, D \ {s}) \in Int
  <2> HIDE DEF D
  <2> QED
    BY <1>2, SumType DEF D
<1>4. SumFunctionOnSet(g, D \cup {s}) = n + SumFunctionOnSet(g, D \ {s})
  <2>1. \A x \in D \cup {s} : g[x] \in Int
    BY <1>1
  <2>2. (D \cup {s}) \ {s} = D \ {s}
    OBVIOUS
  <2> HIDE DEF g, D
  <2>3. SumFunctionOnSet(g, D \cup {s}) = g[s] + SumFunctionOnSet(g, (D \cup {s}) \ {s})
    BY <1>2, <2>1, SumTakeOut
  <2> QED
    BY <1>1, <2>2, <2>3
<1>5. SumFunctionOnSet(g, D \ {s}) = SumFunctionOnSet(f, D \ {s})
  <2>1. \A x \in D \ {s} : f[x] \in Int /\ g[x] = f[x]
    BY <1>1
  <2> HIDE DEF g, D
  <2> QED
    BY <1>2, <2>1, SumSame
<1>6. SumFunctionOnSet(f, D) = (IF s \in D THEN f[s] ELSE 0) + SumFunctionOnSet(f, D \ {s})
  <2>1. CASE s \in D
    <3> HIDE DEF D
    <3>1. SumFunctionOnSet(f, D) = f[s] + SumFunctionOnSet(f, D \ {s})
      BY <2>1, SumTakeOut DEF D
    <3> QED
      BY <2>1, <3>1
  <2>2. CASE s \notin D
    <3>1. D \ {s} = D
      BY <2>2
    <3> HIDE DEF D
    <3> QED
      BY <1>3, <2>2, <3>1
  <2> QED
    BY <2>1, <2>2
<1>7. (IF s \in D THEN f[s] ELSE 0) \in Int
  OBVIOUS
<1>8. SumFunction(g) = SumFunctionOnSet(g, D \cup {s}) /\ SumFunction(f) = SumFunctionOnSet(f, D)
  BY <1>1 DEF SumFunction
<1> HIDE DEF g
<1>9. SumFunction(g) = SumFunction(f) + n - (IF s \in D THEN f[s] ELSE 0)
  <2> DEFINE rest == SumFunctionOnSet(f, D \ {s})
             old  == IF s \in D THEN f[s] ELSE 0
  <2> HIDE DEF rest, old, D
  <2>1. rest \in Int /\ old \in Int
    BY <1>3, <1>7 DEF rest, old
  <2>2. SumFunction(g) = n + rest /\ SumFunction(f) = old + rest
    BY <1>4, <1>5, <1>6, <1>8 DEF rest, old
  <2>3. SumFunction(g) = SumFunction(f) + n - old
    BY <2>1, <2>2
  <2> QED
    BY <2>3 DEF old
<1> QED
  BY <1>1, <1>2, <1>3, <1>8, <1>9 DEF g
=============================================================================
