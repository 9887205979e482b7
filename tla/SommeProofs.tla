----------------------------- MODULE SommeProofs -----------------------------
(***************************************************************************)
(* Lemmas about the sums of module Riconciliatore, and what they say of    *)
(* the reconciler.                                                         *)
(*                                                                         *)
(* SommaSu is a fold: a function defined by recursion over the subsets of  *)
(* the set it sums on.  What it does for every finite set is proved by     *)
(* minimal counterexample: among the subsets for which a fact fails there  *)
(* would be one all of whose proper subsets keep it.                       *)
(***************************************************************************)
EXTENDS Riconciliatore, TLAPS, FiniteSetTheorems, WellFoundedInduction

\* g sums w over the subsets of S, an element at a time.
Accumula(w, S, g) ==
  g = [s \in SUBSET S |->
         IF s = {} THEN 0
         ELSE w[CHOOSE x \in s : TRUE] + g[s \ {CHOOSE x \in s : TRUE}]]

\* A non-empty family of subsets of a finite set has a minimal member.
LEMMA SottoinsiemeMinimo ==
  ASSUME NEW S, IsFiniteSet(S), NEW T \in SUBSET SUBSET S, T # {}
  PROVE  \E x \in T : \A y \in T : y \subseteq x => y = x
<1>1. IsWellFoundedOn(StrictSubsetOrdering(S), SUBSET S)
  BY FS_StrictSubsetOrderingWellFounded, FS_FiniteSubsetsOfFinite
<1>2. PICK x \in T : \A y \in T : <<y, x>> \notin StrictSubsetOrdering(S)
  BY <1>1, WFMin
<1>3. \A y \in T : y \subseteq x => y = x
  BY <1>2 DEF StrictSubsetOrdering
<1> QED BY <1>3

\* Two functions that sum equal weights agree on what both are defined on.
LEMMA AccumulaUnico ==
  ASSUME NEW S, IsFiniteSet(S), NEW R, NEW w, NEW v, NEW g, NEW h,
         Accumula(w, S, g), Accumula(v, R, h), \A x \in S \cap R : w[x] = v[x]
  PROVE  \A s \in SUBSET (S \cap R) : g[s] = h[s]
<1> DEFINE T == {s \in SUBSET (S \cap R) : g[s] # h[s]}
<1> SUFFICES ASSUME T # {} PROVE FALSE
  OBVIOUS
<1>1. PICK s \in T : \A y \in T : y \subseteq s => y = s
  <2>1. T \in SUBSET SUBSET S
    OBVIOUS
  <2> HIDE DEF T
  <2> QED BY <2>1, SottoinsiemeMinimo
<1>2. g[s] = IF s = {} THEN 0 ELSE w[CHOOSE x \in s : TRUE] + g[s \ {CHOOSE x \in s : TRUE}]
  BY DEF Accumula
<1>3. h[s] = IF s = {} THEN 0 ELSE v[CHOOSE x \in s : TRUE] + h[s \ {CHOOSE x \in s : TRUE}]
  BY DEF Accumula
<1>4. s # {}
  BY <1>2, <1>3
<1> DEFINE x == CHOOSE x \in s : TRUE
<1>5. x \in s
  BY <1>4
<1>6. g[s \ {x}] = h[s \ {x}]
  BY <1>1, <1>5
<1>7. w[x] = v[x]
  BY <1>5
<1> QED BY <1>2, <1>3, <1>4, <1>6, <1>7

\* There is one for every finite set.
LEMMA AccumulaEsiste ==
  ASSUME NEW S, IsFiniteSet(S), NEW w
  PROVE  \E g : Accumula(w, S, g)
<1> DEFINE T == {Q \in SUBSET S : ~ \E g : Accumula(w, Q, g)}
<1> SUFFICES ASSUME T # {} PROVE FALSE
  <2>1. S \in SUBSET S
    OBVIOUS
  <2> QED BY <2>1
<1>1. PICK Q \in T : \A y \in T : y \subseteq Q => y = Q
  <2>1. T \in SUBSET SUBSET S
    OBVIOUS
  <2> HIDE DEF T
  <2> QED BY <2>1, SottoinsiemeMinimo
<1>2. Q \in SUBSET S /\ ~ \E g : Accumula(w, Q, g)
  OBVIOUS
<1>3. \A r \in SUBSET Q : r # Q => \E g : Accumula(w, r, g)
  BY <1>1
<1> HIDE DEF T
<1> DEFINE G(r) == CHOOSE g : Accumula(w, r, g)
           gg == [s \in SUBSET Q |->
                    IF s = {} THEN 0
                    ELSE w[CHOOSE x \in s : TRUE]
                         + G(s \ {CHOOSE x \in s : TRUE})[s \ {CHOOSE x \in s : TRUE}]]
<1>4. \A r \in SUBSET Q : r # Q => Accumula(w, r, G(r))
  BY <1>3
<1>5. \A r \in SUBSET Q : IsFiniteSet(r)
  BY <1>2, FS_Subset
<1> HIDE DEF G
<1>6. ASSUME NEW r \in SUBSET Q, r # Q
      PROVE  gg[r] = G(r)[r]
  <2>1. G(r)[r] = IF r = {} THEN 0
                  ELSE w[CHOOSE x \in r : TRUE] + G(r)[r \ {CHOOSE x \in r : TRUE}]
    BY <1>4, <1>6 DEF Accumula
  <2>2. CASE r = {}
    BY <2>1, <2>2
  <2>3. CASE r # {}
    <3> DEFINE x == CHOOSE x \in r : TRUE
    <3>1. x \in r
      BY <2>3
    <3>2. r \ {x} \in SUBSET Q /\ r \ {x} # Q /\ r \ {x} \in SUBSET (r \cap (r \ {x}))
      BY <3>1
    <3>3. G(r)[r \ {x}] = G(r \ {x})[r \ {x}]
      <4> HIDE DEF x
      <4>1. Accumula(w, r, G(r)) /\ Accumula(w, r \ {x}, G(r \ {x})) /\ IsFiniteSet(r)
        BY <1>4, <1>5, <1>6, <3>2
      <4>2. \A s \in SUBSET (r \cap (r \ {x})) : G(r)[s] = G(r \ {x})[s]
        BY <4>1, AccumulaUnico
      <4> QED BY <3>2, <4>2
    <3> QED BY <2>1, <2>3, <3>3
  <2> QED BY <2>2, <2>3
<1>7. Accumula(w, Q, gg)
  <2>1. ASSUME NEW s \in SUBSET Q, s # {}
        PROVE  G(s \ {CHOOSE x \in s : TRUE})[s \ {CHOOSE x \in s : TRUE}]
               = gg[s \ {CHOOSE x \in s : TRUE}]
    <3> DEFINE x == CHOOSE x \in s : TRUE
    <3>1. x \in s
      BY <2>1
    <3>2. s \ {x} \in SUBSET Q /\ s \ {x} # Q
      BY <3>1
    <3> HIDE DEF x, gg
    <3>3. gg[s \ {x}] = G(s \ {x})[s \ {x}]
      BY <1>6, <3>2
    <3> QED BY <3>3 DEF x
  <2>2. \A s \in SUBSET Q :
          gg[s] = IF s = {} THEN 0
                  ELSE w[CHOOSE x \in s : TRUE]
                       + G(s \ {CHOOSE x \in s : TRUE})[s \ {CHOOSE x \in s : TRUE}]
    OBVIOUS
  <2>3. gg = [s \in SUBSET Q |-> gg[s]]
    OBVIOUS
  <2> HIDE DEF gg
  <2>4. \A s \in SUBSET Q :
          gg[s] = IF s = {} THEN 0
                  ELSE w[CHOOSE x \in s : TRUE] + gg[s \ {CHOOSE x \in s : TRUE}]
    BY <2>1, <2>2
  <2> QED BY <2>3, <2>4 DEF Accumula
<1> QED BY <1>2, <1>7

\* Sums of natural weights are natural numbers.
LEMMA AccumulaNaturale ==
  ASSUME NEW S, IsFiniteSet(S), NEW w, \A x \in S : w[x] \in Nat,
         NEW g, Accumula(w, S, g)
  PROVE  \A s \in SUBSET S : g[s] \in Nat
<1> DEFINE T == {s \in SUBSET S : g[s] \notin Nat}
<1> SUFFICES ASSUME T # {} PROVE FALSE
  OBVIOUS
<1>1. PICK s \in T : \A y \in T : y \subseteq s => y = s
  <2>1. T \in SUBSET SUBSET S
    OBVIOUS
  <2> HIDE DEF T
  <2> QED BY <2>1, SottoinsiemeMinimo
<1>2. g[s] = IF s = {} THEN 0 ELSE w[CHOOSE x \in s : TRUE] + g[s \ {CHOOSE x \in s : TRUE}]
  BY DEF Accumula
<1>3. s # {}
  BY <1>2
<1> DEFINE x == CHOOSE x \in s : TRUE
<1>4. x \in s
  BY <1>3
<1>5. g[s \ {x}] \in Nat /\ w[x] \in Nat
  BY <1>1, <1>4
<1> QED BY <1>2, <1>3, <1>5

\* The order in which the elements are added does not matter.
LEMMA AccumulaTogli ==
  ASSUME NEW S, IsFiniteSet(S), NEW w, \A x \in S : w[x] \in Nat,
         NEW g, Accumula(w, S, g)
  PROVE  \A s \in SUBSET S : \A p \in s : g[s] = w[p] + g[s \ {p}]
<1> DEFINE T == {s \in SUBSET S : \E p \in s : g[s] # w[p] + g[s \ {p}]}
<1> SUFFICES ASSUME T # {} PROVE FALSE
  OBVIOUS
<1>1. PICK s \in T : \A y \in T : y \subseteq s => y = s
  <2>1. T \in SUBSET SUBSET S
    OBVIOUS
  <2> HIDE DEF T
  <2> QED BY <2>1, SottoinsiemeMinimo
<1>2. PICK p \in s : g[s] # w[p] + g[s \ {p}]
  OBVIOUS
<1>3. \A y \in SUBSET s : y # s => \A q \in y : g[y] = w[q] + g[y \ {q}]
  BY <1>1
<1> HIDE DEF T
<1>4. s \in SUBSET S
  BY DEF T
<1> DEFINE x == CHOOSE x \in s : TRUE
<1>5. x \in s
  OBVIOUS
<1>6. g[s] = w[x] + g[s \ {x}]
  BY <1>2, <1>4 DEF Accumula
<1> HIDE DEF x
<1>7. x # p
  BY <1>2, <1>6
<1>8. g[s \ {x}] = w[p] + g[(s \ {x}) \ {p}]
  BY <1>2, <1>3, <1>5, <1>7
<1>9. g[s \ {p}] = w[x] + g[(s \ {p}) \ {x}]
  BY <1>2, <1>3, <1>5, <1>7
<1>10. (s \ {p}) \ {x} = (s \ {x}) \ {p}
  OBVIOUS
<1>11. w[x] \in Nat /\ w[p] \in Nat /\ g[(s \ {x}) \ {p}] \in Nat
  BY <1>2, <1>4, <1>5, AccumulaNaturale
<1>12. \A a, b, c \in Nat : a + (b + c) = b + (a + c)
  OBVIOUS
<1>13. w[x] + (w[p] + g[(s \ {x}) \ {p}]) = w[p] + (w[x] + g[(s \ {x}) \ {p}])
  BY <1>11, <1>12, Zenon
<1>14. g[s] = w[p] + g[s \ {p}]
  BY <1>6, <1>8, <1>9, <1>10, <1>13, Zenon
<1> QED BY <1>2, <1>14

\* SommaSu sums its weights.
LEMMA SommaAccumula ==
  ASSUME NEW S, IsFiniteSet(S), NEW w
  PROVE  \E g : Accumula(w, S, g) /\ SommaSu(w, S) = g[S]
<1> DEFINE iter == CHOOSE g : Accumula(w, S, g)
<1>1. Accumula(w, S, iter)
  BY AccumulaEsiste
<1>2. SommaSu(w, S) = iter[S]
  BY DEF SommaSu, MapThenSumSet, MapThenFoldSet, Accumula
<1> QED BY <1>1, <1>2

-----------------------------------------------------------------------------
(***************************************************************************)
(* What the other modules need of a sum.                                   *)
(***************************************************************************)
Naturale(w, S) == \A x \in S : w[x] \in Nat

\* Nothing sums to zero.
LEMMA SommaVuota ==
  ASSUME NEW w
  PROVE  SommaSu(w, {}) = 0
<1>1. PICK g : Accumula(w, {}, g) /\ SommaSu(w, {}) = g[{}]
  BY SommaAccumula, FS_EmptySet
<1> QED BY <1>1 DEF Accumula

\* A sum of amounts is an amount.
LEMMA SommaNaturale ==
  ASSUME NEW S, IsFiniteSet(S), NEW w, Naturale(w, S)
  PROVE  SommaSu(w, S) \in Nat
<1>1. PICK g : Accumula(w, S, g) /\ SommaSu(w, S) = g[S]
  BY SommaAccumula
<1> QED BY <1>1, AccumulaNaturale DEF Naturale

\* Only the weights of the elements matter.
LEMMA SommaUguale ==
  ASSUME NEW S, IsFiniteSet(S), NEW w, NEW v, \A x \in S : w[x] = v[x]
  PROVE  SommaSu(w, S) = SommaSu(v, S)
<1>1. PICK g : Accumula(w, S, g) /\ SommaSu(w, S) = g[S]
  BY SommaAccumula
<1>2. PICK h : Accumula(v, S, h) /\ SommaSu(v, S) = h[S]
  BY SommaAccumula
<1>3. \A s \in SUBSET (S \cap S) : g[s] = h[s]
  <2>1. \A x \in S \cap S : w[x] = v[x]
    OBVIOUS
  <2> QED BY <1>1, <1>2, <2>1, AccumulaUnico
<1> QED BY <1>1, <1>2, <1>3

\* An element can be taken out of a sum.
LEMMA SommaTogli ==
  ASSUME NEW S, IsFiniteSet(S), NEW w, Naturale(w, S), NEW p \in S
  PROVE  /\ SommaSu(w, S) = w[p] + SommaSu(w, S \ {p})
         /\ SommaSu(w, S \ {p}) \in Nat /\ w[p] \in Nat
<1> DEFINE R == S \ {p}
<1>1. IsFiniteSet(R) /\ R \subseteq S
  BY FS_RemoveElement
<1>2. PICK g : Accumula(w, S, g) /\ SommaSu(w, S) = g[S]
  BY SommaAccumula
<1>3. PICK h : Accumula(w, R, h) /\ SommaSu(w, R) = h[R]
  BY <1>1, SommaAccumula
<1>4. g[S] = w[p] + g[R]
  BY <1>2, AccumulaTogli DEF Naturale
<1>5. g[R] = h[R]
  <2>1. \A x \in S \cap R : w[x] = w[x]
    OBVIOUS
  <2> HIDE DEF R
  <2>2. \A s \in SUBSET (S \cap R) : g[s] = h[s]
    BY <1>2, <1>3, <2>1, AccumulaUnico
  <2>3. R \in SUBSET (S \cap R)
    BY <1>1
  <2> QED BY <2>2, <2>3
<1>6. SommaSu(w, R) \in Nat
  BY <1>1, SommaNaturale DEF Naturale
<1> QED BY <1>2, <1>3, <1>4, <1>5, <1>6 DEF Naturale

\* An element can be put into a sum.
LEMMA SommaAggiungi ==
  ASSUME NEW S, IsFiniteSet(S), NEW w, NEW p, p \notin S, Naturale(w, S \cup {p})
  PROVE  SommaSu(w, S \cup {p}) = w[p] + SommaSu(w, S)
<1>1. IsFiniteSet(S \cup {p})
  BY FS_AddElement
<1>2. (S \cup {p}) \ {p} = S
  OBVIOUS
<1>3. SommaSu(w, S \cup {p}) = w[p] + SommaSu(w, (S \cup {p}) \ {p})
  BY <1>1, SommaTogli
<1> QED BY <1>2, <1>3

\* More and larger weights make a larger sum.
LEMMA SommaMonotona ==
  ASSUME NEW S, IsFiniteSet(S), NEW R \in SUBSET S, NEW w, NEW v,
         Naturale(w, R), Naturale(v, S), \A x \in R : w[x] <= v[x]
  PROVE  SommaSu(w, R) <= SommaSu(v, S)
<1> DEFINE T == {s \in SUBSET S : ~ (SommaSu(w, s \cap R) <= SommaSu(v, s))}
<1> SUFFICES ASSUME T # {} PROVE FALSE
  <2>1. S \in SUBSET S /\ S \cap R = R
    OBVIOUS
  <2> QED BY <2>1
<1>1. PICK s \in T : \A y \in T : y \subseteq s => y = s
  <2>1. T \in SUBSET SUBSET S
    OBVIOUS
  <2> HIDE DEF T
  <2> QED BY <2>1, SottoinsiemeMinimo
<1>2. s \in SUBSET S /\ ~ (SommaSu(w, s \cap R) <= SommaSu(v, s))
  OBVIOUS
<1>3. \A y \in SUBSET s : y # s => SommaSu(w, y \cap R) <= SommaSu(v, y)
  BY <1>1, <1>2
<1> HIDE DEF T
<1>4. IsFiniteSet(s) /\ IsFiniteSet(s \cap R)
  BY <1>2, FS_Subset
<1>5. Naturale(v, s) /\ Naturale(w, s \cap R)
  BY <1>2 DEF Naturale
<1>6. s # {}
  <2>1. {} \cap R = {} /\ SommaSu(w, {}) = 0 /\ SommaSu(v, {}) = 0
    BY SommaVuota
  <2> QED BY <2>1, <1>2
<1>7. PICK p \in s : TRUE
  BY <1>6
<1>8. /\ SommaSu(v, s) = v[p] + SommaSu(v, s \ {p})
      /\ SommaSu(v, s \ {p}) \in Nat /\ v[p] \in Nat
  BY <1>4, <1>5, SommaTogli
<1>9. SommaSu(w, (s \ {p}) \cap R) <= SommaSu(v, s \ {p})
  BY <1>3
<1>10. CASE p \in R
  <2>1. (s \cap R) \ {p} = (s \ {p}) \cap R /\ p \in s \cap R
    BY <1>10
  <2>2. /\ SommaSu(w, s \cap R) = w[p] + SommaSu(w, (s \cap R) \ {p})
        /\ SommaSu(w, (s \cap R) \ {p}) \in Nat /\ w[p] \in Nat
    BY <1>4, <1>5, <2>1, SommaTogli
  <2>3. w[p] <= v[p]
    BY <1>10
  <2>4. \A a, b, c, d \in Nat : a <= b /\ c <= d => a + c <= b + d
    OBVIOUS
  <2>5. w[p] + SommaSu(w, (s \cap R) \ {p}) <= v[p] + SommaSu(v, s \ {p})
    BY <1>8, <1>9, <2>1, <2>2, <2>3, <2>4
  <2> QED BY <1>2, <1>8, <2>2, <2>5
<1>11. CASE p \notin R
  <2>1. s \cap R = (s \ {p}) \cap R
    BY <1>11
  <2>2. SommaSu(w, s \cap R) \in Nat
    BY <1>4, <1>5, SommaNaturale
  <2> QED BY <1>2, <1>8, <1>9, <2>1, <2>2
<1> QED BY <1>10, <1>11

\* A sum can be made in two parts.
LEMMA SommaUnione ==
  ASSUME NEW A, IsFiniteSet(A), NEW B, IsFiniteSet(B), NEW w, Naturale(w, A \cup B),
         A \cap B = {}
  PROVE  SommaSu(w, A \cup B) = SommaSu(w, A) + SommaSu(w, B)
<1> DEFINE T == {s \in SUBSET B : SommaSu(w, A \cup s) # SommaSu(w, A) + SommaSu(w, s)}
<1> SUFFICES ASSUME T # {} PROVE FALSE
  <2>1. B \in SUBSET B
    OBVIOUS
  <2> QED BY <2>1
<1>1. PICK s \in T : \A y \in T : y \subseteq s => y = s
  <2>1. T \in SUBSET SUBSET B
    OBVIOUS
  <2> HIDE DEF T
  <2> QED BY <2>1, SottoinsiemeMinimo
<1>2. s \in SUBSET B /\ SommaSu(w, A \cup s) # SommaSu(w, A) + SommaSu(w, s)
  OBVIOUS
<1>3. \A y \in SUBSET s : y # s => SommaSu(w, A \cup y) = SommaSu(w, A) + SommaSu(w, y)
  BY <1>1, <1>2
<1> HIDE DEF T
<1>4. IsFiniteSet(s) /\ IsFiniteSet(A \cup s)
  BY <1>2, FS_Subset, FS_Union
<1>5. Naturale(w, s) /\ Naturale(w, A \cup s) /\ Naturale(w, A)
  BY <1>2 DEF Naturale
<1>6. SommaSu(w, A) \in Nat
  BY <1>5, SommaNaturale
<1>7. s # {}
  <2>1. A \cup {} = A /\ SommaSu(w, {}) = 0
    BY SommaVuota
  <2> QED BY <1>2, <1>6, <2>1
<1>8. PICK p \in s : TRUE
  BY <1>7
<1>9. /\ SommaSu(w, s) = w[p] + SommaSu(w, s \ {p})
      /\ SommaSu(w, s \ {p}) \in Nat /\ w[p] \in Nat
  BY <1>4, <1>5, SommaTogli
<1>10. SommaSu(w, A \cup s) = w[p] + SommaSu(w, (A \cup s) \ {p})
  BY <1>4, <1>5, SommaTogli
<1>11. (A \cup s) \ {p} = A \cup (s \ {p})
  BY <1>2
<1>12. SommaSu(w, A \cup (s \ {p})) = SommaSu(w, A) + SommaSu(w, s \ {p})
  BY <1>3
<1>13. \A a, b, c \in Nat : a + (b + c) = b + (a + c)
  OBVIOUS
<1>14. SommaSu(w, A \cup s) = SommaSu(w, A) + SommaSu(w, s)
  BY <1>6, <1>9, <1>10, <1>11, <1>12, <1>13
<1> QED BY <1>2, <1>14

\* The sum of sums is the sum of all.
LEMMA SommaPiu ==
  ASSUME NEW S, IsFiniteSet(S), NEW u, NEW v, NEW w, Naturale(v, S), Naturale(w, S),
         \A x \in S : u[x] = v[x] + w[x]
  PROVE  SommaSu(u, S) = SommaSu(v, S) + SommaSu(w, S)
<1> DEFINE T == {s \in SUBSET S : SommaSu(u, s) # SommaSu(v, s) + SommaSu(w, s)}
<1> SUFFICES ASSUME T # {} PROVE FALSE
  <2>1. S \in SUBSET S
    OBVIOUS
  <2> QED BY <2>1
<1>1. PICK s \in T : \A y \in T : y \subseteq s => y = s
  <2>1. T \in SUBSET SUBSET S
    OBVIOUS
  <2> HIDE DEF T
  <2> QED BY <2>1, SottoinsiemeMinimo
<1>2. s \in SUBSET S /\ SommaSu(u, s) # SommaSu(v, s) + SommaSu(w, s)
  OBVIOUS
<1>3. \A y \in SUBSET s : y # s => SommaSu(u, y) = SommaSu(v, y) + SommaSu(w, y)
  BY <1>1, <1>2
<1> HIDE DEF T
<1>4. IsFiniteSet(s)
  BY <1>2, FS_Subset
<1>5. Naturale(u, s) /\ Naturale(v, s) /\ Naturale(w, s)
  BY <1>2 DEF Naturale
<1>6. s # {}
  <2>1. SommaSu(u, {}) = 0 /\ SommaSu(v, {}) = 0 /\ SommaSu(w, {}) = 0
    BY SommaVuota
  <2> QED BY <1>2, <2>1
<1>7. PICK p \in s : TRUE
  BY <1>6
<1>8. SommaSu(u, s) = u[p] + SommaSu(u, s \ {p})
  BY <1>4, <1>5, SommaTogli
<1>9. /\ SommaSu(v, s) = v[p] + SommaSu(v, s \ {p})
      /\ SommaSu(v, s \ {p}) \in Nat /\ v[p] \in Nat
  BY <1>4, <1>5, SommaTogli
<1>10. /\ SommaSu(w, s) = w[p] + SommaSu(w, s \ {p})
       /\ SommaSu(w, s \ {p}) \in Nat /\ w[p] \in Nat
  BY <1>4, <1>5, SommaTogli
<1>11. SommaSu(u, s \ {p}) = SommaSu(v, s \ {p}) + SommaSu(w, s \ {p})
  BY <1>3
<1>12. u[p] = v[p] + w[p]
  BY <1>2
<1>13. \A a, b, c, d \in Nat : (a + b) + (c + d) = (a + c) + (b + d)
  OBVIOUS
<1>14. SommaSu(u, s) = SommaSu(v, s) + SommaSu(w, s)
  BY <1>8, <1>9, <1>10, <1>11, <1>12, <1>13
<1> QED BY <1>2, <1>14

-----------------------------------------------------------------------------
(***************************************************************************)
(* Disjoint intervals in a window.                                         *)
(***************************************************************************)
\* A non-empty finite set has an element of largest weight.
LEMMA PesoMassimo ==
  ASSUME NEW S, IsFiniteSet(S), S # {}, NEW w, Naturale(w, S)
  PROVE  \E x \in S : \A y \in S : w[y] <= w[x]
<1> DEFINE T == {s \in SUBSET S : s # {} /\ ~ \E x \in s : \A y \in s : w[y] <= w[x]}
<1> SUFFICES ASSUME T # {} PROVE FALSE
  OBVIOUS
<1>1. PICK s \in T : \A y \in T : y \subseteq s => y = s
  <2>1. T \in SUBSET SUBSET S
    OBVIOUS
  <2> HIDE DEF T
  <2> QED BY <2>1, SottoinsiemeMinimo
<1>2. s \in SUBSET S /\ s # {} /\ ~ \E x \in s : \A y \in s : w[y] <= w[x]
  OBVIOUS
<1>3. PICK p \in s : TRUE
  BY <1>2
<1>4. s \ {p} = {} \/ \E x \in s \ {p} : \A y \in s \ {p} : w[y] <= w[x]
  <2>1. s \ {p} \in SUBSET S /\ s \ {p} \subseteq s /\ s \ {p} # s
    BY <1>2, <1>3
  <2>2. s \ {p} \notin T
    <3> HIDE DEF T
    <3> QED BY <1>1, <2>1
  <2>3. \A r \in SUBSET S : r \notin T => r = {} \/ \E x \in r : \A y \in r : w[y] <= w[x]
    OBVIOUS
  <2> HIDE DEF T
  <2> QED BY <2>1, <2>2, <2>3
<1> HIDE DEF T
<1>5. \A x \in s : w[x] \in Nat
  BY <1>2 DEF Naturale
<1>6. CASE s \ {p} = {}
  <2>1. \A y \in s : w[y] <= w[p]
    BY <1>5, <1>6
  <2> QED BY <1>2, <2>1
<1>7. CASE \E x \in s \ {p} : \A y \in s \ {p} : w[y] <= w[x]
  <2>1. PICK x \in s \ {p} : \A y \in s \ {p} : w[y] <= w[x]
    BY <1>7
  <2>2. CASE w[p] <= w[x]
    BY <1>2, <2>1, <2>2
  <2>3. CASE w[x] <= w[p]
    <3>1. \A y \in s : w[y] <= w[p]
      BY <1>5, <2>1, <2>3
    <3> QED BY <1>2, <3>1
  <2> QED BY <1>5, <2>2, <2>3
<1> QED BY <1>4, <1>6, <1>7

\* Intervals [a, b) of length q that do not overlap and lie in the window
\* [A, B) are together no longer than the window.
LEMMA IntervalliDisgiunti ==
  ASSUME NEW S, IsFiniteSet(S), NEW A \in Nat, NEW B \in Nat, A <= B,
         NEW a, NEW b, NEW q, Naturale(a, S), Naturale(b, S), Naturale(q, S),
         \A x \in S : q[x] # 0 => A <= a[x] /\ b[x] <= B /\ b[x] = a[x] + q[x],
         \A x, y \in S : x # y /\ q[x] # 0 /\ q[y] # 0 => b[x] <= a[y] \/ b[y] <= a[x]
  PROVE  SommaSu(q, S) <= B - A
<1> DEFINE T == {s \in SUBSET S :
                   \E C \in Nat : /\ A <= C /\ \A x \in s : q[x] # 0 => b[x] <= C
                                  /\ ~ (SommaSu(q, s) <= C - A)}
<1> SUFFICES ASSUME T # {} PROVE FALSE
  <2>1. S \in SUBSET S
    OBVIOUS
  <2> QED BY <2>1
<1>1. PICK s \in T : \A y \in T : y \subseteq s => y = s
  <2>1. T \in SUBSET SUBSET S
    OBVIOUS
  <2> HIDE DEF T
  <2> QED BY <2>1, SottoinsiemeMinimo
<1>2. PICK C \in Nat : /\ A <= C /\ \A x \in s : q[x] # 0 => b[x] <= C
                       /\ ~ (SommaSu(q, s) <= C - A)
  OBVIOUS
<1>3. ASSUME NEW y \in SUBSET s, y # s, NEW D \in Nat, A <= D,
             \A x \in y : q[x] # 0 => b[x] <= D
      PROVE  SommaSu(q, y) <= D - A
  BY <1>1, <1>3
<1>4. s \in SUBSET S
  OBVIOUS
<1> HIDE DEF T
<1>5. IsFiniteSet(s) /\ Naturale(q, s) /\ Naturale(a, s)
  BY <1>4, FS_Subset DEF Naturale
<1>6. s # {}
  <2>1. 0 <= C - A
    BY <1>2
  <2> QED BY <1>2, <2>1, SommaVuota
<1>7. \A p \in s : /\ SommaSu(q, s) = q[p] + SommaSu(q, s \ {p})
                   /\ SommaSu(q, s \ {p}) \in Nat /\ q[p] \in Nat
  BY <1>5, SommaTogli
<1>8. CASE \E p \in s : q[p] = 0
  <2>1. PICK p \in s : q[p] = 0
    BY <1>8
  <2>2. SommaSu(q, s \ {p}) <= C - A
    BY <1>2, <1>3
  <2>3. SommaSu(q, s) = SommaSu(q, s \ {p})
    BY <1>7, <2>1
  <2> QED BY <1>2, <2>2, <2>3
<1>9. CASE \A p \in s : q[p] # 0
  <2>1. PICK p \in s : \A y \in s : a[y] <= a[p]
    BY <1>5, <1>6, PesoMassimo
  <2>2. /\ a[p] \in Nat /\ A <= a[p] /\ b[p] <= C /\ b[p] = a[p] + q[p] /\ q[p] \in Nat
        /\ q[p] # 0
    BY <1>2, <1>4, <1>9 DEF Naturale
  <2>3. ASSUME NEW y \in s \ {p} PROVE b[y] <= a[p]
    <3>1. b[y] <= a[p] \/ b[p] <= a[y]
      BY <1>4, <1>9
    <3>2. a[y] <= a[p] /\ a[y] \in Nat
      BY <1>4, <2>1 DEF Naturale
    <3> QED BY <2>2, <3>1, <3>2
  <2>4. SommaSu(q, s \ {p}) <= a[p] - A
    BY <1>3, <2>2, <2>3
  <2>5. SommaSu(q, s) = q[p] + SommaSu(q, s \ {p}) /\ SommaSu(q, s \ {p}) \in Nat
    BY <1>7
  <2> HIDE DEF T
  <2>6. SommaSu(q, s) <= C - A
    BY <2>2, <2>4, <2>5
  <2> QED BY <1>2, <2>6
<1> QED BY <1>8, <1>9

\* Zeros sum to zero.
LEMMA SommaZeri ==
  ASSUME NEW S, IsFiniteSet(S), NEW w, \A x \in S : w[x] = 0
  PROVE  SommaSu(w, S) = 0
<1>1. Naturale(w, S)
  BY DEF Naturale
<1>2. SommaSu(w, S) \in Nat
  BY <1>1, SommaNaturale
<1>3. /\ \A x \in S : w[x] # 0 => 0 <= w[x] /\ w[x] <= 0 /\ w[x] = w[x] + w[x]
      /\ \A x, y \in S : x # y /\ w[x] # 0 /\ w[y] # 0 => w[x] <= w[y] \/ w[y] <= w[x]
      /\ 0 \in Nat /\ 0 <= 0
  OBVIOUS
<1>4. SommaSu(w, S) <= 0 - 0
  BY <1>1, <1>3, IntervalliDisgiunti
<1> QED BY <1>2, <1>4

\* Setting one weight to zero takes it off the sum.
LEMMA SommaAzzerata ==
  ASSUME NEW S, IsFiniteSet(S), NEW w, Naturale(w, S), NEW p \in S,
         NEW v, \A x \in S : v[x] = IF x = p THEN 0 ELSE w[x]
  PROVE  /\ SommaSu(w, S) = w[p] + SommaSu(v, S)
         /\ SommaSu(v, S) \in Nat /\ w[p] \in Nat
<1>1. Naturale(v, S)
  BY DEF Naturale
<1>2. SommaSu(w, S) = w[p] + SommaSu(w, S \ {p}) /\ w[p] \in Nat
  BY SommaTogli
<1>3. SommaSu(v, S) = v[p] + SommaSu(v, S \ {p}) /\ SommaSu(v, S \ {p}) \in Nat
  BY <1>1, SommaTogli
<1>4. SommaSu(v, S \ {p}) = SommaSu(w, S \ {p})
  <2>1. IsFiniteSet(S \ {p}) /\ \A x \in S \ {p} : v[x] = w[x]
    BY FS_RemoveElement
  <2> QED BY <2>1, SommaUguale
<1>5. v[p] = 0
  OBVIOUS
<1> QED BY <1>2, <1>3, <1>4, <1>5

-----------------------------------------------------------------------------
(***************************************************************************)
(* Intervals laid end to end.                                              *)
(***************************************************************************)
\* R orders S, first to last.
InFila(R, S) ==
  /\ \A p \in S : <<p, p>> \notin R
  /\ \A p, q \in S : p # q => <<p, q>> \in R \/ <<q, p>> \in R
  /\ \A p, q, r \in S : <<p, q>> \in R /\ <<q, r>> \in R => <<p, r>> \in R

\* Each element of S begins where those before it end.
Accodati(R, S, w, i) ==
  \A p \in S : i[p] = SommaSu(w, {q \in S : <<q, p>> \in R})

\* What [a, a + l] has below x, and above x up to y.
Fino(a, l, x) == Massimo(0, Minimo(a + l, x) - a)
Fra(a, l, x, y) == Massimo(0, Minimo(a + l, y) - Massimo(a, x))

\* A finite row has a last element.
LEMMA UltimoEsiste ==
  ASSUME NEW S, IsFiniteSet(S), S # {}, NEW R, InFila(R, S)
  PROVE  \E m \in S : \A p \in S \ {m} : <<p, m>> \in R
<1> DEFINE Ultimo(s, m) == m \in s /\ \A p \in s \ {m} : <<p, m>> \in R
           T == {s \in SUBSET S : s # {} /\ ~ \E m \in s : Ultimo(s, m)}
<1> SUFFICES ASSUME T # {} PROVE FALSE
  <2>1. S \in SUBSET S
    OBVIOUS
  <2> QED BY <2>1
<1>1. PICK s \in T : \A y \in T : y \subseteq s => y = s
  <2>1. T \in SUBSET SUBSET S
    OBVIOUS
  <2> HIDE DEF T
  <2> QED BY <2>1, SottoinsiemeMinimo
<1>2. s \in SUBSET S /\ s # {} /\ ~ \E m \in s : Ultimo(s, m)
  OBVIOUS
<1>3. PICK p \in s : TRUE
  BY <1>2
<1>4. CASE s = {p}
  BY <1>2, <1>4
<1>5. CASE s # {p}
  <2>1. s \ {p} \in SUBSET S /\ s \ {p} # {} /\ s \ {p} # s
    BY <1>2, <1>3, <1>5
  <2>2. PICK m \in s \ {p} : Ultimo(s \ {p}, m)
    BY <1>1, <2>1
  <2>3. \A q \in s \ {p, m} : <<q, m>> \in R
    BY <2>2
  <2>4. CASE <<p, m>> \in R
    <3>1. Ultimo(s, m)
      BY <2>2, <2>3, <2>4
    <3> QED BY <1>2, <3>1
  <2>5. CASE <<m, p>> \in R
    <3>1. \A q \in s \ {p} : <<q, p>> \in R
      BY <1>2, <2>2, <2>3, <2>5 DEF InFila
    <3> QED BY <1>2, <3>1
  <2> QED BY <1>2, <2>2, <2>4, <2>5 DEF InFila
<1> QED BY <1>4, <1>5

\* A row of intervals covers all that is below x and within its length.
LEMMA FilaCopre ==
  ASSUME NEW S, IsFiniteSet(S), NEW R, InFila(R, S), NEW w, Naturale(w, S),
         NEW i, Accodati(R, S, w, i), NEW x \in Nat,
         NEW c, \A p \in S : c[p] = Fino(i[p], w[p], x)
  PROVE  SommaSu(c, S) = Minimo(x, SommaSu(w, S))
<1> DEFINE Iniziale(s) == \A p \in s, q \in S : <<q, p>> \in R => q \in s
           T == {s \in SUBSET S : Iniziale(s) /\ SommaSu(c, s) # Minimo(x, SommaSu(w, s))}
<1> SUFFICES ASSUME T # {} PROVE FALSE
  <2>1. S \in SUBSET S /\ Iniziale(S)
    OBVIOUS
  <2> QED BY <2>1
<1>1. PICK s \in T : \A y \in T : y \subseteq s => y = s
  <2>1. T \in SUBSET SUBSET S
    OBVIOUS
  <2> HIDE DEF T
  <2> QED BY <2>1, SottoinsiemeMinimo
<1>2. s \in SUBSET S /\ Iniziale(s) /\ SommaSu(c, s) # Minimo(x, SommaSu(w, s))
  OBVIOUS
<1>3. \A y \in SUBSET s : y # s /\ Iniziale(y) => SommaSu(c, y) = Minimo(x, SommaSu(w, y))
  BY <1>1, <1>2
<1> HIDE DEF T
<1>4. IsFiniteSet(s)
  BY <1>2, FS_Subset
<1>5. s # {}
  <2>1. SommaSu(c, {}) = 0 /\ SommaSu(w, {}) = 0
    BY SommaVuota
  <2> QED BY <1>2, <2>1 DEF Minimo
<1>6. PICK m \in s : \A p \in s \ {m} : <<p, m>> \in R
  <2>1. InFila(R, s)
    BY <1>2 DEF InFila
  <2> QED BY <1>4, <1>5, <2>1, UltimoEsiste
<1> DEFINE r == s \ {m}
<1>7. {q \in S : <<q, m>> \in R} = r
  BY <1>2, <1>6 DEF InFila
<1>8. Iniziale(r)
  BY <1>2, <1>6 DEF InFila
<1>9. \A p \in S : i[p] \in Nat /\ w[p] \in Nat /\ c[p] \in Nat
  <2> SUFFICES ASSUME NEW p \in S PROVE i[p] \in Nat /\ w[p] \in Nat /\ c[p] \in Nat
    OBVIOUS
  <2> DEFINE P == {q \in S : <<q, p>> \in R}
  <2>1. IsFiniteSet(P) /\ Naturale(w, P)
    BY FS_Subset DEF Naturale
  <2>2. i[p] = SommaSu(w, P)
    BY DEF Accodati
  <2> HIDE DEF P
  <2>3. i[p] \in Nat /\ w[p] \in Nat
    BY <2>1, <2>2, SommaNaturale DEF Naturale
  <2> QED BY <2>3 DEF Fino, Massimo, Minimo
<1>10. Naturale(w, s) /\ Naturale(c, s) /\ Naturale(w, r) /\ IsFiniteSet(r)
  BY <1>2, <1>4, <1>9, FS_RemoveElement DEF Naturale
<1>11. SommaSu(w, s) = w[m] + SommaSu(w, r) /\ SommaSu(c, s) = c[m] + SommaSu(c, r)
  BY <1>4, <1>10, SommaTogli
<1>12. SommaSu(c, r) = Minimo(x, SommaSu(w, r))
  BY <1>3, <1>6, <1>8
<1>13. i[m] = SommaSu(w, r) /\ SommaSu(w, r) \in Nat
  BY <1>2, <1>7, <1>10, SommaNaturale DEF Accodati
<1>14. c[m] = Fino(i[m], w[m], x) /\ i[m] \in Nat /\ w[m] \in Nat
  BY <1>2, <1>9
<1>15. \A a, l \in Nat : Fino(a, l, x) + Minimo(x, a) = Minimo(x, l + a)
  BY DEF Fino, Massimo, Minimo
<1> HIDE DEF r
<1>16. SommaSu(c, s) = Minimo(x, SommaSu(w, s))
  BY <1>11, <1>12, <1>13, <1>14, <1>15
<1> QED BY <1>2, <1>16

\* Of a window it covers what is within its length.
LEMMA FilaCopreFinestra ==
  ASSUME NEW S, IsFiniteSet(S), NEW R, InFila(R, S), NEW w, Naturale(w, S),
         NEW i, Accodati(R, S, w, i), \A p \in S : i[p] \in Nat,
         NEW x \in Nat, NEW y \in Nat, x <= y,
         NEW o, \A p \in S : o[p] = Fra(i[p], w[p], x, y)
  PROVE  SommaSu(o, S) = Minimo(y, SommaSu(w, S)) - Minimo(x, SommaSu(w, S))
<1> DEFINE c(z) == [p \in S |-> Fino(i[p], w[p], z)]
<1>1. \A a, l \in Nat : /\ Fino(a, l, y) = Fra(a, l, x, y) + Fino(a, l, x)
                        /\ Fra(a, l, x, y) \in Nat /\ Fino(a, l, x) \in Nat
  BY DEF Fino, Fra, Massimo, Minimo
<1>2. /\ \A p \in S : c(y)[p] = o[p] + c(x)[p]
      /\ Naturale(o, S) /\ Naturale(c(x), S)
  BY <1>1 DEF Naturale
<1>3. SommaSu(c(x), S) = Minimo(x, SommaSu(w, S)) /\ SommaSu(c(y), S) = Minimo(y, SommaSu(w, S))
  <2>1. \A p \in S : c(x)[p] = Fino(i[p], w[p], x) /\ c(y)[p] = Fino(i[p], w[p], y)
    OBVIOUS
  <2> HIDE DEF c
  <2> QED BY <2>1, FilaCopre
<1> HIDE DEF c
<1>4. SommaSu(c(y), S) = SommaSu(o, S) + SommaSu(c(x), S)
  BY <1>2, SommaPiu
<1>5. SommaSu(o, S) \in Nat /\ SommaSu(c(x), S) \in Nat
  BY <1>2, SommaNaturale
<1> QED BY <1>3, <1>4, <1>5

-----------------------------------------------------------------------------
(***************************************************************************)
(* The reconciler (providers.py, MockRiconciliatore).                      *)
(***************************************************************************)
\* The loop over the invoices of a debtor has an order.
Ordinate ==
  /\ IsFiniteSet(Fatture) /\ IsFiniteSet(Movimenti)
  /\ Scadenza \in [Fatture -> Nat] /\ Numero \in [Fatture -> Nat]
  /\ \A f, g \in Fatture :
       f # g /\ Debitore[f] = Debitore[g] => PrimaInScadenza(f, g) \/ PrimaInScadenza(g, f)

\* An invoice is served where the ones before it end.
LEMMA InizioOrdinato ==
  ASSUME Ordinate, NEW residuo \in [Fatture -> Nat], NEW f \in Fatture, NEW g \in Fatture,
         Debitore[f] = Debitore[g], PrimaInScadenza(f, g)
  PROVE  InizioFattura(residuo, f) + residuo[f] <= InizioFattura(residuo, g)
<1> DEFINE F(h) == {k \in Fatture : Debitore[k] = Debitore[h] /\ PrimaInScadenza(k, h)}
<1>1. IsFiniteSet(F(f)) /\ IsFiniteSet(F(g))
  BY FS_Subset DEF Ordinate
<1>2. f \notin F(f)
  BY DEF PrimaInScadenza, Ordinate
<1>3. F(f) \cup {f} \subseteq F(g)
  <2>1. \A k \in Fatture : PrimaInScadenza(k, f) => PrimaInScadenza(k, g)
    BY DEF PrimaInScadenza, Ordinate
  <2> QED BY <2>1
<1>4. Naturale(residuo, F(f) \cup {f}) /\ Naturale(residuo, F(g))
  BY DEF Naturale
<1>5. InizioFattura(residuo, f) = SommaSu(residuo, F(f))
      /\ InizioFattura(residuo, g) = SommaSu(residuo, F(g))
  BY DEF InizioFattura
<1> HIDE DEF F
<1>6. SommaSu(residuo, F(f) \cup {f}) = residuo[f] + SommaSu(residuo, F(f))
  BY <1>1, <1>2, <1>4, SommaAggiungi
<1>7. SommaSu(residuo, F(f) \cup {f}) <= SommaSu(residuo, F(g))
  <2>1. \A x \in F(f) \cup {f} : residuo[x] <= residuo[x]
    BY <1>4 DEF Naturale
  <2> QED BY <1>1, <1>3, <1>4, <2>1, SommaMonotona
<1>8. SommaSu(residuo, F(f)) \in Nat /\ residuo[f] \in Nat
  <2>1. Naturale(residuo, F(f))
    BY <1>4 DEF Naturale
  <2> QED BY <1>1, <2>1, SommaNaturale
<1> QED BY <1>5, <1>6, <1>7, <1>8

\* Of one movement the reconciler gives to all the invoices together no more
\* than the movement has.
THEOREM QuoteEntroIlDisponibile ==
  ASSUME Ordinate, NEW residuo \in [Fatture -> Nat], NEW disponibile \in [Movimenti -> Nat],
         NEW m \in Movimenti
  PROVE  /\ \A f \in Fatture : Quota(residuo, disponibile, m, f) \in Nat
         /\ SommaSu([f \in Fatture |-> Quota(residuo, disponibile, m, f)], Fatture)
              <= disponibile[m]
<1> DEFINE A == InizioMovimento(disponibile, m)
           B == A + disponibile[m]
           I(f) == InizioFattura(residuo, f)
           a == [f \in Fatture |-> Massimo(I(f), A)]
           b == [f \in Fatture |-> Minimo(I(f) + residuo[f], B)]
           q == [f \in Fatture |-> Quota(residuo, disponibile, m, f)]
<1>1. A \in Nat /\ B \in Nat /\ disponibile[m] \in Nat
  <2> DEFINE M == {n \in Movimenti : Mittente[n] = Mittente[m] /\ Posto[n] < Posto[m]}
  <2>1. IsFiniteSet(M) /\ Naturale(disponibile, M)
    BY FS_Subset DEF Ordinate, Naturale
  <2>2. SommaSu(disponibile, M) \in Nat
    <3> HIDE DEF M
    <3> QED BY <2>1, SommaNaturale
  <2>3. A \in Nat
    BY <2>2 DEF InizioMovimento
  <2> QED BY <2>3
<1>2. ASSUME NEW f \in Fatture PROVE I(f) \in Nat
  <2> DEFINE F == {k \in Fatture : Debitore[k] = Debitore[f] /\ PrimaInScadenza(k, f)}
  <2>1. IsFiniteSet(F) /\ Naturale(residuo, F)
    BY FS_Subset DEF Ordinate, Naturale
  <2>2. SommaSu(residuo, F) \in Nat
    <3> HIDE DEF F
    <3> QED BY <2>1, SommaNaturale
  <2> QED BY <2>2 DEF InizioFattura
<1>3. ASSUME NEW f \in Fatture
      PROVE  q[f] = IF Mittente[m] # Debitore[f] THEN 0 ELSE Massimo(0, b[f] - a[f])
  BY DEF Quota
<1>4. \A f \in Fatture, g \in Fatture :
        Debitore[f] = Debitore[g] /\ PrimaInScadenza(f, g) => I(f) + residuo[f] <= I(g)
  BY InizioOrdinato
<1> HIDE DEF A, I, q
<1>5. ASSUME NEW f \in Fatture
      PROVE  /\ a[f] \in Nat /\ b[f] \in Nat /\ q[f] \in Nat
             /\ A <= a[f] /\ I(f) <= a[f] /\ b[f] <= B /\ b[f] <= I(f) + residuo[f]
             /\ q[f] # 0 => b[f] = a[f] + q[f] /\ Debitore[f] = Mittente[m]
  BY <1>1, <1>2, <1>3 DEF Massimo, Minimo
<1>6. ASSUME NEW f \in Fatture, NEW g \in Fatture, f # g, q[f] # 0, q[g] # 0
      PROVE  b[f] <= a[g] \/ b[g] <= a[f]
  <2>1. Debitore[f] = Debitore[g]
    BY <1>5, <1>6
  <2>2. I(f) + residuo[f] <= I(g) \/ I(g) + residuo[g] <= I(f)
    BY <1>4, <1>6, <2>1 DEF Ordinate
  <2>3. /\ b[f] <= I(f) + residuo[f] /\ I(g) <= a[g] /\ b[g] <= I(g) + residuo[g] /\ I(f) <= a[f]
        /\ a[f] \in Nat /\ b[f] \in Nat /\ a[g] \in Nat /\ b[g] \in Nat
    BY <1>5
  <2>4. I(f) \in Nat /\ I(g) \in Nat /\ residuo[f] \in Nat /\ residuo[g] \in Nat
    BY <1>2
  <2> HIDE DEF a, b
  <2> QED BY <2>2, <2>3, <2>4
<1>7. Naturale(a, Fatture) /\ Naturale(b, Fatture) /\ Naturale(q, Fatture)
  BY <1>5 DEF Naturale
<1>8. A <= B /\ B - A = disponibile[m]
  BY <1>1
<1> HIDE DEF a, b, B
<1>9. SommaSu(q, Fatture) <= B - A
  BY <1>1, <1>5, <1>6, <1>7, <1>8, IntervalliDisgiunti DEF Ordinate
<1>10. \A f \in Fatture : Quota(residuo, disponibile, m, f) \in Nat
  BY <1>5 DEF q
<1> QED BY <1>8, <1>9, <1>10 DEF q

\* A movement has a place of its own in the list.
InLista ==
  /\ Posto \in [Movimenti -> Nat]
  /\ \A m, n \in Movimenti : m # n => Posto[m] # Posto[n]

\* What the debtors owe and what they paid.
Dovuto(residuo, cliente) == SommaSu(residuo, {f \in Fatture : Debitore[f] = cliente})
Pagato(disponibile, cliente) == SommaSu(disponibile, {m \in Movimenti : Mittente[m] = cliente})

\* Of a movement is given what is due within it.
LEMMA QuoteDelMovimento ==
  ASSUME Ordinate, NEW residuo \in [Fatture -> Nat], NEW disponibile \in [Movimenti -> Nat],
         NEW m \in Movimenti, NEW R, R = Dovuto(residuo, Mittente[m]),
         NEW A, A = InizioMovimento(disponibile, m),
         NEW q, \A f \in Fatture : q[f] = Quota(residuo, disponibile, m, f)
  PROVE  /\ A \in Nat /\ R \in Nat
         /\ SommaSu(q, Fatture) = Minimo(A + disponibile[m], R) - Minimo(A, R)
<1> DEFINE S == {f \in Fatture : Debitore[f] = Mittente[m]}
           P == {p \in Fatture \X Fatture : PrimaInScadenza(p[1], p[2])}
           i == [f \in Fatture |-> InizioFattura(residuo, f)]
           B == A + disponibile[m]
<1>1. S \in SUBSET Fatture /\ IsFiniteSet(S) /\ IsFiniteSet(Fatture \ S) /\ Naturale(residuo, S)
  BY FS_Subset DEF Ordinate, Naturale
<1>2. A \in Nat /\ B \in Nat /\ A <= B
  <2> DEFINE M == {n \in Movimenti : Mittente[n] = Mittente[m] /\ Posto[n] < Posto[m]}
  <2>1. IsFiniteSet(M) /\ Naturale(disponibile, M) /\ disponibile[m] \in Nat
    BY FS_Subset DEF Ordinate, Naturale
  <2>2. A = SommaSu(disponibile, M)
    BY DEF InizioMovimento
  <2> HIDE DEF M
  <2>3. A \in Nat
    BY <2>1, <2>2, SommaNaturale
  <2> QED BY <2>1, <2>3
<1>3. \A f, g \in Fatture : <<f, g>> \in P <=> PrimaInScadenza(f, g)
  OBVIOUS
<1>4. InFila(P, S)
  <2> HIDE DEF P
  <2> QED BY <1>3 DEF InFila, PrimaInScadenza, Ordinate
<1>5. Accodati(P, S, residuo, i)
  <2> SUFFICES ASSUME NEW f \in S PROVE i[f] = SommaSu(residuo, {g \in S : <<g, f>> \in P})
    BY DEF Accodati
  <2>1. {g \in S : <<g, f>> \in P}
          = {g \in Fatture : Debitore[g] = Debitore[f] /\ PrimaInScadenza(g, f)}
    OBVIOUS
  <2> QED BY <2>1 DEF InizioFattura
<1>6. \A f \in S : i[f] \in Nat
  <2> SUFFICES ASSUME NEW f \in S PROVE i[f] \in Nat
    OBVIOUS
  <2> DEFINE F == {g \in S : <<g, f>> \in P}
  <2>1. i[f] = SommaSu(residuo, F)
    BY <1>5 DEF Accodati
  <2>2. IsFiniteSet(F) /\ Naturale(residuo, F)
    BY <1>1, FS_Subset DEF Naturale
  <2> HIDE DEF F, i
  <2> QED BY <2>1, <2>2, SommaNaturale
<1>7. \A f \in S : q[f] = Fra(i[f], residuo[f], A, B)
  BY DEF Quota, Fra
<1>8. \A f \in Fatture \ S : q[f] = 0
  BY DEF Quota
<1> HIDE DEF P, i
<1>9. R \in Nat /\ R = SommaSu(residuo, S)
  BY <1>1, SommaNaturale DEF Dovuto
<1> HIDE DEF S, B
<1>10. SommaSu(q, S) = Minimo(B, R) - Minimo(A, R)
  <2>1. SommaSu(q, S) = Minimo(B, SommaSu(residuo, S)) - Minimo(A, SommaSu(residuo, S))
    BY <1>1, <1>2, <1>4, <1>5, <1>6, <1>7, FilaCopreFinestra
  <2> QED BY <1>9, <2>1
<1>11. SommaSu(q, Fatture) = SommaSu(q, S)
  <2>1. Naturale(q, S)
    BY <1>2, <1>6, <1>7, <1>1 DEF Naturale, Fra, Massimo, Minimo
  <2>2. Fatture = S \cup (Fatture \ S) /\ S \cap (Fatture \ S) = {} /\ Naturale(q, S \cup (Fatture \ S))
    BY <1>1, <1>8, <2>1 DEF Naturale
  <2>3. SommaSu(q, Fatture \ S) = 0
    BY <1>1, <1>8, SommaZeri
  <2>4. SommaSu(q, S) \in Nat
    BY <1>1, <2>1, SommaNaturale
  <2>5. SommaSu(q, S \cup (Fatture \ S)) = SommaSu(q, S) + SommaSu(q, Fatture \ S)
    BY <1>1, <2>2, SommaUnione
  <2>6. S \cup (Fatture \ S) = Fatture
    BY <2>2
  <2>7. \A x \in Nat : x + 0 = x
    OBVIOUS
  <2> QED BY <2>3, <2>4, <2>5, <2>6, <2>7
<1> QED BY <1>2, <1>9, <1>10, <1>11 DEF B

\* An invoice is given what was paid within it.
LEMMA QuoteDellaFattura ==
  ASSUME Ordinate, InLista,
         NEW residuo \in [Fatture -> Nat], NEW disponibile \in [Movimenti -> Nat],
         NEW f \in Fatture, NEW D, D = Pagato(disponibile, Debitore[f]),
         NEW I, I = InizioFattura(residuo, f),
         NEW q, \A m \in Movimenti : q[m] = Quota(residuo, disponibile, m, f)
  PROVE  /\ I \in Nat /\ D \in Nat
         /\ SommaSu(q, Movimenti) = Minimo(I + residuo[f], D) - Minimo(I, D)
<1> DEFINE S == {m \in Movimenti : Mittente[m] = Debitore[f]}
           P == {p \in Movimenti \X Movimenti : Posto[p[1]] < Posto[p[2]]}
           i == [m \in Movimenti |-> InizioMovimento(disponibile, m)]
           E == I + residuo[f]
<1>1. S \in SUBSET Movimenti /\ IsFiniteSet(S) /\ IsFiniteSet(Movimenti \ S)
      /\ Naturale(disponibile, S)
  BY FS_Subset DEF Ordinate, Naturale
<1>2. I \in Nat /\ E \in Nat /\ I <= E
  <2> DEFINE F == {g \in Fatture : Debitore[g] = Debitore[f] /\ PrimaInScadenza(g, f)}
  <2>1. IsFiniteSet(F) /\ Naturale(residuo, F) /\ residuo[f] \in Nat
    BY FS_Subset DEF Ordinate, Naturale
  <2>2. I = SommaSu(residuo, F)
    BY DEF InizioFattura
  <2> HIDE DEF F
  <2>3. I \in Nat
    BY <2>1, <2>2, SommaNaturale
  <2> QED BY <2>1, <2>3
<1>3. \A m, n \in Movimenti : <<m, n>> \in P <=> Posto[m] < Posto[n]
  OBVIOUS
<1>4. InFila(P, S)
  <2>1. \A m \in Movimenti : Posto[m] \in Nat
    BY DEF InLista
  <2> HIDE DEF P
  <2> QED BY <1>1, <1>3, <2>1 DEF InFila, InLista
<1>5. Accodati(P, S, disponibile, i)
  <2> SUFFICES ASSUME NEW m \in S
               PROVE  i[m] = SommaSu(disponibile, {n \in S : <<n, m>> \in P})
    BY DEF Accodati
  <2>1. {n \in S : <<n, m>> \in P}
          = {n \in Movimenti : Mittente[n] = Mittente[m] /\ Posto[n] < Posto[m]}
    OBVIOUS
  <2> QED BY <2>1 DEF InizioMovimento
<1>6. \A m \in S : i[m] \in Nat
  <2> SUFFICES ASSUME NEW m \in S PROVE i[m] \in Nat
    OBVIOUS
  <2> DEFINE M == {n \in S : <<n, m>> \in P}
  <2>1. i[m] = SommaSu(disponibile, M)
    BY <1>5 DEF Accodati
  <2>2. IsFiniteSet(M) /\ Naturale(disponibile, M)
    BY <1>1, FS_Subset DEF Naturale
  <2> HIDE DEF M, i
  <2> QED BY <2>1, <2>2, SommaNaturale
<1>7. \A m \in S : q[m] = Fra(i[m], disponibile[m], I, E)
  <2> SUFFICES ASSUME NEW m \in S PROVE q[m] = Fra(i[m], disponibile[m], I, E)
    OBVIOUS
  <2>1. q[m] = Massimo(0, Minimo(E, i[m] + disponibile[m]) - Massimo(I, i[m]))
    BY DEF Quota
  <2>2. i[m] \in Nat /\ disponibile[m] \in Nat
    BY <1>6
  <2> HIDE DEF i, E
  <2> QED BY <1>2, <2>1, <2>2 DEF Fra, Massimo, Minimo
<1>8. \A m \in Movimenti \ S : q[m] = 0
  BY DEF Quota
<1> HIDE DEF P, i
<1>9. D \in Nat /\ D = SommaSu(disponibile, S)
  BY <1>1, SommaNaturale DEF Pagato
<1> HIDE DEF S, E
<1>10. SommaSu(q, S) = Minimo(E, D) - Minimo(I, D)
  <2>1. SommaSu(q, S) = Minimo(E, SommaSu(disponibile, S)) - Minimo(I, SommaSu(disponibile, S))
    BY <1>1, <1>2, <1>4, <1>5, <1>6, <1>7, FilaCopreFinestra
  <2> QED BY <1>9, <2>1
<1>11. SommaSu(q, Movimenti) = SommaSu(q, S)
  <2>1. Naturale(q, S)
    <3> SUFFICES ASSUME NEW n \in S PROVE q[n] \in Nat
      BY DEF Naturale
    <3>1. q[n] = Fra(i[n], disponibile[n], I, E) /\ i[n] \in Nat /\ disponibile[n] \in Nat
      BY <1>1, <1>6, <1>7
    <3>2. \A x, l \in Nat : Fra(x, l, I, E) \in Nat
      BY <1>2 DEF Fra, Massimo, Minimo
    <3> QED BY <3>1, <3>2
  <2>2. /\ Movimenti = S \cup (Movimenti \ S) /\ S \cap (Movimenti \ S) = {}
        /\ Naturale(q, S \cup (Movimenti \ S))
    BY <1>1, <1>8, <2>1 DEF Naturale
  <2>3. SommaSu(q, Movimenti \ S) = 0
    BY <1>1, <1>8, SommaZeri
  <2>4. SommaSu(q, S) \in Nat
    BY <1>1, <2>1, SommaNaturale
  <2>5. SommaSu(q, S \cup (Movimenti \ S)) = SommaSu(q, S) + SommaSu(q, Movimenti \ S)
    BY <1>1, <2>2, SommaUnione
  <2>6. S \cup (Movimenti \ S) = Movimenti
    BY <2>2
  <2>7. \A x \in Nat : x + 0 = x
    OBVIOUS
  <2> QED BY <2>3, <2>4, <2>5, <2>6, <2>7
<1> QED BY <1>2, <1>9, <1>10, <1>11 DEF E

\* The reconciler leaves of a debtor's movements nothing, or of the debtor's
\* invoices nothing: while one of the invoices is not covered, every movement
\* is given whole.
THEOREM NullaAvanza ==
  ASSUME Ordinate, InLista,
         NEW residuo \in [Fatture -> Nat], NEW disponibile \in [Movimenti -> Nat],
         NEW m \in Movimenti, NEW f \in Fatture, Mittente[m] = Debitore[f],
         residuo[f] > SommaSu([n \in Movimenti |-> Quota(residuo, disponibile, n, f)], Movimenti)
  PROVE  SommaSu([g \in Fatture |-> Quota(residuo, disponibile, m, g)], Fatture) = disponibile[m]
<1>1. PICK R, D, A, I, b, a :
        /\ R = Dovuto(residuo, Mittente[m]) /\ D = Pagato(disponibile, Debitore[f])
        /\ A = InizioMovimento(disponibile, m) /\ I = InizioFattura(residuo, f)
        /\ b = SommaSu([g \in Fatture |-> Quota(residuo, disponibile, m, g)], Fatture)
        /\ a = SommaSu([n \in Movimenti |-> Quota(residuo, disponibile, n, f)], Movimenti)
  OBVIOUS
<1>2. A \in Nat /\ R \in Nat /\ b = Minimo(A + disponibile[m], R) - Minimo(A, R)
  <2>1. PICK q : q = [g \in Fatture |-> Quota(residuo, disponibile, m, g)]
    OBVIOUS
  <2>2. \A g \in Fatture : q[g] = Quota(residuo, disponibile, m, g)
    BY <2>1
  <2>3. b = SommaSu(q, Fatture)
    BY <1>1, <2>1
  <2> QED BY <1>1, <2>2, <2>3, QuoteDelMovimento
<1>3. I \in Nat /\ D \in Nat /\ a = Minimo(I + residuo[f], D) - Minimo(I, D)
  <2>1. PICK q : q = [n \in Movimenti |-> Quota(residuo, disponibile, n, f)]
    OBVIOUS
  <2>2. \A n \in Movimenti : q[n] = Quota(residuo, disponibile, n, f)
    BY <2>1
  <2>3. a = SommaSu(q, Movimenti)
    BY <1>1, <2>1
  <2> QED BY <1>1, <2>2, <2>3, QuoteDellaFattura
<1>4. residuo[f] \in Nat /\ disponibile[m] \in Nat
  OBVIOUS
<1>5. I + residuo[f] <= R
  <2> DEFINE F == {g \in Fatture : Debitore[g] = Debitore[f] /\ PrimaInScadenza(g, f)}
             S == {g \in Fatture : Debitore[g] = Debitore[f]}
  <2>1. IsFiniteSet(F) /\ IsFiniteSet(S) /\ Naturale(residuo, F \cup {f}) /\ Naturale(residuo, S)
    BY FS_Subset DEF Ordinate, Naturale
  <2>2. F \cup {f} \in SUBSET S /\ f \notin F
    BY DEF Ordinate, PrimaInScadenza
  <2>3. I = SommaSu(residuo, F) /\ R = SommaSu(residuo, S)
    BY <1>1 DEF InizioFattura, Dovuto
  <2> HIDE DEF F, S
  <2>4. SommaSu(residuo, F \cup {f}) = residuo[f] + I
    BY <2>1, <2>2, <2>3, SommaAggiungi
  <2>5. \A g \in F \cup {f} : residuo[g] <= residuo[g]
    BY <2>1 DEF Naturale
  <2>6. SommaSu(residuo, F \cup {f}) <= R
    BY <2>1, <2>2, <2>3, <2>5, SommaMonotona
  <2> QED BY <1>3, <1>4, <2>4, <2>6
<1>6. A + disponibile[m] <= D
  <2> DEFINE M == {n \in Movimenti : Mittente[n] = Mittente[m] /\ Posto[n] < Posto[m]}
             S == {n \in Movimenti : Mittente[n] = Mittente[m]}
  <2>1. IsFiniteSet(M) /\ IsFiniteSet(S) /\ Naturale(disponibile, M \cup {m})
        /\ Naturale(disponibile, S)
    BY FS_Subset DEF Ordinate, Naturale
  <2>2. M \cup {m} \in SUBSET S /\ m \notin M
    BY DEF InLista
  <2>3. A = SommaSu(disponibile, M) /\ D = SommaSu(disponibile, S)
    BY <1>1 DEF InizioMovimento, Pagato
  <2> HIDE DEF M, S
  <2>4. SommaSu(disponibile, M \cup {m}) = disponibile[m] + A
    BY <2>1, <2>2, <2>3, SommaAggiungi
  <2>5. \A n \in M \cup {m} : disponibile[n] <= disponibile[n]
    BY <2>1 DEF Naturale
  <2>6. SommaSu(disponibile, M \cup {m}) <= D
    BY <2>1, <2>2, <2>3, <2>5, SommaMonotona
  <2> QED BY <1>2, <1>4, <2>4, <2>6
<1>7. D < I + residuo[f]
  <2>1. residuo[f] > a
    BY <1>1
  <2> QED BY <1>3, <1>4, <2>1 DEF Minimo
<1> QED BY <1>1, <1>2, <1>3, <1>4, <1>5, <1>6, <1>7 DEF Minimo
=============================================================================
