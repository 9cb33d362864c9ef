----------------------- MODULE ClientEnforcementProofs -----------------------
(***************************************************************************)
(* Proofs about ClientEnforcement and TrafficAccounting, for every set of  *)
(* clients, requests, quotas, expiries, connections and names, and every   *)
(* bound.                                                                  *)
(*                                                                         *)
(* The properties of the first are proved together, because they need each *)
(* other: the traffic of a row is bounded because it is what was metered,  *)
(* and an Update may write a row back because the copy it holds was        *)
(* consistent when it was read.                                            *)
(***************************************************************************)
EXTENDS ClientEnforcement, TrafficAccounting, FiniteSetTheorems, TLAPS

-----------------------------------------------------------------------------
(* Sums over finite sets.                                                  *)

\* What holds of a set whenever it holds of its proper subsets holds of all
\* subsets of a finite set.
LEMMA SubsetInduction ==
  ASSUME NEW S, IsFiniteSet(S), NEW G,
         \A s \in SUBSET S : (\A t \in SUBSET s : t # s => t \in G) => s \in G
  PROVE  \A s \in SUBSET S : s \in G
  <1> SUFFICES ASSUME (SUBSET S) \ G # {} PROVE FALSE
    OBVIOUS
  <1> DEFINE R == StrictSubsetOrdering(S)
             B == (SUBSET S) \ G
  <1>1. IsWellFoundedOn(R, FiniteSubsetsOf(S))
    BY FS_StrictSubsetOrderingWellFounded
  <1>2. FiniteSubsetsOf(S) = SUBSET S
    BY FS_FiniteSubsetsOfFinite
  <1>3. IsWellFoundedOn(R, SUBSET S)
    BY <1>1, <1>2
  <1>4. B \subseteq SUBSET S /\ B # {}
    OBVIOUS
  <1> HIDE DEF R, B
  <1>5. PICK m \in B : \A t \in B : <<t, m>> \notin R
    BY ONLY <1>3, <1>4, WFMin
  <1>6. m \in SUBSET S /\ m \notin G
    BY <1>5 DEF B
  <1>7. \A t \in SUBSET m : t # m => t \in G
    BY <1>5, <1>6 DEF B, R, StrictSubsetOrdering
  <1>8. QED
    BY <1>6, <1>7

Chosen(s) == CHOOSE x \in s : TRUE

\* g[s] is the sum of f over s, for each part s of S.
Folds(f, S, g) ==
  g = [s \in SUBSET S |->
         IF s = {} THEN 0 ELSE f[Chosen(s)] + g[s \ {Chosen(s)}]]

LEMMA SumIsFold ==
  ASSUME NEW f, NEW S
  PROVE  SumFunctionOnSet(f, S) = (CHOOSE g : Folds(f, S, g))[S]
  BY DEF SumFunctionOnSet, FoldFunctionOnSet, MapThenFoldSet, Folds, Chosen

LEMMA FoldNext ==
  ASSUME NEW f, NEW S, NEW g, Folds(f, S, g), NEW s \in SUBSET S
  PROVE  /\ s = {} => g[s] = 0
         /\ s # {} => /\ Chosen(s) \in s
                      /\ g[s] = f[Chosen(s)] + g[s \ {Chosen(s)}]
  <1>1. s # {} => Chosen(s) \in s
    BY DEF Chosen
  <1>2. g[s] = IF s = {} THEN 0 ELSE f[Chosen(s)] + g[s \ {Chosen(s)}]
    BY DEF Folds
  <1>3. QED
    BY <1>1, <1>2

\* Two folds of functions that agree on a set agree there.
LEMMA FoldsAgree ==
  ASSUME NEW f, NEW S, IsFiniteSet(S), NEW g, Folds(f, S, g),
         NEW e, NEW T, NEW h, Folds(e, T, h)
  PROVE  \A s \in SUBSET S :
           s \subseteq T /\ (\A x \in s : f[x] = e[x]) => g[s] = h[s]
  <1> DEFINE Good(s) == s \subseteq T /\ (\A x \in s : f[x] = e[x])
                          => g[s] = h[s]
             G == {s \in SUBSET S : Good(s)}
  <1>1. ASSUME NEW s \in SUBSET S, \A t \in SUBSET s : t # s => t \in G
        PROVE  Good(s)
    <2> SUFFICES ASSUME s \subseteq T, \A x \in s : f[x] = e[x]
                 PROVE  g[s] = h[s]
      OBVIOUS
    <2>1. CASE s = {}
      <3>1. s = {} => g[s] = 0
        BY FoldNext
      <3>2. s \in SUBSET T
        OBVIOUS
      <3>3. s = {} => h[s] = 0
        BY <3>2, FoldNext
      <3>4. QED
        BY <2>1, <3>1, <3>3
    <2>2. CASE s # {}
      <3> DEFINE c == Chosen(s)
                 u == s \ {c}
      <3>1. /\ c \in s
            /\ g[s] = f[c] + g[u]
            /\ h[s] = e[c] + h[u]
        BY <2>2, FoldNext
      <3> HIDE DEF c
      <3>2. u \in SUBSET s /\ u # s
        BY <3>1
      <3>3. Good(u)
        BY <1>1, <3>2
      <3>4. g[u] = h[u]
        BY <3>2, <3>3
      <3>5. QED
        BY <3>1, <3>4
    <2>3. QED
      BY <2>1, <2>2
  <1>2. \A s \in SUBSET S : s \in G
    <2>1. \A s \in SUBSET S :
            (\A t \in SUBSET s : t # s => t \in G) => s \in G
      BY <1>1
    <2> HIDE DEF G
    <2>2. QED
      BY ONLY <2>1, SubsetInduction, IsFiniteSet(S)
  <1>3. QED
    BY <1>2

LEMMA FoldExists ==
  ASSUME NEW f, NEW S, IsFiniteSet(S)
  PROVE  \E g : Folds(f, S, g)
  <1> DEFINE G == {s \in SUBSET S : \E g : Folds(f, s, g)}
  <1>1. ASSUME NEW s \in SUBSET S, \A t \in SUBSET s : t # s => t \in G
        PROVE  \E g : Folds(f, s, g)
    <2> DEFINE sum(t) == SumFunctionOnSet(f, t)
               F(t) == CHOOSE g : Folds(f, t, g)
               h == [t \in SUBSET s |->
                       IF t = {} THEN 0
                       ELSE f[Chosen(t)] + sum(t \ {Chosen(t)})]
    <2>1. ASSUME NEW t \in SUBSET s, t # s PROVE Folds(f, t, F(t))
      BY <1>1, <2>1
    <2>2. \A t : sum(t) = F(t)[t]
      BY SumIsFold
    <2>3. ASSUME NEW t \in SUBSET s, t # s PROVE h[t] = sum(t)
      <3>0. Folds(f, t, F(t))
        BY <2>1, <2>3
      <3>1. CASE t = {}
        <4>1. F(t)[t] = 0
          BY <3>0, <3>1, FoldNext
        <4>2. QED
          BY <2>2, <3>1, <4>1
      <3>2. CASE t # {}
        <4> DEFINE c == Chosen(t)
                   u == t \ {c}
        <4>1. c \in t /\ F(t)[t] = f[c] + F(t)[u]
          BY <3>0, <3>2, FoldNext
        <4>2. h[t] = f[c] + sum(u)
          BY <3>2
        <4> HIDE DEF c
        <4>3. u \in SUBSET s /\ u # s /\ u \in SUBSET t
          BY <2>3, <4>1
        <4>4. Folds(f, u, F(u)) /\ IsFiniteSet(u)
          BY <2>1, <4>3, FS_Subset
        <4> HIDE DEF F, h, sum, u
        <4>5. F(u)[u] = F(t)[u]
          BY <3>0, <4>3, <4>4, FoldsAgree
        <4>6. QED
          BY <2>2, <4>1, <4>2, <4>5
      <3>3. QED
        BY <3>1, <3>2
    <2>4. \A t \in SUBSET s : h[t] =
            IF t = {} THEN 0 ELSE f[Chosen(t)] + h[t \ {Chosen(t)}]
      <3> TAKE t \in SUBSET s
      <3>1. CASE t = {}
        BY <3>1
      <3>2. CASE t # {}
        <4> DEFINE u == t \ {Chosen(t)}
        <4>1. Chosen(t) \in t
          BY <3>2 DEF Chosen
        <4>2. u \in SUBSET s /\ u # s
          BY <4>1
        <4>3. h[t] = f[Chosen(t)] + sum(u)
          BY <3>2
        <4> HIDE DEF u, h, sum
        <4>4. h[u] = sum(u)
          BY <2>3, <4>2
        <4>5. QED
          BY <3>2, <4>3, <4>4 DEF u
      <3>3. QED
        BY <3>1, <3>2
    <2>5. h = [t \in SUBSET s |-> h[t]]
      OBVIOUS
    <2> HIDE DEF h
    <2>6. Folds(f, s, h)
      BY <2>4, <2>5 DEF Folds
    <2>7. QED
      BY <2>6
  <1>2. \A s \in SUBSET S : s \in G
    <2>1. \A s \in SUBSET S :
            (\A t \in SUBSET s : t # s => t \in G) => s \in G
      BY <1>1
    <2> HIDE DEF G
    <2>2. QED
      BY ONLY <2>1, SubsetInduction, IsFiniteSet(S)
  <1>3. S \in SUBSET S
    OBVIOUS
  <1>4. QED
    BY <1>2, <1>3

\* A fold of a larger set gives the sums of its parts.
LEMMA SumOfPart ==
  ASSUME NEW f, NEW S, IsFiniteSet(S), NEW g, Folds(f, S, g), NEW s \in SUBSET S
  PROVE  SumFunctionOnSet(f, s) = g[s]
  <1> DEFINE h == CHOOSE h : Folds(f, s, h)
  <1>1. IsFiniteSet(s)
    BY FS_Subset
  <1>2. Folds(f, s, h)
    BY <1>1, FoldExists
  <1>3. SumFunctionOnSet(f, s) = h[s]
    BY SumIsFold
  <1> HIDE DEF h
  <1>4. h[s] = g[s]
    <2>1. \A t \in SUBSET s :
            t \subseteq S /\ (\A x \in t : f[x] = f[x]) => h[t] = g[t]
      BY <1>1, <1>2, FoldsAgree
    <2>2. QED
      BY <2>1
  <1>5. QED
    BY <1>3, <1>4

\* A sum of numbers is a number, and any of its terms can be taken out.
LEMMA SumTakes ==
  ASSUME NEW f, NEW S, IsFiniteSet(S), \A x \in S : f[x] \in Nat
  PROVE  /\ SumFunctionOnSet(f, {}) = 0
         /\ SumFunctionOnSet(f, S) \in Nat
         /\ \A x \in S : SumFunctionOnSet(f, S)
                           = f[x] + SumFunctionOnSet(f, S \ {x})
  <1>1. PICK g : Folds(f, S, g)
    BY FoldExists
  <1> DEFINE Good(s) == /\ g[s] \in Nat
                        /\ \A x \in s : g[s] = f[x] + g[s \ {x}]
             G == {s \in SUBSET S : Good(s)}
  <1>2. ASSUME NEW s \in SUBSET S, \A t \in SUBSET s : t # s => t \in G
        PROVE  Good(s)
    <2>1. CASE s = {}
      <3>1. s = {} => g[s] = 0
        BY <1>1, FoldNext
      <3>2. QED
        BY <2>1, <3>1
    <2>2. CASE s # {}
      <3> DEFINE c == Chosen(s)
                 u == s \ {c}
      <3>1. c \in s /\ g[s] = f[c] + g[u]
        BY <1>1, <2>2, FoldNext
      <3> HIDE DEF c
      <3>2. u \in SUBSET s /\ u # s
        BY <3>1
      <3>3. Good(u) /\ f[c] \in Nat
        BY <1>2, <3>1, <3>2
      <3>4. ASSUME NEW x \in s, x # c PROVE g[s] = f[x] + g[s \ {x}]
        <4> DEFINE v == s \ {x}
                   w == u \ {x}
        <4>1. x \in u /\ c \in v
          BY <3>1, <3>4
        <4>2. g[u] = f[x] + g[w]
          BY <3>3, <4>1
        <4>3. v \in SUBSET s /\ v # s /\ w \in SUBSET s /\ w # s
          BY <3>1, <3>4
        <4>4. Good(v) /\ Good(w)
          BY <1>2, <4>3
        <4>5. v \ {c} = w
          OBVIOUS
        <4>6. g[v] = f[c] + g[w]
          BY <4>1, <4>4, <4>5
        <4>7. f[x] \in Nat /\ g[w] \in Nat
          BY <4>4
        <4> HIDE DEF v, w, u
        <4>8. g[s] = f[x] + g[v]
          BY <3>1, <3>3, <4>2, <4>6, <4>7
        <4>9. QED
          BY <4>8 DEF v
      <3>5. g[s] \in Nat
        BY <3>1, <3>3
      <3>6. QED
        BY <3>1, <3>4, <3>5
    <2>3. QED
      BY <2>1, <2>2
  <1>3. \A s \in SUBSET S : s \in G
    <2>1. \A s \in SUBSET S :
            (\A t \in SUBSET s : t # s => t \in G) => s \in G
      BY <1>2
    <2> HIDE DEF G
    <2>2. QED
      BY ONLY <2>1, SubsetInduction, IsFiniteSet(S)
  <1>4. S \in SUBSET S /\ {} \in SUBSET S /\ \A x \in S : S \ {x} \in SUBSET S
    OBVIOUS
  <1>5. Good(S)
    BY <1>3, <1>4
  <1>6. \A s \in SUBSET S : SumFunctionOnSet(f, s) = g[s]
    BY <1>1, SumOfPart
  <1>7. g[{}] = 0
    BY <1>1, FoldNext
  <1>8. QED
    BY <1>4, <1>5, <1>6, <1>7

\* Sums of functions that agree.
LEMMA SumSame ==
  ASSUME NEW f, NEW e, NEW S, IsFiniteSet(S), \A x \in S : f[x] = e[x]
  PROVE  SumFunctionOnSet(f, S) = SumFunctionOnSet(e, S)
  <1>1. PICK g : Folds(f, S, g)
    BY FoldExists
  <1>2. PICK h : Folds(e, S, h)
    BY FoldExists
  <1>3. S \in SUBSET S
    OBVIOUS
  <1>4. SumFunctionOnSet(f, S) = g[S] /\ SumFunctionOnSet(e, S) = h[S]
    BY <1>1, <1>2, <1>3, SumOfPart
  <1>5. \A s \in SUBSET S :
          s \subseteq S /\ (\A x \in s : f[x] = e[x]) => g[s] = h[s]
    BY <1>1, <1>2, FoldsAgree
  <1>6. QED
    BY <1>3, <1>4, <1>5

\* One term, the others and their sum.
LEMMA SumMember ==
  ASSUME NEW f, NEW S, IsFiniteSet(S), \A x \in S : f[x] \in Nat, NEW x \in S
  PROVE  /\ SumFunctionOnSet(f, S) \in Nat
         /\ SumFunctionOnSet(f, S \ {x}) \in Nat
         /\ SumFunctionOnSet(f, S) = f[x] + SumFunctionOnSet(f, S \ {x})
         /\ f[x] <= SumFunctionOnSet(f, S)
  <1> DEFINE T == S \ {x}
  <1>1. IsFiniteSet(T) /\ \A y \in T : f[y] \in Nat
    BY FS_RemoveElement
  <1> HIDE DEF T
  <1>2. SumFunctionOnSet(f, T) \in Nat
    BY <1>1, SumTakes
  <1>3. /\ SumFunctionOnSet(f, S) \in Nat
        /\ SumFunctionOnSet(f, S) = f[x] + SumFunctionOnSet(f, S \ {x})
    BY SumTakes
  <1>4. QED
    BY <1>2, <1>3 DEF T

\* Of two sets without common elements.
LEMMA SumUnion ==
  ASSUME NEW f, NEW S, NEW T, IsFiniteSet(S), IsFiniteSet(T),
         S \intersect T = {}, \A x \in S \union T : f[x] \in Nat
  PROVE  SumFunctionOnSet(f, S \union T)
           = SumFunctionOnSet(f, S) + SumFunctionOnSet(f, T)
  <1> DEFINE sum(t) == SumFunctionOnSet(f, t)
             Good(t) == sum(S \union t) = sum(S) + sum(t)
             G == {t \in SUBSET T : Good(t)}
  <1>0. sum(S) \in Nat /\ sum({}) = 0
    BY SumTakes
  <1>1. ASSUME NEW t \in SUBSET T, \A u \in SUBSET t : u # t => u \in G
        PROVE  Good(t)
    <2>1. CASE t = {}
      <3>1. S \union t = S
        BY <2>1
      <3> HIDE DEF sum
      <3>2. QED
        BY <1>0, <2>1, <3>1
    <2>2. CASE t # {}
      <3>1. PICK x \in t : TRUE
        BY <2>2
      <3> DEFINE u == t \ {x}
                 V == S \union t
      <3>2. u \in SUBSET t /\ u # t
        BY <3>1
      <3>3. Good(u)
        BY <1>1, <3>2
      <3>4. IsFiniteSet(t)
        BY FS_Subset
      <3>5. IsFiniteSet(V)
        BY <3>4, FS_Union
      <3>6. \A y \in V : f[y] \in Nat
        OBVIOUS
      <3>7. \A y \in t : f[y] \in Nat
        OBVIOUS
      <3>8. x \in V /\ V \ {x} = S \union u
        BY <3>1
      <3> HIDE DEF V
      <3>9. sum(V) = f[x] + sum(V \ {x})
        BY <3>5, <3>6, <3>8, SumMember
      <3>10. /\ SumFunctionOnSet(f, t) \in Nat
             /\ SumFunctionOnSet(f, t \ {x}) \in Nat
             /\ SumFunctionOnSet(f, t) = f[x] + SumFunctionOnSet(f, t \ {x})
        BY ONLY <3>1, <3>4, <3>7, SumMember
      <3>11. sum(t) = f[x] + sum(u) /\ sum(u) \in Nat /\ f[x] \in Nat
        BY <3>1, <3>7, <3>10
      <3> HIDE DEF sum, u
      <3>12. sum(V) = sum(S) + sum(t)
        BY <1>0, <3>3, <3>8, <3>9, <3>11
      <3>13. QED
        BY <3>12 DEF V
    <2>3. QED
      BY <2>1, <2>2
  <1>2. \A t \in SUBSET T : t \in G
    <2>1. \A t \in SUBSET T :
            (\A u \in SUBSET t : u # t => u \in G) => t \in G
      BY <1>1
    <2> HIDE DEF G
    <2>2. QED
      BY ONLY <2>1, SubsetInduction, IsFiniteSet(T)
  <1>3. T \in SUBSET T
    OBVIOUS
  <1>4. QED
    BY <1>2, <1>3

\* Of a part.
LEMMA SumPart ==
  ASSUME NEW f, NEW S, IsFiniteSet(S), \A x \in S : f[x] \in Nat,
         NEW T \in SUBSET S
  PROVE  /\ IsFiniteSet(T)
         /\ SumFunctionOnSet(f, T) \in Nat
         /\ SumFunctionOnSet(f, T) <= SumFunctionOnSet(f, S)
  <1> DEFINE U == S \ T
  <1>1. IsFiniteSet(T) /\ IsFiniteSet(U) /\ T \intersect U = {} /\ T \union U = S
    BY FS_Subset, U \in SUBSET S
  <1>2. (\A x \in T : f[x] \in Nat) /\ (\A x \in U : f[x] \in Nat)
    OBVIOUS
  <1> HIDE DEF U
  <1>3. SumFunctionOnSet(f, T) \in Nat /\ SumFunctionOnSet(f, U) \in Nat
    BY <1>1, <1>2, SumTakes
  <1>4. SumFunctionOnSet(f, T \union U)
          = SumFunctionOnSet(f, T) + SumFunctionOnSet(f, U)
    BY <1>1, <1>2, SumUnion
  <1>5. SumFunctionOnSet(f, T) <= SumFunctionOnSet(f, S)
    <2> DEFINE a == SumFunctionOnSet(f, T)
               b == SumFunctionOnSet(f, U)
    <2>1. a \in Nat /\ b \in Nat /\ SumFunctionOnSet(f, S) = a + b
      BY <1>1, <1>3, <1>4
    <2> HIDE DEF a, b
    <2>2. a <= a + b
      BY <2>1
    <2>3. QED
      BY <2>1, <2>2 DEF a
  <1>6. QED
    BY <1>1, <1>3, <1>5

\* Of two functions, term by term.
LEMMA SumPlus ==
  ASSUME NEW f, NEW e, NEW h, NEW S, IsFiniteSet(S),
         \A x \in S : f[x] \in Nat /\ e[x] \in Nat /\ h[x] = f[x] + e[x]
  PROVE  SumFunctionOnSet(h, S)
           = SumFunctionOnSet(f, S) + SumFunctionOnSet(e, S)
  <1> DEFINE F(t) == SumFunctionOnSet(f, t)
             E(t) == SumFunctionOnSet(e, t)
             H(t) == SumFunctionOnSet(h, t)
             Good(t) == H(t) = F(t) + E(t)
             G == {t \in SUBSET S : Good(t)}
  <1>1. ASSUME NEW t \in SUBSET S, \A u \in SUBSET t : u # t => u \in G
        PROVE  Good(t)
    <2>1. CASE t = {}
      <3>1. F({}) = 0 /\ E({}) = 0 /\ H({}) = 0
        BY FS_EmptySet, SumTakes
      <3> HIDE DEF F, E, H
      <3>2. QED
        BY <2>1, <3>1
    <2>2. CASE t # {}
      <3>1. PICK x \in t : TRUE
        BY <2>2
      <3> DEFINE u == t \ {x}
      <3>2. u \in SUBSET t /\ u # t
        BY <3>1
      <3>3. Good(u)
        BY <1>1, <3>2
      <3>4. IsFiniteSet(t)
        BY FS_Subset
      <3>5. /\ \A y \in t : e[y] \in Nat
            /\ \A y \in t : h[y] \in Nat
        OBVIOUS
      <3>f1. \A y \in t : f[y] \in Nat
        OBVIOUS
      <3>e1. \A y \in t : e[y] \in Nat
        OBVIOUS
      <3>6. /\ SumFunctionOnSet(f, t) \in Nat
            /\ SumFunctionOnSet(f, t \ {x}) \in Nat
            /\ SumFunctionOnSet(f, t) = f[x] + SumFunctionOnSet(f, t \ {x})
        BY ONLY <3>1, <3>4, <3>f1, SumMember
      <3>7. /\ SumFunctionOnSet(e, t) \in Nat
            /\ SumFunctionOnSet(e, t \ {x}) \in Nat
            /\ SumFunctionOnSet(e, t) = e[x] + SumFunctionOnSet(e, t \ {x})
        BY ONLY <3>1, <3>4, <3>e1, SumMember
      <3>8. H(t) = h[x] + H(u)
        BY <3>1, <3>4, <3>5, SumMember
      <3>9. h[x] = f[x] + e[x] /\ f[x] \in Nat /\ e[x] \in Nat
        BY <3>1
      <3>10. /\ F(t) = f[x] + F(u) /\ F(u) \in Nat
             /\ E(t) = e[x] + E(u) /\ E(u) \in Nat
        BY <3>6, <3>7
      <3> HIDE DEF F, E, H, u
      <3>11. QED
        BY <3>3, <3>8, <3>9, <3>10
    <2>3. QED
      BY <2>1, <2>2
  <1>2. \A t \in SUBSET S : t \in G
    <2>1. \A t \in SUBSET S :
            (\A u \in SUBSET t : u # t => u \in G) => t \in G
      BY <1>1
    <2> HIDE DEF G
    <2>2. QED
      BY ONLY <2>1, SubsetInduction, IsFiniteSet(S)
  <1>3. S \in SUBSET S
    OBVIOUS
  <1>4. QED
    BY <1>2, <1>3

\* Of a set in parts: the sums of the parts make up its sum.
LEMMA SumOfParts ==
  ASSUME NEW f, NEW S, IsFiniteSet(S), \A x \in S : f[x] \in Nat,
         NEW N, IsFiniteSet(N), NEW part, NEW h,
         \A n \in N : part[n] \in SUBSET S,
         \A n \in N : h[n] = SumFunctionOnSet(f, part[n]),
         \A m, n \in N : m # n => part[m] \intersect part[n] = {},
         \A x \in S : \E n \in N : x \in part[n]
  PROVE  SumFunctionOnSet(h, N) = SumFunctionOnSet(f, S)
  <1> DEFINE F(t) == SumFunctionOnSet(f, t)
             H(t) == SumFunctionOnSet(h, t)
             In(t) == {x \in S : \E n \in t : x \in part[n]}
             Good(t) == H(t) = F(In(t))
             G == {t \in SUBSET N : Good(t)}
  <1>0. ASSUME NEW T \in SUBSET S
        PROVE  IsFiniteSet(T) /\ F(T) \in Nat /\ \A x \in T : f[x] \in Nat
    BY SumPart
  <1>1. ASSUME NEW t \in SUBSET N, \A u \in SUBSET t : u # t => u \in G
        PROVE  Good(t)
    <2>1. CASE t = {}
      <3>1. In(t) = {}
        BY <2>1
      <3>2. F({}) = 0 /\ H({}) = 0
        BY FS_EmptySet, SumTakes
      <3> HIDE DEF F, H, In
      <3>3. QED
        BY <2>1, <3>1, <3>2
    <2>2. CASE t # {}
      <3>1. PICK n \in t : TRUE
        BY <2>2
      <3> DEFINE u == t \ {n}
      <3>2. u \in SUBSET t /\ u # t
        BY <3>1
      <3>3. Good(u)
        BY <1>1, <3>2
      <3>4. IsFiniteSet(t)
        BY FS_Subset
      <3>5. \A m \in t : h[m] = F(part[m]) /\ part[m] \in SUBSET S
        OBVIOUS
      <3>6. \A m \in t : h[m] \in Nat
        <4> HIDE DEF F
        <4>1. QED
          BY <1>0, <3>5
      <3>7. H(t) = h[n] + H(u)
        BY <3>1, <3>4, <3>6, SumMember
      <3> DEFINE A == In(u)
                 B == part[n]
      <3>8. A \in SUBSET S /\ B \in SUBSET S
        BY <3>1
      <3>9. A \intersect B = {}
        BY <3>1
      <3>10. A \union B = In(t)
        BY <3>1
      <3>11. h[n] = F(B) /\ H(u) = F(A)
        BY <3>1, <3>3, <3>5
      <3> HIDE DEF A, B
      <3>12. /\ IsFiniteSet(A) /\ IsFiniteSet(B)
             /\ F(A) \in Nat /\ F(B) \in Nat
             /\ \A x \in A \union B : f[x] \in Nat
        <4> HIDE DEF In, F, u
        <4>1. QED
          BY <1>0, <3>8
      <3>13. F(A \union B) = F(A) + F(B)
        BY <3>9, <3>12, SumUnion
      <3> HIDE DEF F, H, u
      <3>14. H(t) = F(A) + F(B)
        BY <3>7, <3>11, <3>12
      <3>15. QED
        BY <3>10, <3>13, <3>14
    <2>3. QED
      BY <2>1, <2>2
  <1>2. \A t \in SUBSET N : t \in G
    <2>1. \A t \in SUBSET N :
            (\A u \in SUBSET t : u # t => u \in G) => t \in G
      BY <1>1
    <2> HIDE DEF G
    <2>2. QED
      BY ONLY <2>1, SubsetInduction, IsFiniteSet(N)
  <1>3. Good(N)
    <2>1. N \in SUBSET N
      OBVIOUS
    <2>2. QED
      BY <1>2, <2>1
  <1>4. In(N) = S
    OBVIOUS
  <1> HIDE DEF In
  <1>5. QED
    BY <1>3, <1>4

\* One term changes.
LEMMA SumUpdate ==
  ASSUME NEW f, NEW e, NEW S, IsFiniteSet(S), NEW x \in S,
         \A y \in S : f[y] \in Nat, \A y \in S : e[y] \in Nat,
         \A y \in S : y # x => e[y] = f[y]
  PROVE  SumFunctionOnSet(e, S) + f[x] = SumFunctionOnSet(f, S) + e[x]
  <1> DEFINE T == S \ {x}
             a == SumFunctionOnSet(f, T)
             b == SumFunctionOnSet(e, T)
  <1>1. IsFiniteSet(T) /\ \A y \in T : e[y] = f[y]
    BY FS_RemoveElement
  <1> HIDE DEF T
  <1>2. a = b
    BY <1>1, SumSame
  <1>3. SumFunctionOnSet(f, S) = f[x] + a /\ a \in Nat
    <2>1. /\ SumFunctionOnSet(f, S \ {x}) \in Nat
          /\ SumFunctionOnSet(f, S) = f[x] + SumFunctionOnSet(f, S \ {x})
      BY SumMember
    <2>2. QED
      BY <2>1 DEF T
  <1>4. SumFunctionOnSet(e, S) = e[x] + b
    <2>1. SumFunctionOnSet(e, S) = e[x] + SumFunctionOnSet(e, S \ {x})
      BY SumMember
    <2>2. QED
      BY <2>1 DEF T
  <1>5. f[x] \in Nat /\ e[x] \in Nat /\ b \in Nat
    BY <1>2, <1>3
  <1> HIDE DEF a, b
  <1>6. QED
    BY <1>2, <1>3, <1>4, <1>5

LEMMA SumZero ==
  ASSUME NEW f, NEW S, IsFiniteSet(S), \A x \in S : f[x] = 0
  PROVE  SumFunctionOnSet(f, S) = 0
  <1> DEFINE a == SumFunctionOnSet(f, S)
  <1>1. \A x \in S : f[x] \in Nat /\ f[x] \in Nat /\ f[x] = f[x] + f[x]
    OBVIOUS
  <1>2. \A x \in S : f[x] \in Nat
    OBVIOUS
  <1>3. a = a + a
    BY ONLY <1>1, SumPlus, IsFiniteSet(S)
  <1>4. a \in Nat
    BY <1>2, SumTakes
  <1> HIDE DEF a
  <1>5. a = 0
    BY <1>3, <1>4
  <1>6. QED
    BY <1>5 DEF a

\* Some terms are left out.
LEMMA SumKept ==
  ASSUME NEW f, NEW e, NEW S, IsFiniteSet(S), NEW T \in SUBSET S,
         \A x \in S : f[x] \in Nat,
         \A x \in S : e[x] = IF x \in T THEN f[x] ELSE 0
  PROVE  SumFunctionOnSet(e, S) = SumFunctionOnSet(f, T)
  <1> DEFINE U == S \ T
  <1>1. /\ IsFiniteSet(T) /\ IsFiniteSet(U)
        /\ T \intersect U = {} /\ T \union U = S
    BY FS_Subset, U \in SUBSET S
  <1>2. /\ \A x \in T : e[x] = f[x]
        /\ \A x \in U : e[x] = 0
    OBVIOUS
  <1>3. \A x \in T \union U : e[x] \in Nat
    OBVIOUS
  <1>4. \A x \in T : f[x] \in Nat
    OBVIOUS
  <1> HIDE DEF U
  <1>5. SumFunctionOnSet(e, T \union U)
          = SumFunctionOnSet(e, T) + SumFunctionOnSet(e, U)
    BY <1>1, <1>3, SumUnion
  <1>6. SumFunctionOnSet(e, T) = SumFunctionOnSet(f, T)
    BY <1>1, <1>2, SumSame
  <1>7. SumFunctionOnSet(e, U) = 0
    BY <1>1, <1>2, SumZero
  <1>8. SumFunctionOnSet(f, T) \in Nat
    BY <1>1, <1>4, SumTakes
  <1> DEFINE a == SumFunctionOnSet(f, T)
  <1>9. SumFunctionOnSet(e, S) = a + 0 /\ a \in Nat
    BY <1>1, <1>5, <1>6, <1>7, <1>8
  <1> HIDE DEF a
  <1>10. SumFunctionOnSet(e, S) = a
    BY <1>9
  <1>11. QED
    BY <1>10 DEF a

-----------------------------------------------------------------------------
(* The rows of clients.                                                    *)

USE ConstantsAssumption DEF ConstantsAssumption

\* The status columns of a row agree.
Consistent(r) == r.enabled <=> r.status = "active"

\* What a slot of the table holds, next to the traffic metered for it.
GoodSlot(r, m) ==
  /\ r \in Row \union {Unused, Absent}
  /\ m \in 0 .. MaxUsed
  /\ r \in Row => r.used = m /\ Consistent(r)
  /\ r = Unused => m = 0

RowsOK ==
  /\ row \in [Clients -> Row \union {Unused, Absent}]
  /\ metered \in [Clients -> 0 .. MaxUsed]
  /\ \A c \in Clients : GoodSlot(row[c], metered[c])

\* What a request has read can be written back.
ReadOK ==
  /\ read \in [Admins -> Row \union {Absent}]
  /\ \A a \in Admins :
       /\ read[a] \in Row => Consistent(read[a])
       /\ pc[a] = "update" => read[a] \in Row

PlainOK ==
  /\ now \in 1 .. MaxTime
  /\ pc \in [Procs -> Labels]
  /\ todo \in [Procs -> SUBSET Clients]
  /\ changed \in [Loops -> BOOLEAN]
  /\ token \in BOOLEAN
  /\ missed \subseteq Clients
  /\ config \subseteq Clients
  /\ swept \subseteq Clients
  /\ edits \in 0 .. MaxEdits

\* The inductive invariant.
IInv == RowsOK /\ ReadOK /\ PlainOK /\ NoSilentChange

\* The client is in the query of the generator.
On(r) == r \notin {Unused, Absent} /\ r.enabled

-----------------------------------------------------------------------------
(* Rows.                                                                   *)

LEMMA ExistsIsRow ==
  ASSUME RowsOK, NEW c \in Clients
  PROVE  Exists(c) <=> row[c] \in Row
  BY DEF RowsOK, Exists

LEMMA EnabledIsOn ==
  /\ \A c \in Clients : c \in ListEnabled <=> On(row[c])
  /\ \A c \in Clients : c \in ListEnabled' <=> On(row'[c])
  BY DEF ListEnabled, Exists, On

\* An edit of Update leaves a consistent row consistent.
LEMMA EditedIsRow ==
  ASSUME NEW r \in Row, Consistent(r), NEW w \in Edited(r)
  PROVE  w \in Row /\ Consistent(w)
  <1>1. CASE w = r
    BY <1>1
  <1>2. ASSUME NEW q \in Quotas, w = [r EXCEPT !.quota = q]
        PROVE  w \in Row /\ Consistent(w)
    BY <1>2 DEF Row, Consistent
  <1>3. ASSUME NEW e \in Expiries, w = [r EXCEPT !.expiry = e]
        PROVE  w \in Row /\ Consistent(w)
    BY <1>3 DEF Row, Consistent
  <1>4. ASSUME NEW s \in Statuses,
               w = [r EXCEPT !.status = s, !.enabled = (s = "active")]
        PROVE  w \in Row /\ Consistent(w)
    BY <1>4 DEF Row, Consistent
  <1>5. QED
    BY <1>1, <1>2, <1>3, <1>4 DEF Edited

\* The status columns of a set of clients, written at once.
LEMMA StatusKeepsRows ==
  ASSUME RowsOK, NEW C, NEW s \in Statuses,
         row' = WithStatus(C, s), metered' = metered
  PROVE  RowsOK'
  <1>1. ASSUME NEW c \in Clients PROVE GoodSlot(row'[c], metered'[c])
    <2>1. CASE c \in C /\ row[c] \in Row
      <3>1. row'[c] = [row[c] EXCEPT !.status = s, !.enabled = (s = "active")]
        BY <2>1, ExistsIsRow DEF WithStatus
      <3>2. /\ row'[c] \in Row /\ row'[c].used = row[c].used
            /\ Consistent(row'[c])
        BY <2>1, <3>1 DEF Row, Consistent
      <3>3. row[c].used = metered[c] /\ metered[c] \in 0 .. MaxUsed
        BY <2>1 DEF RowsOK, GoodSlot
      <3>4. row'[c] # Unused
        BY <3>2
      <3>5. QED
        BY <3>2, <3>3, <3>4 DEF GoodSlot
    <2>2. CASE ~ (c \in C /\ row[c] \in Row)
      <3>1. row'[c] = row[c]
        BY <2>2, ExistsIsRow DEF WithStatus
      <3>2. QED
        BY <3>1 DEF RowsOK
    <2>3. QED
      BY <2>1, <2>2
  <1>2. row' = [c \in Clients |-> row'[c]]
    BY DEF WithStatus
  <1>3. row' \in [Clients -> Row \union {Unused, Absent}]
    BY <1>1, <1>2 DEF GoodSlot
  <1>4. QED
    BY <1>1, <1>3 DEF RowsOK

\* The counters of a set of clients, reset at once.
LEMMA ResetKeepsRows ==
  ASSUME RowsOK, NEW C, row' = WithoutTraffic(C),
         metered' = [c \in Clients |-> IF c \in C THEN 0 ELSE metered[c]]
  PROVE  RowsOK' /\ \A d \in Clients : On(row'[d]) <=> On(row[d])
  <1>1. ASSUME NEW d \in Clients
        PROVE  GoodSlot(row'[d], metered'[d]) /\ (On(row'[d]) <=> On(row[d]))
    <2>1. CASE d \in C /\ row[d] \in Row
      <3>1. row'[d] = [row[d] EXCEPT !.used = 0] /\ metered'[d] = 0
        BY <2>1, ExistsIsRow DEF WithoutTraffic, RowsOK
      <3>2. 0 \in 0 .. MaxUsed
        OBVIOUS
      <3>3. /\ row'[d] \in Row /\ row'[d].used = 0
            /\ row'[d].enabled = row[d].enabled
            /\ row'[d].status = row[d].status
        BY <2>1, <3>1, <3>2 DEF Row
      <3>4. Consistent(row[d])
        BY <2>1 DEF RowsOK, GoodSlot
      <3>5. Consistent(row'[d])
        BY <3>3, <3>4 DEF Consistent
      <3>6. On(row'[d]) <=> On(row[d])
        BY <2>1, <3>3 DEF On
      <3>7. row'[d] # Unused
        BY <3>3
      <3>8. QED
        BY <3>1, <3>2, <3>3, <3>5, <3>6, <3>7 DEF GoodSlot
    <2>2. CASE d \notin C
      <3>1. row'[d] = row[d] /\ metered'[d] = metered[d]
        BY <2>2 DEF WithoutTraffic, RowsOK
      <3>2. QED
        BY <3>1 DEF RowsOK
    <2>3. CASE d \in C /\ row[d] \notin Row
      <3>1. row'[d] = row[d] /\ metered'[d] = 0
        BY <2>3, ExistsIsRow DEF WithoutTraffic, RowsOK
      <3>2. row[d] \in {Unused, Absent}
        BY <2>3 DEF RowsOK
      <3>3. QED
        BY <2>3, <3>1, <3>2 DEF GoodSlot
    <2>4. QED
      BY <2>1, <2>2, <2>3
  <1>2. row' = [d \in Clients |-> row'[d]]
    BY DEF WithoutTraffic
  <1>3. row' \in [Clients -> Row \union {Unused, Absent}]
    BY <1>1, <1>2 DEF GoodSlot
  <1>4. metered' \in [Clients -> 0 .. MaxUsed]
    BY DEF RowsOK
  <1>5. QED
    BY <1>1, <1>3, <1>4 DEF RowsOK

\* Another value in one slot.
LEMMA SlotWritten ==
  ASSUME RowsOK, NEW c \in Clients, NEW r, GoodSlot(r, metered[c]),
         row' = [row EXCEPT ![c] = r], metered' = metered
  PROVE  RowsOK'
  BY DEF RowsOK, GoodSlot

-----------------------------------------------------------------------------
(* What the steps have in common.                                          *)

LEMMA RowsSame ==
  ASSUME RowsOK, row' = row, metered' = metered
  PROVE  RowsOK'
  BY DEF RowsOK

LEMMA ReadSame ==
  ASSUME ReadOK, read' = read,
         \A a \in Admins : pc'[a] = "update" => pc[a] = "update"
  PROVE  ReadOK'
  BY DEF ReadOK

\* Only a request goes to "update".
LEMMA Went ==
  ASSUME PlainOK, NEW p \in Procs, NEW l \in Labels, Goto(p, l),
         l # "update"
  PROVE  /\ pc' \in [Procs -> Labels]
         /\ \A a \in Admins : pc'[a] = "update" => pc[a] = "update"
  BY DEF PlainOK, Goto, Procs

\* A step that triggers excuses every difference.
LEMMA Announced ==
  ASSUME token'
  PROVE  NoSilentChange'
  BY DEF NoSilentChange

\* A step that leaves the enabled clients and the configuration alone, and
\* takes no excuse away but for another.
LEMMA NothingNew ==
  ASSUME NoSilentChange, config' = config,
         \A c \in Clients : On(row'[c]) <=> On(row[c]),
         token => token',
         \A c \in Clients : c \in missed => token' \/ c \in missed',
         \A c \in Clients : c \in swept => c \in swept',
         \A l \in Loops : changed[l] => token' \/ changed'[l]
  PROVE  NoSilentChange'
  BY EnabledIsOn DEF NoSilentChange, Differing

-----------------------------------------------------------------------------
(* Accounting and enforcement.                                             *)

LEMMA AddTrafficStep ==
  ASSUME IInv, AddTraffic
  PROVE  IInv'
  <1> USE DEF IInv
  <1>1. PICK C \in SUBSET {c \in config : Exists(c) /\ metered[c] < MaxUsed} :
          row' = Counted(C) /\ metered' = Metered(C)
    BY DEF AddTraffic
  <1>2. ASSUME NEW c \in Clients
        PROVE  /\ GoodSlot(row'[c], metered'[c])
               /\ On(row'[c]) <=> On(row[c])
    <2>1. CASE c \in C
      <3>1. row[c] \in Row /\ metered[c] < MaxUsed
        BY <1>1, <1>2, <2>1, ExistsIsRow
      <3>2. row[c].used = metered[c] /\ Consistent(row[c])
            /\ metered[c] \in 0 .. MaxUsed
        BY <3>1 DEF RowsOK, GoodSlot
      <3>3. /\ row'[c] = [row[c] EXCEPT !.used = row[c].used + 1]
            /\ metered'[c] = metered[c] + 1
        BY <1>1, <2>1 DEF Counted, Metered
      <3>4. metered'[c] \in 0 .. MaxUsed /\ row[c].used + 1 = metered'[c]
        BY <3>1, <3>2, <3>3
      <3>5. /\ row'[c] \in Row /\ row'[c].used = metered'[c]
            /\ row'[c].enabled = row[c].enabled
            /\ row'[c].status = row[c].status
        BY <3>1, <3>3, <3>4 DEF Row
      <3>6. Consistent(row'[c]) /\ (On(row'[c]) <=> On(row[c]))
        BY <3>1, <3>2, <3>5 DEF Consistent, On
      <3>7. row'[c] # Unused
        BY <3>5
      <3>8. QED
        BY <3>4, <3>5, <3>6, <3>7 DEF GoodSlot
    <2>2. CASE c \notin C
      <3>1. row'[c] = row[c] /\ metered'[c] = metered[c]
        BY <1>1, <2>2 DEF Counted, Metered
      <3>2. QED
        BY <3>1 DEF RowsOK
    <2>3. QED
      BY <2>1, <2>2
  <1>3. row' = [c \in Clients |-> row'[c]]
        /\ metered' = [c \in Clients |-> metered'[c]]
    BY <1>1 DEF Counted, Metered
  <1>4. row' \in [Clients -> Row \union {Unused, Absent}]
        /\ metered' \in [Clients -> 0 .. MaxUsed]
    BY <1>2, <1>3 DEF GoodSlot
  <1>5. RowsOK'
    BY <1>2, <1>4 DEF RowsOK
  <1>6. /\ Goto("account", "list")
        /\ UNCHANGED <<now, todo, read, changed, token, missed, config, swept,
                       edits>>
    BY DEF AddTraffic
  <1>7. /\ pc' \in [Procs -> Labels]
        /\ \A a \in Admins : pc'[a] = "update" => pc[a] = "update"
    BY <1>6, Went DEF Procs, Loops, Labels
  <1>8. ReadOK'
    BY <1>6, <1>7, ReadSame
  <1>9. PlainOK'
    BY <1>6, <1>7 DEF PlainOK
  <1>10. NoSilentChange'
    BY <1>2, <1>6, NothingNew
  <1>11. QED
    BY <1>5, <1>8, <1>9, <1>10

LEMMA TickStep ==
  ASSUME IInv, Tick
  PROVE  IInv'
  <1> USE DEF IInv
  <1>1. /\ Goto("enforce", "list")
        /\ UNCHANGED <<now, row, todo, read, changed, token, missed, config,
                       metered, swept, edits>>
    BY DEF Tick
  <1>2. /\ pc' \in [Procs -> Labels]
        /\ \A a \in Admins : pc'[a] = "update" => pc[a] = "update"
    BY <1>1, Went DEF Procs, Loops, Labels
  <1>3. RowsOK' /\ ReadOK'
    BY <1>1, <1>2, RowsSame, ReadSame
  <1>4. PlainOK'
    BY <1>1, <1>2 DEF PlainOK
  <1>5. NoSilentChange'
    BY <1>1, NothingNew
  <1>6. QED
    BY <1>3, <1>4, <1>5

LEMMA ListStep ==
  ASSUME IInv, NEW l \in Loops, List(l)
  PROVE  IInv'
  <1> USE DEF IInv
  <1>1. /\ Goto(l, "visit")
        /\ todo' = [todo EXCEPT ![l] = {c \in Clients : Violating(c)}]
        /\ UNCHANGED <<now, row, read, changed, token, missed, config, metered,
                       swept, edits>>
    BY DEF List
  <1>2. /\ pc' \in [Procs -> Labels]
        /\ \A a \in Admins : pc'[a] = "update" => pc[a] = "update"
    BY <1>1, Went DEF Procs, Labels
  <1>3. RowsOK' /\ ReadOK'
    BY <1>1, <1>2, RowsSame, ReadSame
  <1>4. todo' \in [Procs -> SUBSET Clients]
    BY <1>1 DEF PlainOK
  <1>5. PlainOK'
    BY <1>1, <1>2, <1>4 DEF PlainOK
  <1>6. NoSilentChange'
    BY <1>1, NothingNew
  <1>7. QED
    BY <1>3, <1>5, <1>6

LEMMA ExpireStep ==
  ASSUME IInv, NEW l \in Loops, NEW c \in Clients, Expire(l, c)
  PROVE  IInv'
  <1> USE DEF IInv
  <1>1. /\ row' = WithStatus({c}, "expired")
        /\ changed' = [changed EXCEPT ![l] = TRUE]
        /\ todo' = [todo EXCEPT ![l] = @ \ {c}]
        /\ UNCHANGED <<now, pc, read, token, missed, config, metered, swept,
                       edits>>
    BY DEF Expire
  <1>2. RowsOK'
    BY <1>1, StatusKeepsRows DEF Statuses
  <1>3. ReadOK'
    BY <1>1, ReadSame
  <1>4. PlainOK'
    BY <1>1 DEF PlainOK, Procs
  <1>5. changed'[l] = TRUE
    BY <1>1 DEF PlainOK
  <1>6. NoSilentChange'
    BY <1>5 DEF NoSilentChange, Differing
  <1>7. QED
    BY <1>2, <1>3, <1>4, <1>6

LEMMA ExpireFailsStep ==
  ASSUME IInv, NEW l \in Loops, NEW c \in Clients, ExpireFails(l, c)
  PROVE  IInv'
  <1> USE DEF IInv
  <1>1. /\ todo' = [todo EXCEPT ![l] = @ \ {c}]
        /\ UNCHANGED <<now, row, pc, read, changed, token, missed, config,
                       metered, swept, edits>>
    BY DEF ExpireFails
  <1>2. RowsOK' /\ ReadOK'
    BY <1>1, RowsSame, ReadSame
  <1>3. PlainOK'
    BY <1>1 DEF PlainOK, Procs
  <1>4. NoSilentChange'
    BY <1>1, NothingNew
  <1>5. QED
    BY <1>2, <1>3, <1>4

LEMMA EnforcedStep ==
  ASSUME IInv, NEW l \in Loops, Enforced(l)
  PROVE  IInv'
  <1> USE DEF IInv
  <1>1. /\ IF changed[l] THEN Announce ELSE UNCHANGED <<token, missed>>
        /\ changed' = [changed EXCEPT ![l] = FALSE]
        /\ Goto(l, "idle")
        /\ UNCHANGED <<now, row, todo, read, config, metered, swept, edits>>
    BY DEF Enforced
  <1>2. /\ pc' \in [Procs -> Labels]
        /\ \A a \in Admins : pc'[a] = "update" => pc[a] = "update"
    BY <1>1, Went DEF Procs, Labels
  <1>3. RowsOK' /\ ReadOK'
    BY <1>1, <1>2, RowsSame, ReadSame
  <1>4. /\ token' \in BOOLEAN /\ missed' \subseteq Clients
        /\ changed' \in [Loops -> BOOLEAN]
    BY <1>1 DEF PlainOK, Announce
  <1>5. PlainOK'
    BY <1>1, <1>2, <1>4 DEF PlainOK
  <1>6. \A k \in Loops : changed[k] => token' \/ changed'[k]
    BY <1>1 DEF PlainOK, Announce
  <1>7. /\ token => token'
        /\ \A c \in Clients : c \in missed => token' \/ c \in missed'
    BY <1>1 DEF Announce
  <1>8. NoSilentChange'
    BY <1>1, <1>6, <1>7, NothingNew
  <1>9. QED
    BY <1>3, <1>5, <1>8

-----------------------------------------------------------------------------
(* The endpoints.                                                          *)

LEMMA CreateStep ==
  ASSUME IInv, NEW a \in Admins, NEW c \in Clients, Create(a, c)
  PROVE  IInv'
  <1> USE DEF IInv
  <1>1. PICK r \in NewRows : row' = [row EXCEPT ![c] = r]
    BY DEF Create
  <1>2. /\ row[c] = Unused /\ token' = TRUE /\ missed' = {} /\ edits < MaxEdits
        /\ edits' = edits + 1
        /\ UNCHANGED <<now, pc, todo, read, changed, config, metered, swept>>
    BY DEF Create, Edit, Announce
  <1>3. metered[c] = 0
    BY <1>2 DEF RowsOK, GoodSlot
  <1>4. GoodSlot(r, metered[c])
    BY <1>3 DEF NewRows, GoodSlot, Consistent
  <1>5. RowsOK' /\ ReadOK'
    BY <1>1, <1>2, <1>4, SlotWritten, ReadSame
  <1>6. PlainOK'
    BY <1>2 DEF PlainOK
  <1>7. QED
    BY <1>2, <1>5, <1>6, Announced

LEMMA ReadRowStep ==
  ASSUME IInv, NEW a \in Admins, NEW c \in Clients, ReadRow(a, c)
  PROVE  IInv'
  <1> USE DEF IInv
  <1>1. /\ Exists(c) /\ edits < MaxEdits /\ edits' = edits + 1
        /\ read' = [read EXCEPT ![a] = row[c]]
        /\ todo' = [todo EXCEPT ![a] = {c}]
        /\ pc' = [pc EXCEPT ![a] = "update"]
        /\ UNCHANGED <<now, row, changed, token, missed, config, metered,
                       swept>>
    BY DEF ReadRow, Edit, Goto
  <1>2. row[c] \in Row /\ Consistent(row[c])
    BY <1>1, ExistsIsRow DEF RowsOK, GoodSlot
  <1>3. read' \in [Admins -> Row \union {Absent}]
    BY <1>1, <1>2 DEF ReadOK
  <1>4. ASSUME NEW b \in Admins
        PROVE  /\ read'[b] \in Row => Consistent(read'[b])
               /\ pc'[b] = "update" => read'[b] \in Row
    <2>1. CASE b = a
      BY <1>1, <1>2, <2>1 DEF ReadOK
    <2>2. CASE b # a
      <3>1. read'[b] = read[b] /\ pc'[b] = pc[b]
        BY <1>1, <2>2 DEF ReadOK, PlainOK, Procs
      <3>2. QED
        BY <3>1 DEF ReadOK
    <2>3. QED
      BY <2>1, <2>2
  <1>5. ReadOK'
    BY <1>3, <1>4 DEF ReadOK
  <1>6. pc' \in [Procs -> Labels] /\ todo' \in [Procs -> SUBSET Clients]
    BY <1>1 DEF PlainOK, Procs, Labels
  <1>7. PlainOK'
    BY <1>1, <1>6 DEF PlainOK
  <1>8. RowsOK' /\ NoSilentChange'
    BY <1>1, RowsSame, NothingNew
  <1>9. QED
    BY <1>5, <1>7, <1>8

LEMMA WriteRowStep ==
  ASSUME IInv, NEW a \in Admins, WriteRow(a)
  PROVE  IInv'
  <1> USE DEF IInv
  <1>1. PICK c \in todo[a] :
          IF Exists(c)
            THEN /\ \E r \in Edited(read[a]) :
                      row' = [row EXCEPT ![c] = [r EXCEPT !.used = row[c].used]]
                 /\ token' = TRUE /\ missed' = {}
            ELSE UNCHANGED <<row, token, missed>>
    BY DEF WriteRow, Announce
  <1>2. /\ pc[a] = "update"
        /\ read' = [read EXCEPT ![a] = Absent]
        /\ todo' = [todo EXCEPT ![a] = {}]
        /\ Goto(a, "idle")
        /\ UNCHANGED <<now, changed, config, metered, swept, edits>>
    BY DEF WriteRow
  <1>3. c \in Clients
    BY DEF PlainOK, Procs
  <1>4. read[a] \in Row /\ Consistent(read[a])
    BY <1>2 DEF ReadOK
  <1>5. /\ pc' \in [Procs -> Labels]
        /\ \A b \in Admins : pc'[b] = "update" => pc[b] = "update"
    BY <1>2, Went DEF Procs, Labels
  <1>6. pc'[a] = "idle"
    BY <1>2 DEF Goto, PlainOK, Procs
  <1>7. ReadOK'
    BY <1>2, <1>5, <1>6 DEF ReadOK
  <1>8. todo' \in [Procs -> SUBSET Clients]
    BY <1>2 DEF PlainOK
  <1>9. CASE Exists(c)
    <2>1. PICK r \in Edited(read[a]) :
            row' = [row EXCEPT ![c] = [r EXCEPT !.used = row[c].used]]
      BY <1>1, <1>9
    <2>2. r \in Row /\ Consistent(r)
      BY <1>4, EditedIsRow
    <2>3. /\ row[c] \in Row /\ row[c].used = metered[c]
          /\ metered[c] \in 0 .. MaxUsed
      BY <1>3, <1>9, ExistsIsRow DEF RowsOK, GoodSlot
    <2> DEFINE w == [r EXCEPT !.used = row[c].used]
    <2>4. w \in Row /\ w.used = metered[c] /\ Consistent(w)
      BY <2>2, <2>3 DEF Row, Consistent
    <2>5. row' = [row EXCEPT ![c] = w]
      BY <2>1
    <2> HIDE DEF w
    <2>6. GoodSlot(w, metered[c])
      BY <2>3, <2>4 DEF GoodSlot
    <2>7. RowsOK'
      BY <1>2, <1>3, <2>5, <2>6, SlotWritten
    <2>8. token' = TRUE /\ missed' = {}
      BY <1>1, <1>9
    <2>9. PlainOK'
      BY <1>2, <1>5, <1>8, <2>8 DEF PlainOK
    <2>10. QED
      BY <1>7, <2>7, <2>8, <2>9, Announced
  <1>10. CASE ~ Exists(c)
    <2>1. UNCHANGED <<row, token, missed>>
      BY <1>1, <1>10
    <2>2. PlainOK'
      BY <1>2, <1>5, <1>8, <2>1 DEF PlainOK
    <2>3. RowsOK' /\ NoSilentChange'
      BY <1>2, <2>1, RowsSame, NothingNew
    <2>4. QED
      BY <1>7, <2>2, <2>3
  <1>11. QED
    BY <1>9, <1>10

LEMMA SetStatusStep ==
  ASSUME IInv, NEW a \in Admins, NEW c \in Clients, NEW s \in Statuses,
         SetStatus(a, c, s)
  PROVE  IInv'
  <1> USE DEF IInv
  <1>1. /\ row' = WithStatus({c}, s) /\ token' = TRUE /\ missed' = {}
        /\ edits < MaxEdits /\ edits' = edits + 1
        /\ UNCHANGED <<now, pc, todo, read, changed, config, metered, swept>>
    BY DEF SetStatus, Edit, Announce
  <1>2. RowsOK' /\ ReadOK'
    BY <1>1, StatusKeepsRows, ReadSame
  <1>3. PlainOK'
    BY <1>1 DEF PlainOK
  <1>4. QED
    BY <1>1, <1>2, <1>3, Announced

LEMMA ResetTrafficStep ==
  ASSUME IInv, NEW a \in Admins, NEW c \in Clients, ResetTraffic(a, c)
  PROVE  IInv'
  <1> USE DEF IInv
  <1>1. /\ row' = WithoutTraffic({c}) /\ metered' = [metered EXCEPT ![c] = 0]
        /\ edits < MaxEdits /\ edits' = edits + 1
        /\ UNCHANGED <<now, pc, todo, read, changed, token, missed, config,
                       swept>>
    BY DEF ResetTraffic, Edit
  <1>a. metered' = [d \in Clients |-> IF d \in {c} THEN 0 ELSE metered[d]]
    BY <1>1 DEF RowsOK
  <1>2. RowsOK' /\ \A d \in Clients : On(row'[d]) <=> On(row[d])
    BY <1>1, <1>a, ResetKeepsRows
  <1>3. ReadOK' /\ NoSilentChange'
    BY <1>1, <1>2, ReadSame, NothingNew
  <1>4. PlainOK'
    BY <1>1 DEF PlainOK
  <1>5. QED
    BY <1>2, <1>3, <1>4

LEMMA DeleteStep ==
  ASSUME IInv, NEW a \in Admins, NEW c \in Clients, Delete(a, c)
  PROVE  IInv'
  <1> USE DEF IInv
  <1>1. /\ row' = [row EXCEPT ![c] = Absent] /\ token' = TRUE /\ missed' = {}
        /\ edits < MaxEdits /\ edits' = edits + 1
        /\ UNCHANGED <<now, pc, todo, read, changed, config, metered, swept>>
    BY DEF Delete, Edit, Announce
  <1>2. GoodSlot(Absent, metered[c])
    BY DEF RowsOK, GoodSlot
  <1>3. RowsOK' /\ ReadOK'
    BY <1>1, <1>2, SlotWritten, ReadSame
  <1>4. PlainOK'
    BY <1>1 DEF PlainOK
  <1>5. QED
    BY <1>1, <1>3, <1>4, Announced

LEMMA BulkCheckStep ==
  ASSUME IInv, NEW a \in Admins, BulkCheck(a)
  PROVE  IInv'
  <1> USE DEF IInv
  <1>1. PICK C \in SUBSET Clients : todo' = [todo EXCEPT ![a] = C]
    BY DEF BulkCheck
  <1>2. /\ Goto(a, "bulk") /\ edits < MaxEdits /\ edits' = edits + 1
        /\ UNCHANGED <<now, row, read, changed, token, missed, config, metered,
                       swept>>
    BY DEF BulkCheck, Edit
  <1>3. /\ pc' \in [Procs -> Labels]
        /\ \A b \in Admins : pc'[b] = "update" => pc[b] = "update"
    BY <1>2, Went DEF Procs, Labels
  <1>4. RowsOK' /\ ReadOK'
    BY <1>2, <1>3, RowsSame, ReadSame
  <1>5. todo' \in [Procs -> SUBSET Clients]
    BY <1>1 DEF PlainOK
  <1>6. edits' \in 0 .. MaxEdits
    BY <1>2 DEF PlainOK
  <1>7. PlainOK'
    BY <1>2, <1>3, <1>5, <1>6 DEF PlainOK
  <1>8. NoSilentChange'
    BY <1>2, NothingNew
  <1>9. QED
    BY <1>4, <1>7, <1>8

LEMMA BulkWriteStep ==
  ASSUME IInv, NEW a \in Admins, BulkWrite(a)
  PROVE  IInv'
  <1> USE DEF IInv
  <1>1. /\ todo' = [todo EXCEPT ![a] = {}] /\ Goto(a, "idle")
        /\ UNCHANGED <<now, read, changed, config, swept, edits>>
    BY DEF BulkWrite
  <1>2. /\ pc' \in [Procs -> Labels]
        /\ \A b \in Admins : pc'[b] = "update" => pc[b] = "update"
    BY <1>1, Went DEF Procs, Labels
  <1>3. /\ ReadOK' /\ todo' \in [Procs -> SUBSET Clients]
        /\ todo[a] \in SUBSET Clients
    BY <1>1, <1>2, ReadSame DEF PlainOK, Procs
  <1>4. CASE \A c \in todo[a] : Exists(c)
    <2>1. CASE BulkStatus(todo[a])
      <3>1. PICK s \in {"active", "disabled"} : row' = WithStatus(todo[a], s)
        BY <2>1 DEF BulkStatus
      <3>2. token' = TRUE /\ missed' = {} /\ metered' = metered
        BY <2>1 DEF BulkStatus, Announce
      <3>3. RowsOK'
        BY <3>1, <3>2, StatusKeepsRows DEF Statuses
      <3>4. PlainOK'
        BY <1>1, <1>2, <1>3, <3>2 DEF PlainOK
      <3>5. QED
        BY <1>3, <3>2, <3>3, <3>4, Announced
    <2>2. CASE BulkDelete(todo[a])
      <3>1. row' = [c \in Clients |-> IF c \in todo[a] THEN Absent ELSE row[c]]
        BY <2>2 DEF BulkDelete
      <3>2. token' = TRUE /\ missed' = {} /\ metered' = metered
        BY <2>2 DEF BulkDelete, Announce
      <3>3. row' \in [Clients -> Row \union {Unused, Absent}]
        BY <3>1 DEF RowsOK
      <3>4. ASSUME NEW c \in Clients PROVE GoodSlot(row'[c], metered'[c])
        <4>1. row'[c] = Absent \/ row'[c] = row[c]
          BY <3>1
        <4>2. GoodSlot(row[c], metered[c])
          BY DEF RowsOK
        <4>3. GoodSlot(Absent, metered[c])
          BY <4>2 DEF GoodSlot
        <4>4. QED
          BY <3>2, <4>1, <4>2, <4>3
      <3>5. RowsOK'
        BY <3>2, <3>3, <3>4 DEF RowsOK
      <3>6. PlainOK'
        BY <1>1, <1>2, <1>3, <3>2 DEF PlainOK
      <3>7. QED
        BY <1>3, <3>2, <3>5, <3>6, Announced
    <2>3. CASE BulkResetTraffic(todo[a])
      <3>1. /\ row' = WithoutTraffic(todo[a])
            /\ metered' = [c \in Clients |->
                             IF c \in todo[a] THEN 0 ELSE metered[c]]
            /\ UNCHANGED <<token, missed>>
        BY <2>3 DEF BulkResetTraffic
      <3>2. RowsOK' /\ \A d \in Clients : On(row'[d]) <=> On(row[d])
        BY <1>3, <3>1, ResetKeepsRows
      <3>3. NoSilentChange'
        BY <1>1, <3>1, <3>2, NothingNew
      <3>4. PlainOK'
        BY <1>1, <1>2, <1>3, <3>1 DEF PlainOK
      <3>5. QED
        BY <1>3, <3>2, <3>3, <3>4
    <2>4. QED
      BY <1>4, <2>1, <2>2, <2>3 DEF BulkWrite
  <1>5. CASE ~ \A c \in todo[a] : Exists(c)
    <2>1. UNCHANGED <<row, metered, token, missed>>
      BY <1>5 DEF BulkWrite
    <2>2. PlainOK'
      BY <1>1, <1>2, <1>3, <2>1 DEF PlainOK
    <2>3. RowsOK' /\ NoSilentChange'
      BY <1>1, <2>1, RowsSame, NothingNew
    <2>4. QED
      BY <1>3, <2>2, <2>3
  <1>6. QED
    BY <1>4, <1>5

-----------------------------------------------------------------------------
(* The tasks, the applier and the clock.                                   *)

LEMMA StartTaskStep ==
  ASSUME IInv, StartTask
  PROVE  IInv'
  <1> USE DEF IInv
  <1>1. PICK C \in SUBSET Clients : todo' = [todo EXCEPT !["task"] = C]
    BY DEF StartTask
  <1>2. PICK l \in {"reset", "sweep"} : Goto("task", l)
    BY DEF StartTask
  <1>3. /\ edits < MaxEdits /\ edits' = edits + 1
        /\ UNCHANGED <<now, row, read, changed, token, missed, config, metered,
                       swept>>
    BY DEF StartTask, Edit
  <1>4. /\ pc' \in [Procs -> Labels]
        /\ \A a \in Admins : pc'[a] = "update" => pc[a] = "update"
    BY <1>2, Went DEF Procs, Labels
  <1>5. RowsOK' /\ ReadOK' /\ NoSilentChange'
    BY <1>3, <1>4, RowsSame, ReadSame, NothingNew
  <1>6. todo' \in [Procs -> SUBSET Clients]
    BY <1>1 DEF PlainOK
  <1>7. edits' \in 0 .. MaxEdits
    BY <1>3 DEF PlainOK
  <1>8. PlainOK'
    BY <1>3, <1>4, <1>6, <1>7 DEF PlainOK
  <1>9. QED
    BY <1>5, <1>8

LEMMA TaskResetsStep ==
  ASSUME IInv, NEW c \in Clients, TaskResets(c)
  PROVE  IInv'
  <1> USE DEF IInv
  <1>1. /\ row' = WithoutTraffic({c}) /\ metered' = [metered EXCEPT ![c] = 0]
        /\ todo' = [todo EXCEPT !["task"] = @ \ {c}]
        /\ UNCHANGED <<now, pc, read, changed, token, missed, config, swept,
                       edits>>
    BY DEF TaskResets
  <1>a. metered' = [d \in Clients |-> IF d \in {c} THEN 0 ELSE metered[d]]
    BY <1>1 DEF RowsOK
  <1>2. RowsOK' /\ \A d \in Clients : On(row'[d]) <=> On(row[d])
    BY <1>1, <1>a, ResetKeepsRows
  <1>3. ReadOK' /\ NoSilentChange'
    BY <1>1, <1>2, ReadSame, NothingNew
  <1>4. PlainOK'
    BY <1>1 DEF PlainOK, Procs
  <1>5. QED
    BY <1>2, <1>3, <1>4

LEMMA TaskDeletesStep ==
  ASSUME IInv, NEW c \in Clients, TaskDeletes(c)
  PROVE  IInv'
  <1> USE DEF IInv
  <1>1. /\ row' = [row EXCEPT ![c] = Absent]
        /\ swept' = IF Exists(c) THEN swept \union {c} ELSE swept
        /\ todo' = [todo EXCEPT !["task"] = @ \ {c}]
        /\ UNCHANGED <<now, pc, read, changed, token, missed, config, metered,
                       edits>>
    BY DEF TaskDeletes
  <1>2. GoodSlot(Absent, metered[c])
    BY DEF RowsOK, GoodSlot
  <1>3. RowsOK' /\ ReadOK'
    BY <1>1, <1>2, SlotWritten, ReadSame
  <1>4. swept' \subseteq Clients /\ \A d \in Clients : d \in swept => d \in swept'
    BY <1>1 DEF PlainOK
  <1>5. PlainOK'
    BY <1>1, <1>4 DEF PlainOK, Procs
  <1>6. ASSUME NEW d \in Clients
        PROVE  d \in swept' \/ (On(row'[d]) <=> On(row[d]))
    <2>1. CASE d = c /\ Exists(c)
      BY <1>1, <2>1
    <2>2. CASE d = c /\ ~ Exists(c)
      <3>1. row'[d] = Absent /\ row[d] \in {Unused, Absent}
        BY <1>1, <2>2 DEF RowsOK, Exists
      <3>2. QED
        BY <3>1 DEF On
    <2>3. CASE d # c
      BY <1>1, <2>3 DEF RowsOK
    <2>4. QED
      BY <2>1, <2>2, <2>3
  <1>7. NoSilentChange'
    BY <1>1, <1>4, <1>6, EnabledIsOn DEF NoSilentChange, Differing
  <1>8. QED
    BY <1>3, <1>5, <1>7

LEMMA TaskEndsStep ==
  ASSUME IInv, TaskEnds
  PROVE  IInv'
  <1> USE DEF IInv
  <1>1. /\ Goto("task", "idle")
        /\ UNCHANGED <<now, row, todo, read, changed, token, missed, config,
                       metered, swept, edits>>
    BY DEF TaskEnds
  <1>2. /\ pc' \in [Procs -> Labels]
        /\ \A a \in Admins : pc'[a] = "update" => pc[a] = "update"
    BY <1>1, Went DEF Procs, Labels
  <1>3. RowsOK' /\ ReadOK' /\ NoSilentChange'
    BY <1>1, <1>2, RowsSame, ReadSame, NothingNew
  <1>4. PlainOK'
    BY <1>1, <1>2 DEF PlainOK
  <1>5. QED
    BY <1>3, <1>4

LEMMA ApplyStep ==
  ASSUME IInv, Apply
  PROVE  IInv'
  <1> USE DEF IInv
  <1>1. /\ token' = FALSE /\ config' = ListEnabled /\ swept' = {}
        /\ missed' = {}
        /\ UNCHANGED <<now, row, pc, todo, read, changed, metered, edits>>
    BY DEF Apply
  <1>2. RowsOK' /\ ReadOK'
    BY <1>1, RowsSame, ReadSame
  <1>3. config' \subseteq Clients
    BY <1>1 DEF ListEnabled
  <1>4. PlainOK'
    BY <1>1, <1>3 DEF PlainOK
  <1>5. NoSilentChange'
    BY <1>1, EnabledIsOn DEF NoSilentChange, Differing
  <1>6. QED
    BY <1>2, <1>4, <1>5

LEMMA ApplyFailsStep ==
  ASSUME IInv, ApplyFails
  PROVE  IInv'
  <1> USE DEF IInv
  <1>1. /\ token' = FALSE /\ missed' = Differing
        /\ UNCHANGED <<now, row, pc, todo, read, changed, config, metered,
                       swept, edits>>
    BY DEF ApplyFails
  <1>2. RowsOK' /\ ReadOK'
    BY <1>1, RowsSame, ReadSame
  <1>3. missed' \subseteq Clients
    BY <1>1 DEF Differing
  <1>4. PlainOK'
    BY <1>1, <1>3 DEF PlainOK
  <1>5. Differing' = Differing
    BY <1>1, EnabledIsOn DEF Differing
  <1>6. NoSilentChange'
    BY <1>1, <1>5 DEF NoSilentChange
  <1>7. QED
    BY <1>2, <1>4, <1>6

LEMMA TimePassesStep ==
  ASSUME IInv, TimePasses
  PROVE  IInv'
  <1> USE DEF IInv
  <1>1. /\ now < MaxTime /\ now' = now + 1
        /\ UNCHANGED <<row, pc, todo, read, changed, token, missed, config,
                       metered, swept, edits>>
    BY DEF TimePasses
  <1>2. RowsOK' /\ ReadOK' /\ NoSilentChange'
    BY <1>1, RowsSame, ReadSame, NothingNew
  <1>3. now' \in 1 .. MaxTime
    BY <1>1 DEF PlainOK
  <1>4. PlainOK'
    BY <1>1, <1>3 DEF PlainOK
  <1>5. QED
    BY <1>2, <1>4

-----------------------------------------------------------------------------
(* Together.                                                               *)

\* The table starts with rows that Create has inserted, and the running
\* configuration is the one of that table.
LEMMA InitInv == Init => IInv
  <1> SUFFICES ASSUME Init PROVE IInv
    OBVIOUS
  <1>1. ASSUME NEW c \in Clients PROVE GoodSlot(row[c], metered[c])
    <2>1. row[c] = Unused \/ row[c] \in NewRows
      BY DEF Init
    <2>2. metered[c] = 0
      BY DEF Init
    <2>3. QED
      BY <2>1, <2>2 DEF GoodSlot, NewRows, Consistent
  <1>2. row \in [Clients -> Row \union {Unused, Absent}]
    BY DEF Init, NewRows
  <1>3. RowsOK
    BY <1>1, <1>2 DEF Init, RowsOK
  <1>4. ReadOK
    BY DEF Init, ReadOK, Procs
  <1>5. PlainOK
    <2>1. /\ pc \in [Procs -> Labels] /\ todo \in [Procs -> SUBSET Clients]
          /\ config \subseteq Clients
      BY DEF Init, Labels
    <2>2. now \in 1 .. MaxTime /\ edits \in 0 .. MaxEdits
      BY DEF Init
    <2>3. /\ changed \in [Loops -> BOOLEAN] /\ token \in BOOLEAN
          /\ swept \subseteq Clients /\ missed \subseteq Clients
      BY DEF Init
    <2>4. QED
      BY <2>1, <2>2, <2>3 DEF PlainOK
  <1>6. ASSUME NEW c \in Clients PROVE c \in config <=> On(row[c])
    <2>1. row[c] = Unused \/ row[c] \in NewRows
      BY DEF Init
    <2>2. c \in config <=> row[c] # Unused
      BY DEF Init
    <2>3. QED
      BY <2>1, <2>2 DEF On, NewRows
  <1>7. NoSilentChange
    BY <1>6, EnabledIsOn DEF NoSilentChange, Differing
  <1>8. QED
    BY <1>3, <1>4, <1>5, <1>7 DEF IInv

\* Every step of every goroutine keeps the invariant.
LEMMA StepInv == IInv /\ [Next]_vars => IInv'
  <1> SUFFICES ASSUME IInv, [Next]_vars PROVE IInv'
    OBVIOUS
  <1>1. CASE AddTraffic \/ Tick
    BY <1>1, AddTrafficStep, TickStep
  <1>2. ASSUME NEW l \in Loops, Enforce(l) PROVE IInv'
    BY <1>2, ListStep, EnforcedStep, ExpireStep DEF Enforce
  <1>3. ASSUME NEW l \in Loops, NEW c \in Clients, ExpireFails(l, c)
        PROVE  IInv'
    BY <1>3, ExpireFailsStep
  <1>4. ASSUME NEW a \in Admins, Request(a) PROVE IInv'
    BY <1>4, WriteRowStep, BulkCheckStep, BulkWriteStep, CreateStep,
       ReadRowStep, ResetTrafficStep, DeleteStep, SetStatusStep DEF Request
  <1>5. CASE StartTask \/ TaskEnds
    BY <1>5, StartTaskStep, TaskEndsStep
  <1>6. ASSUME NEW c \in Clients, TaskResets(c) \/ TaskDeletes(c)
        PROVE  IInv'
    BY <1>6, TaskResetsStep, TaskDeletesStep
  <1>7. CASE Apply \/ ApplyFails \/ TimePasses
    BY <1>7, ApplyStep, ApplyFailsStep, TimePassesStep
  <1>8. CASE UNCHANGED vars
    <2>1. UNCHANGED <<row, now, pc, todo, read, changed, token, missed, config,
                      metered, swept, edits>>
      BY <1>8 DEF vars
    <2>2. RowsOK' /\ ReadOK' /\ NoSilentChange'
      BY <2>1, RowsSame, ReadSame, NothingNew DEF IInv
    <2>3. PlainOK'
      BY <2>1 DEF PlainOK, IInv
    <2>4. QED
      BY <2>2, <2>3 DEF IInv
  <1>9. QED
    BY <1>1, <1>2, <1>3, <1>4, <1>5, <1>6, <1>7, <1>8 DEF Next

LEMMA AlwaysInv == Spec => []IInv
  BY InitInv, StepInv, PTL DEF Spec

(* The status columns of a client always agree, and every variable keeps   *)
(* its type (client/service.go:219-222,256, client_repo.go:128-136).       *)
THEOREM ColumnsAgree == Spec => []EnabledIffActive
  <1>1. IInv => EnabledIffActive
    <2> SUFFICES ASSUME IInv PROVE EnabledIffActive
      OBVIOUS
    <2>1. TypeOK
      BY DEF IInv, TypeOK, RowsOK, ReadOK, PlainOK
    <2>2. \A c \in Clients : Exists(c) => Consistent(row[c])
      BY ExistsIsRow DEF IInv, RowsOK, GoodSlot
    <2>3. QED
      BY <2>1, <2>2 DEF EnabledIffActive, Consistent
  <1>2. QED
    BY <1>1, AlwaysInv, PTL

(* A row holds the traffic metered since its last reset, whatever copies   *)
(* of it requests hold (client_repo.go:128-136,205,302).                   *)
THEOREM TrafficIsKept == Spec => []UsageSurvives
  <1>1. IInv => UsageSurvives
    BY ExistsIsRow DEF IInv, RowsOK, GoodSlot, UsageSurvives
  <1>2. QED
    BY <1>1, AlwaysInv, PTL

(* A client that the live configuration names and that may not connect, or *)
(* the reverse, is about to be corrected, or is one of those an Apply has  *)
(* failed to correct (worker.go:144-154, apply.go:141-167).                *)
THEOREM ChangesAreAnnounced == Spec => []NoSilentChange
  <1>1. IInv => NoSilentChange
    BY DEF IInv
  <1>2. QED
    BY <1>1, AlwaysInv, PTL

\* What enforce has yet to see, or to announce, or has announced in vain.
Due(c) ==
  \/ Violating(c)
  \/ token \/ c \in swept \/ \E l \in Loops : changed[l]
  \/ c \in missed /\ ~ row[c].enabled

(* A client over its limits that the live configuration still names is      *)
(* never overlooked: either the next list of enforce has it, or what        *)
(* disabled it is announced or about to be, or was announced and the Apply  *)
(* that followed has failed; no Update, batch or request leaves it          *)
(* connected with columns that enforce passes over.  The fairness of the    *)
(* loops does the rest of OneIsCutOff (worker.go:111-155, apply.go:141-167).*)
THEOREM WhoIsOverIsDue ==
  Spec => [](\A c \in config : Exists(c) /\ Over(row[c]) => Due(c))
  <1>1. ASSUME IInv, NEW c \in config, Exists(c), Over(row[c])
        PROVE  Due(c)
    <2>1. c \in Clients /\ Consistent(row[c])
      BY <1>1, ExistsIsRow DEF IInv, RowsOK, GoodSlot, PlainOK
    <2>2. CASE row[c].enabled
      BY <1>1, <2>1, <2>2 DEF Consistent, Violating, Due
    <2>3. CASE ~ row[c].enabled
      <3>1. c \notin ListEnabled
        BY <2>3 DEF ListEnabled
      <3>2. QED
        BY <1>1, <2>1, <2>3, <3>1 DEF IInv, NoSilentChange, Differing, Due
    <2>4. QED
      BY <2>2, <2>3
  <1>2. IInv => \A c \in config : Exists(c) /\ Over(row[c]) => Due(c)
    BY <1>1
  <1>3. QED
    BY <1>2, AlwaysInv, PTL

-----------------------------------------------------------------------------
(* The accounting of traffic.                                              *)

USE AccountingAssumption DEF AccountingAssumption

\* The owner of an open connection is known, and the connection has carried
\* no more than the owner has moved.
OwnedOK ==
  \A k \in Conns : owner[k] # None => /\ name[owner[k]] # None
                                      /\ bytes[k] <= moved[owner[k]]

\* What a poll has read of a connection is charged, or held to be charged.
ChargedOK ==
  ~ spoiled =>
    \A k \in Conns : owner[k] # None /\ prev[k] # None =>
      prev[k] <= used[owner[k]] + (IF tick = "list"
                                     THEN deltas[name[owner[k]]] ELSE 0)

\* The inductive invariant.
ChargeInv ==
  AccountingTypes /\ UniqueNames(name) /\ OwnedOK /\ ChargedOK

\* Traffic that the next poll will read.
Waiting == [k \in Conns |-> IF owner[k] = None THEN 0 ELSE Delta(k)]

\* Polled traffic in the given step of the tick.
Held(step) == IF tick = step THEN SumFunctionOnSet(deltas, Names) ELSE 0

\* What is charged, held and waiting was moved, or is charged once more
\* because a poll has forgotten it.
MoneyOK ==
  /\ SumFunctionOnSet(used, Rows) + Held("list")
       + SumFunctionOnSet(Waiting, Conns)
       <= SumFunctionOnSet(moved, Rows) + forgotten
  /\ daily + Held("rollup") <= SumFunctionOnSet(used, Rows)

LEMMA AccountsAreFinite ==
  IsFiniteSet(Rows) /\ IsFiniteSet(Names) /\ IsFiniteSet(Conns)
  <1>1. /\ IsFiniteSet(Locals) /\ IsFiniteSet(Remotes)
        /\ IsFiniteSet(Names) /\ IsFiniteSet(Conns)
    OBVIOUS
  <1>2. IsFiniteSet(Locals \union Remotes)
    BY <1>1, FS_Union
  <1>3. QED
    BY <1>1, <1>2 DEF Rows

LEMMA AccountsAreNumbers ==
  /\ \A f \in [Rows -> Nat] : SumFunctionOnSet(f, Rows) \in Nat
  /\ \A f \in [Names -> Nat] : SumFunctionOnSet(f, Names) \in Nat
  /\ \A f \in [Conns -> Nat] : SumFunctionOnSet(f, Conns) \in Nat
  <1>1. ASSUME NEW S, IsFiniteSet(S), NEW f \in [S -> Nat]
        PROVE  SumFunctionOnSet(f, S) \in Nat
    <2>1. \A x \in S : f[x] \in Nat
      OBVIOUS
    <2>2. QED
      BY <1>1, <2>1, SumTakes
  <1>2. QED
    BY <1>1, AccountsAreFinite

\* The least row with a name.
LEMMA ByNameFacts ==
  ASSUME NEW n
  PROVE  IF \E c \in Rows : name[c] = n
           THEN ByName(n) \in Rows /\ name[ByName(n)] = n
           ELSE ByName(n) = None
  <1> SUFFICES ASSUME NEW c0 \in Rows, name[c0] = n
               PROVE  ByName(n) \in Rows /\ name[ByName(n)] = n
    BY DEF ByName
  <1> DEFINE S == {c \in Rows : name[c] = n}
             R == OpToRel(<, Nat)
  <1>1. IsWellFoundedOn(R, Nat)
    BY NatLessThanWellFounded
  <1>2. S \subseteq Nat /\ S # {}
    BY DEF Rows
  <1> HIDE DEF R, S
  <1>3. PICK x \in S : \A y \in S : <<y, x>> \notin R
    BY ONLY <1>1, <1>2, WFMin
  <1>4. ASSUME NEW y \in S PROVE x <= y
    <2>1. x \in Nat /\ y \in Nat
      BY <1>2
    <2>2. ~ (y < x)
      BY <1>3, <2>1 DEF R, OpToRel
    <2>3. QED
      BY <2>1, <2>2
  <1>5. x \in Rows /\ name[x] = n /\ \A d \in Rows : name[d] = n => x <= d
    BY <1>4 DEF S
  <1>6. QED
    BY <1>5 DEF ByName

\* Names are unique among local rows.
LEMMA LocalByName ==
  ASSUME UniqueNames(name), NEW c \in Locals, name[c] # None,
         ByName(name[c]) \notin Remotes
  PROVE  ByName(name[c]) = c
  <1>1. c \in Rows
    BY DEF Rows
  <1>2. ByName(name[c]) \in Rows /\ name[ByName(name[c])] = name[c]
    BY <1>1, ByNameFacts
  <1>3. ByName(name[c]) \in Locals
    BY <1>2 DEF Rows
  <1>4. QED
    BY <1>2, <1>3 DEF UniqueNames

LEMMA ConnFacts ==
  ASSUME AccountingTypes, NEW k \in Conns, owner[k] # None
  PROVE  /\ owner[k] \in Locals /\ owner[k] \in Rows
         /\ used[owner[k]] \in Nat /\ moved[owner[k]] \in Nat
         /\ name[owner[k]] \in Names \union {None}
         /\ bytes[k] \in Nat /\ (prev[k] # None => prev[k] \in Nat)
  <1>1. owner[k] \in Locals /\ owner[k] \in Rows
    BY DEF AccountingTypes, Rows
  <1>2. \A m \in Amounts : m \in Nat
    BY DEF Amounts
  <1>3. QED
    BY <1>1, <1>2 DEF AccountingTypes

LEMMA DeltaFacts ==
  ASSUME AccountingTypes, NEW k \in Conns
  PROVE  /\ bytes[k] \in Nat
         /\ Delta(k) \in Nat
         /\ prev[k] # None => prev[k] \in Nat /\ bytes[k] <= prev[k] + Delta(k)
         /\ prev[k] = None => Delta(k) = bytes[k]
  <1>1. bytes[k] \in Nat /\ (prev[k] # None => prev[k] \in Nat)
    BY DEF AccountingTypes, Amounts
  <1>2. QED
    BY <1>1 DEF Delta

-----------------------------------------------------------------------------
(* Steps, for the types and for what has been polled.                      *)

LEMMA OpenCharges ==
  ASSUME ChargeInv, NEW k \in Conns, NEW c \in Locals, Open(k, c)
  PROVE  ChargeInv'
  <1>1. AccountingTypes'
    BY DEF ChargeInv, AccountingTypes, Open, Amounts
  <1>2. UniqueNames(name)'
    BY DEF ChargeInv, Open, UniqueNames
  <1>3. c \in Rows /\ moved[c] \in Nat
    BY DEF Rows, ChargeInv, AccountingTypes, Amounts
  <1>4. OwnedOK'
    BY <1>3 DEF ChargeInv, AccountingTypes, OwnedOK, Open
  <1>5. ChargedOK'
    BY DEF ChargeInv, AccountingTypes, ChargedOK, Open
  <1>6. QED
    BY <1>1, <1>2, <1>4, <1>5 DEF ChargeInv

LEMMA TransferCharges ==
  ASSUME ChargeInv, NEW k \in Conns, Transfer(k)
  PROVE  ChargeInv'
  <1>1. owner[k] \in Rows /\ owner[k] # None
    BY DEF ChargeInv, AccountingTypes, Transfer, Rows
  <1>2. /\ bytes[k] \in Amounts /\ moved[owner[k]] \in Amounts
        /\ bytes[k] <= moved[owner[k]] /\ moved[owner[k]] < MaxMoved
    BY <1>1 DEF ChargeInv, AccountingTypes, OwnedOK, Transfer
  <1>3. bytes[k] + 1 \in Amounts /\ moved[owner[k]] + 1 \in Amounts
    BY <1>2 DEF Amounts
  <1>4. AccountingTypes'
    BY <1>1, <1>3 DEF ChargeInv, AccountingTypes, Transfer
  <1>5. UniqueNames(name)'
    BY DEF ChargeInv, Transfer, UniqueNames
  <1>6. OwnedOK'
    <2> SUFFICES ASSUME NEW j \in Conns, owner[j] # None
                 PROVE  name[owner[j]] # None /\ bytes'[j] <= moved'[owner[j]]
      BY DEF OwnedOK, Transfer
    <2>1. /\ name[owner[j]] # None /\ owner[j] \in Rows
          /\ bytes[j] \in Nat /\ moved[owner[j]] \in Nat
          /\ bytes[j] <= moved[owner[j]]
      BY ConnFacts DEF ChargeInv, OwnedOK
    <2>2. bytes'[j] = IF j = k THEN bytes[k] + 1 ELSE bytes[j]
      BY DEF ChargeInv, AccountingTypes, Transfer
    <2>3. moved'[owner[j]] = IF owner[j] = owner[k] THEN moved[owner[j]] + 1
                                                    ELSE moved[owner[j]]
      BY <1>1, <2>1 DEF ChargeInv, AccountingTypes, Transfer
    <2>4. QED
      BY <2>1, <2>2, <2>3
  <1>7. ChargedOK'
    BY DEF ChargeInv, ChargedOK, Transfer
  <1>8. QED
    BY <1>4, <1>5, <1>6, <1>7 DEF ChargeInv

LEMMA CloseCharges ==
  ASSUME ChargeInv, NEW k \in Conns, Close(k)
  PROVE  ChargeInv'
  <1>1. AccountingTypes'
    BY DEF ChargeInv, AccountingTypes, Close
  <1>2. UniqueNames(name)'
    BY DEF ChargeInv, Close, UniqueNames
  <1>3. \A j \in Conns : owner'[j] # None => owner'[j] = owner[j]
    BY DEF ChargeInv, AccountingTypes, Close
  <1>4. OwnedOK'
    BY <1>3 DEF ChargeInv, OwnedOK, Close
  <1>5. ChargedOK'
    BY <1>3 DEF ChargeInv, ChargedOK, Close
  <1>6. QED
    BY <1>1, <1>2, <1>4, <1>5 DEF ChargeInv

\* What a connection has grown by is part of the delta of its client.
LEMMA PolledFacts ==
  ASSUME AccountingTypes, NEW failing
  PROVE  /\ Polled(failing) \in [Names -> Nat]
         /\ \A k \in Conns : Resolved(k, failing) =>
              Delta(k) <= Polled(failing)[name[owner[k]]]
  <1> DEFINE f == [k \in Conns |-> Delta(k)]
             Of(n) == {k \in Conns : /\ Resolved(k, failing)
                                     /\ name[owner[k]] = n}
  <1>1. \A k \in Conns : f[k] \in Nat
    BY DeltaFacts
  <1>2. \A n : Of(n) \in SUBSET Conns
    OBVIOUS
  <1>3. Polled(failing) = [n \in Names |-> SumFunctionOnSet(f, Of(n))]
    BY DEF Polled
  <1>4. \A k \in Conns : f[k] = Delta(k)
    OBVIOUS
  <1>5. \A k \in Conns : Resolved(k, failing) =>
          k \in Of(name[owner[k]]) /\ name[owner[k]] \in Names
    BY DEF Resolved, AccountingTypes, Rows
  <1> HIDE DEF f, Of
  <1>6. \A n : IsFiniteSet(Of(n)) /\ SumFunctionOnSet(f, Of(n)) \in Nat
    BY <1>1, <1>2, AccountsAreFinite, SumPart
  <1>7. ASSUME NEW k \in Conns, Resolved(k, failing)
        PROVE  Delta(k) <= SumFunctionOnSet(f, Of(name[owner[k]]))
    <2> DEFINE T == Of(name[owner[k]])
    <2>1. k \in T /\ IsFiniteSet(T) /\ \A j \in T : f[j] \in Nat
      BY <1>1, <1>2, <1>5, <1>6, <1>7
    <2> HIDE DEF T
    <2>2. f[k] <= SumFunctionOnSet(f, T)
      BY <2>1, SumMember
    <2>3. QED
      BY <1>4, <2>2 DEF T
  <1>8. QED
    BY <1>3, <1>5, <1>6, <1>7

LEMMA ForgottenIsNat ==
  ASSUME AccountingTypes, NEW failing
  PROVE  Forgotten(failing) \in Nat
  <1> DEFINE f == [k \in Conns |->
                     IF owner[k] # None /\ ~ Resolved(k, failing)
                       THEN bytes[k] - Delta(k) ELSE 0]
  <1>1. \A k \in Conns : bytes[k] - Delta(k) \in Nat
    BY DeltaFacts DEF Delta
  <1>2. \A k \in Conns : f[k] \in Nat
    BY <1>1
  <1>3. Forgotten(failing) = SumFunctionOnSet(f, Conns)
    BY DEF Forgotten
  <1> HIDE DEF f
  <1>4. QED
    BY <1>2, <1>3, AccountsAreFinite, SumTakes

LEMMA PollCharges ==
  ASSUME ChargeInv, Poll
  PROVE  ChargeInv'
  <1>1. PICK failing \in LookupFailures :
          /\ failing # {} => ends < MaxEnds
          /\ deltas' = Polled(failing)
          /\ prev' = [k \in Conns |->
                        IF Resolved(k, failing) THEN bytes[k] ELSE None]
          /\ forgotten' = forgotten + Forgotten(failing)
          /\ ends' = IF failing = {} THEN ends ELSE ends + 1
    BY DEF Poll
  <1>2. deltas' \in [Names -> Nat]
    BY <1>1, PolledFacts DEF ChargeInv
  <1>3. AccountingTypes'
    <2>1. forgotten' \in Nat
      BY <1>1, ForgottenIsNat DEF ChargeInv, AccountingTypes
    <2>2. ends' \in 0 .. MaxEnds
      BY <1>1, AccountingAssumption DEF ChargeInv, AccountingTypes
    <2>3. prev' \in [Conns -> Amounts \union {None}]
      BY <1>1 DEF ChargeInv, AccountingTypes
    <2>4. QED
      BY <1>2, <2>1, <2>2, <2>3 DEF ChargeInv, AccountingTypes, Poll
  <1>4. UniqueNames(name)' /\ OwnedOK'
    BY DEF ChargeInv, Poll, UniqueNames, OwnedOK
  <1>5. ChargedOK'
    <2> SUFFICES ASSUME ~ spoiled, NEW k \in Conns, owner[k] # None,
                        prev'[k] # None
                 PROVE  prev'[k] <= used[owner[k]] + deltas'[name[owner[k]]]
      BY DEF ChargedOK, Poll
    <2>1. Resolved(k, failing) /\ prev'[k] = bytes[k]
      BY <1>1
    <2>2. Delta(k) <= deltas'[name[owner[k]]]
      BY <1>1, <2>1, PolledFacts DEF ChargeInv
    <2>3. prev[k] # None => prev[k] <= used[owner[k]]
      <3>1. used[owner[k]] \in Nat /\ tick = "idle"
        BY DEF ChargeInv, AccountingTypes, Rows, Poll
      <3>2. prev[k] # None => prev[k] <= used[owner[k]] + 0
        BY <3>1 DEF ChargeInv, ChargedOK
      <3>3. QED
        BY <3>1, <3>2
    <2>4. /\ used[owner[k]] \in Nat /\ deltas'[name[owner[k]]] \in Nat
          /\ bytes[k] \in Nat /\ Delta(k) \in Nat
      BY <1>2, <2>1, DeltaFacts
      DEF ChargeInv, AccountingTypes, Rows, Resolved
    <2>5. /\ prev[k] # None => prev[k] \in Nat /\ bytes[k] <= prev[k] + Delta(k)
          /\ prev[k] = None => Delta(k) = bytes[k]
      BY DeltaFacts DEF ChargeInv
    <2>6. QED
      BY <2>1, <2>2, <2>3, <2>4, <2>5
  <1>6. QED
    BY <1>3, <1>4, <1>5 DEF ChargeInv

\* What AddTraffic adds to the row c.
Share(c) == SumFunctionOnSet(deltas, {n \in Known : ByName(n) = c})

LEMMA ShareFacts ==
  ASSUME AccountingTypes, NEW c
  PROVE  /\ Share(c) \in Nat
         /\ \A n \in Known : ByName(n) = c => deltas[n] <= Share(c)
  <1> DEFINE T == {n \in Known : ByName(n) = c}
  <1>1. T \in SUBSET Names
    BY DEF Known
  <1>2. \A n \in Names : deltas[n] \in Nat
    BY DEF AccountingTypes
  <1>3. Share(c) = SumFunctionOnSet(deltas, T)
    BY DEF Share
  <1>4. \A n \in Known : ByName(n) = c => n \in T
    OBVIOUS
  <1> HIDE DEF T
  <1>5. IsFiniteSet(T) /\ SumFunctionOnSet(deltas, T) \in Nat
    BY <1>1, <1>2, AccountsAreFinite, SumPart
  <1>6. \A n \in T : deltas[n] \in Nat
    BY <1>1, <1>2
  <1>7. ASSUME NEW n \in T PROVE deltas[n] <= SumFunctionOnSet(deltas, T)
    BY <1>5, <1>6, SumMember
  <1>8. QED
    BY <1>3, <1>4, <1>5, <1>7

LEMMA AccountCharges ==
  ASSUME ChargeInv, Account
  PROVE  ChargeInv'
  <1>1. used' = [c \in Rows |-> used[c] + Share(c)]
    BY DEF Account, Share
  <1>2. \A c \in Rows : used[c] \in Nat /\ Share(c) \in Nat
    BY ShareFacts DEF ChargeInv, AccountingTypes
  <1>3. used' \in [Rows -> Nat]
    BY <1>1, <1>2
  <1>4. deltas' \in [Names -> Nat]
    BY DEF Account, ChargeInv, AccountingTypes
  <1>5. spoiled' \in BOOLEAN
    BY DEF Account, ChargeInv, AccountingTypes
  <1>6. AccountingTypes'
    BY <1>3, <1>4, <1>5 DEF ChargeInv, AccountingTypes, Account
  <1>7. UniqueNames(name)' /\ OwnedOK'
    BY DEF ChargeInv, Account, UniqueNames, OwnedOK
  <1>8. ChargedOK'
    <2> SUFFICES ASSUME ~ spoiled', NEW k \in Conns, owner[k] # None,
                        prev[k] # None
                 PROVE  prev[k] <= used'[owner[k]]
      <3>1. \A j \in Conns : owner[j] # None =>
              used'[owner[j]] + 0 = used'[owner[j]]
        <4> SUFFICES ASSUME NEW j \in Conns, owner[j] # None
                     PROVE  used'[owner[j]] + 0 = used'[owner[j]]
          OBVIOUS
        <4>1. owner[j] \in Rows
          BY ConnFacts DEF ChargeInv
        <4>2. used'[owner[j]] \in Nat
          BY <1>3, <4>1
        <4>3. QED
          BY <4>2
      <3>2. QED
        BY <3>1 DEF ChargedOK, Account
    <2> DEFINE c == owner[k]
               n == name[c]
    <2>1. /\ c \in Locals /\ c \in Rows /\ n # None /\ n \in Names
          /\ prev[k] \in Nat
      BY ConnFacts DEF ChargeInv, OwnedOK
    <2>2. prev[k] <= used[c] + deltas[n]
      BY DEF ChargeInv, ChargedOK, Account
    <2>3. ~ Misdirected
      BY DEF Account
    <2>4. used'[c] = used[c] + Share(c)
      BY <1>1, <2>1
    <2>5. deltas[n] \in Nat /\ used[c] \in Nat /\ Share(c) \in Nat
      BY <1>2, <2>1 DEF ChargeInv, AccountingTypes
    <2> HIDE DEF c, n
    <2>6. deltas[n] <= Share(c)
      <3>1. CASE deltas[n] = 0
        BY <2>5, <3>1
      <3>2. CASE deltas[n] > 0
        <4>1. ByName(n) \in Rows
          BY <2>1, ByNameFacts DEF n
        <4>2. n \in Known
          BY <2>1, <3>2, <4>1 DEF Known
        <4>3. ByName(n) \notin Remotes
          BY <2>3, <4>2 DEF Misdirected
        <4>4. ByName(n) = c
          BY <2>1, <4>3, LocalByName DEF n, ChargeInv
        <4>5. QED
          BY <4>2, <4>4, ShareFacts DEF ChargeInv
      <3>3. QED
        BY <2>5, <3>1, <3>2
    <2>7. prev[k] <= used'[c]
      BY <2>1, <2>2, <2>4, <2>5, <2>6
    <2>8. QED
      BY <2>7 DEF c
  <1>9. QED
    BY <1>6, <1>7, <1>8 DEF ChargeInv

LEMMA RollupCharges ==
  ASSUME ChargeInv, AddFails \/ Rollup
  PROVE  ChargeInv'
  <1>1. daily' \in Nat
    <2>1. SumFunctionOnSet(deltas, Names) \in Nat /\ DOMAIN deltas = Names
      BY AccountsAreNumbers DEF ChargeInv, AccountingTypes
    <2>2. SumFunction(deltas) \in Nat
      BY <2>1 DEF SumFunction
    <2>3. daily \in Nat
      BY DEF ChargeInv, AccountingTypes
    <2>4. QED
      BY <2>2, <2>3 DEF AddFails, Rollup
  <1>2. deltas' \in [Names -> Nat]
    BY DEF AddFails, Rollup, NoDeltas
  <1>3. AccountingTypes'
    BY <1>1, <1>2 DEF ChargeInv, AccountingTypes, AddFails, Rollup
  <1>4. UniqueNames(name)' /\ OwnedOK'
    BY DEF ChargeInv, AddFails, Rollup, UniqueNames, OwnedOK
  <1>5. ChargedOK'
    BY DEF ChargeInv, ChargedOK, AddFails, Rollup
  <1>6. QED
    BY <1>3, <1>4, <1>5 DEF ChargeInv

LEMMA RenameCharges ==
  ASSUME ChargeInv, NEW c \in Locals, NEW n \in Names, Rename(c, n)
  PROVE  ChargeInv'
  <1>1. c \in Rows /\ n # None
    BY DEF Rows
  <1>2. /\ name' = [name EXCEPT ![c] = n] /\ UniqueNames(name')
        /\ renames < MaxRenames /\ renames' = renames + 1
    BY DEF Rename
  <1>3. AccountingTypes'
    BY <1>1, <1>2 DEF ChargeInv, AccountingTypes, Rename
  <1>4. \A d \in Rows : name[d] # None => name'[d] # None
    BY <1>1, <1>2 DEF ChargeInv, AccountingTypes
  <1>5. OwnedOK'
    BY <1>4 DEF ChargeInv, AccountingTypes, OwnedOK, Rename, Rows
  <1>6. ChargedOK'
    BY DEF ChargeInv, ChargedOK, Rename
  <1>7. QED
    BY <1>2, <1>3, <1>5, <1>6 DEF ChargeInv, UniqueNames

LEMMA RestartCharges ==
  ASSUME ChargeInv, Restart
  PROVE  ChargeInv'
  <1>1. \A k \in Conns : owner'[k] = None
    BY DEF Restart, NoCounter
  <1>2. AccountingTypes'
    BY DEF ChargeInv, AccountingTypes, Restart, NoCounter, NoDeltas
  <1>3. UniqueNames(name)'
    BY DEF ChargeInv, Restart, UniqueNames
  <1>4. OwnedOK' /\ ChargedOK'
    BY <1>1 DEF OwnedOK, ChargedOK
  <1>5. QED
    BY <1>2, <1>3, <1>4 DEF ChargeInv

LEMMA ChargeInit == AccountingInit => ChargeInv
  <1> SUFFICES ASSUME AccountingInit PROVE ChargeInv
    OBVIOUS
  <1>1. 0 \in Amounts /\ 0 \in 0 .. MaxRenames /\ 0 \in 0 .. MaxEnds
    BY DEF Amounts
  <1>2. AccountingTypes
    BY <1>1 DEF AccountingInit, AccountingTypes, NoCounter, NoDeltas
  <1>3. UniqueNames(name)
    BY DEF AccountingInit
  <1>4. OwnedOK /\ ChargedOK
    BY DEF AccountingInit, OwnedOK, ChargedOK, NoCounter
  <1>5. QED
    BY <1>2, <1>3, <1>4 DEF ChargeInv

LEMMA ChargeStep == ChargeInv /\ [AccountingNext]_accountingVars => ChargeInv'
  <1> SUFFICES ASSUME ChargeInv, [AccountingNext]_accountingVars
               PROVE  ChargeInv'
    OBVIOUS
  <1>1. CASE UNCHANGED accountingVars
    BY <1>1 DEF accountingVars, ChargeInv, AccountingTypes, UniqueNames,
                OwnedOK, ChargedOK
  <1>2. ASSUME NEW k \in Conns, Transfer(k) \/ Close(k) PROVE ChargeInv'
    BY <1>2, TransferCharges, CloseCharges
  <1>3. ASSUME NEW k \in Conns, NEW c \in Locals, Open(k, c) PROVE ChargeInv'
    BY <1>3, OpenCharges
  <1>4. ASSUME NEW c \in Locals, NEW n \in Names, Rename(c, n) PROVE ChargeInv'
    BY <1>4, RenameCharges
  <1>5. CASE PollFails
    BY <1>1, <1>5 DEF PollFails
  <1>6. QED
    BY <1>1, <1>2, <1>3, <1>4, <1>5, PollCharges, AccountCharges,
       RollupCharges, RestartCharges DEF AccountingNext

(* Between two ticks each row shows at least what the last poll has seen   *)
(* of every open connection of its client, the named exceptions apart, for *)
(* any connections, clients and names and whatever lookups fail            *)
(* (clash_user.go:99-125, worker.go:193-228).                              *)
THEOREM PolledTrafficIsCharged == AccountingSpec => []PolledIsCharged
  <1>1. AccountingSpec => []ChargeInv
    BY ChargeInit, ChargeStep, PTL DEF AccountingSpec
  <1>2. ASSUME ChargeInv PROVE PolledIsCharged
    <2> SUFFICES ASSUME tick = "idle", ~ spoiled, NEW k \in Conns,
                        owner[k] # None, prev[k] # None
                 PROVE  used[owner[k]] >= prev[k]
      BY DEF PolledIsCharged
    <2>1. used[owner[k]] \in Nat /\ prev[k] \in Nat
      BY <1>2, ConnFacts DEF ChargeInv
    <2>2. prev[k] <= used[owner[k]] + 0
      BY <1>2 DEF ChargeInv, ChargedOK
    <2>3. QED
      BY <2>1, <2>2
  <1>3. QED
    BY <1>1, <1>2, PTL

-----------------------------------------------------------------------------
(* Steps, for what is charged altogether.                                  *)

LEMMA MoneyNumbers ==
  ASSUME AccountingTypes
  PROVE  /\ Waiting \in [Conns -> Nat]
         /\ SumFunctionOnSet(used, Rows) \in Nat
         /\ SumFunctionOnSet(moved, Rows) + forgotten \in Nat
         /\ SumFunctionOnSet(deltas, Names) \in Nat
         /\ SumFunctionOnSet(Waiting, Conns) \in Nat
         /\ Held("list") \in Nat /\ Held("rollup") \in Nat
         /\ daily \in Nat
  <1>1. Waiting \in [Conns -> Nat]
    BY DeltaFacts DEF Waiting
  <1>2. moved \in [Rows -> Nat]
    <2>1. \A m \in Amounts : m \in Nat
      BY DEF Amounts
    <2>2. QED
      BY <2>1 DEF AccountingTypes
  <1>3. /\ used \in [Rows -> Nat] /\ deltas \in [Names -> Nat]
        /\ daily \in Nat /\ forgotten \in Nat
    BY DEF AccountingTypes
  <1>4. SumFunctionOnSet(deltas, Names) \in Nat
    BY <1>3, AccountsAreNumbers
  <1>5. QED
    BY <1>1, <1>2, <1>3, <1>4, AccountsAreNumbers DEF Held

\* Of the next state.
LEMMA MoneyNumbersNext ==
  ASSUME AccountingTypes'
  PROVE  /\ Waiting' \in [Conns -> Nat]
         /\ SumFunctionOnSet(used', Rows) \in Nat
         /\ SumFunctionOnSet(moved', Rows) + forgotten' \in Nat
         /\ SumFunctionOnSet(deltas', Names) \in Nat
         /\ SumFunctionOnSet(Waiting', Conns) \in Nat
         /\ daily' \in Nat
  <1>1. \A m \in Amounts : m \in Nat
    BY DEF Amounts
  <1>2. Waiting' \in [Conns -> Nat]
    <2>1. ASSUME NEW k \in Conns PROVE Delta(k)' \in Nat
      <3>1. bytes'[k] \in Nat /\ (prev'[k] # None => prev'[k] \in Nat)
        BY <1>1 DEF AccountingTypes
      <3>2. QED
        BY <3>1 DEF Delta
    <2>2. QED
      BY <2>1 DEF Waiting
  <1>3. moved' \in [Rows -> Nat]
    BY <1>1 DEF AccountingTypes
  <1>4. /\ used' \in [Rows -> Nat] /\ deltas' \in [Names -> Nat]
        /\ daily' \in Nat /\ forgotten' \in Nat
    BY DEF AccountingTypes
  <1>5. SumFunctionOnSet(deltas', Names) \in Nat
    BY <1>4, AccountsAreNumbers
  <1>6. QED
    BY <1>2, <1>3, <1>4, <1>5, AccountsAreNumbers

\* Nothing is charged, held or moved, and no more waits than before.
LEMMA MoneyWaits ==
  ASSUME ChargeInv, ChargeInv', MoneyOK,
         used' = used, daily' = daily, moved' = moved, forgotten' = forgotten,
         (tick' = tick /\ deltas' = deltas) \/ tick' = "idle",
         \A k \in Conns : Waiting'[k] = Waiting[k] \/ Waiting'[k] = 0
  PROVE  MoneyOK'
  <1> DEFINE a == SumFunctionOnSet(used, Rows)
             m == SumFunctionOnSet(moved, Rows) + forgotten
             w == SumFunctionOnSet(Waiting, Conns)
             v == SumFunctionOnSet(Waiting', Conns)
  <1>1. /\ a \in Nat /\ m \in Nat /\ w \in Nat /\ daily \in Nat
        /\ Held("list") \in Nat /\ Held("rollup") \in Nat
        /\ Waiting \in [Conns -> Nat]
    BY MoneyNumbers DEF ChargeInv
  <1>2. v \in Nat
    BY MoneyNumbersNext DEF ChargeInv
  <1>3. v <= w
    <2> DEFINE T == {k \in Conns : Waiting'[k] = Waiting[k]}
               f == Waiting
               e == Waiting'
    <2>1. \A k \in Conns : f[k] \in Nat
      BY <1>1
    <2>2. \A k \in Conns : e[k] = IF k \in T THEN f[k] ELSE 0
      OBVIOUS
    <2>3. T \in SUBSET Conns
      OBVIOUS
    <2> HIDE DEF T, f, e
    <2>4. SumFunctionOnSet(e, Conns) = SumFunctionOnSet(f, T)
      BY <2>1, <2>2, <2>3, AccountsAreFinite, SumKept
    <2>5. SumFunctionOnSet(f, T) <= SumFunctionOnSet(f, Conns)
      BY <2>1, <2>3, AccountsAreFinite, SumPart
    <2>6. QED
      BY <2>4, <2>5 DEF f, e
  <1>4. /\ Held("list")' = Held("list") \/ Held("list")' = 0
        /\ Held("rollup")' = Held("rollup") \/ Held("rollup")' = 0
    BY DEF Held
  <1>5. a + Held("list") + w <= m /\ daily + Held("rollup") <= a
    BY DEF MoneyOK
  <1> HIDE DEF a, m, w, v
  <1>6. a + Held("list")' + v <= m /\ daily + Held("rollup")' <= a
    BY <1>1, <1>2, <1>3, <1>4, <1>5
  <1>7. QED
    BY <1>6 DEF MoneyOK, a, m, v

LEMMA OpenMoney ==
  ASSUME ChargeInv, ChargeInv', MoneyOK, NEW k \in Conns, NEW c \in Locals,
         Open(k, c)
  PROVE  MoneyOK'
  <1>1. /\ used' = used /\ daily' = daily /\ moved' = moved
        /\ forgotten' = forgotten
        /\ tick' = tick /\ deltas' = deltas /\ prev' = prev
        /\ owner[k] = None
    BY DEF Open
  <1>2. ASSUME NEW j \in Conns, j # k PROVE Waiting'[j] = Waiting[j]
    <2>1. owner'[j] = owner[j] /\ bytes'[j] = bytes[j]
      BY <1>2 DEF Open, ChargeInv, AccountingTypes
    <2>2. QED
      BY <1>1, <2>1 DEF Waiting, Delta
  <1>3. Waiting'[k] = 0
    <2>1. bytes'[k] = 0 /\ (prev[k] # None => prev[k] \in Nat)
      <3>1. \A m \in Amounts : m \in Nat
        BY DEF Amounts
      <3>2. QED
        BY <3>1 DEF Open, ChargeInv, AccountingTypes
    <2>2. Delta(k)' = 0
      BY <1>1, <2>1 DEF Delta
    <2>3. QED
      BY <2>2 DEF Waiting
  <1>4. QED
    BY <1>1, <1>2, <1>3, MoneyWaits

LEMMA TransferMoney ==
  ASSUME ChargeInv, ChargeInv', MoneyOK, NEW k \in Conns, Transfer(k)
  PROVE  MoneyOK'
  <1> DEFINE a == SumFunctionOnSet(used, Rows)
             m == SumFunctionOnSet(moved, Rows) + forgotten
             n == SumFunctionOnSet(moved', Rows) + forgotten'
             w == SumFunctionOnSet(Waiting, Conns)
             v == SumFunctionOnSet(Waiting', Conns)
             c == owner[k]
  <1>1. /\ used' = used /\ daily' = daily /\ owner' = owner /\ prev' = prev
        /\ tick' = tick /\ deltas' = deltas /\ owner[k] # None
        /\ forgotten' = forgotten /\ forgotten \in Nat
        /\ bytes' = [bytes EXCEPT ![k] = bytes[k] + 1]
        /\ moved' = [moved EXCEPT ![c] = moved[c] + 1]
    BY DEF Transfer, ChargeInv, AccountingTypes
  <1>2. /\ a \in Nat /\ m \in Nat /\ w \in Nat
        /\ Held("list") \in Nat /\ Waiting \in [Conns -> Nat]
    BY MoneyNumbers DEF ChargeInv
  <1>3. v \in Nat /\ n \in Nat /\ Waiting' \in [Conns -> Nat]
    BY MoneyNumbersNext DEF ChargeInv
  <1>4. c \in Rows /\ bytes[k] \in Nat
    BY <1>1, ConnFacts DEF ChargeInv
  <1>5. n = m + 1
    <2> DEFINE e == moved'
    <2>1. /\ e[c] = moved[c] + 1 /\ \A d \in Rows : d # c => e[d] = moved[d]
          /\ \A d \in Rows : moved[d] \in Nat
          /\ \A d \in Rows : e[d] \in Nat
      <3>1. \A x \in Amounts : x \in Nat
        BY DEF Amounts
      <3>2. QED
        BY <1>1, <1>4, <3>1 DEF ChargeInv, AccountingTypes
    <2>2. \A d \in Rows : e[d] \in Nat
      BY <2>1
    <2>3. \A d \in Rows : moved[d] \in Nat
      BY <2>1
    <2>4. \A d \in Rows : d # c => e[d] = moved[d]
      BY <2>1
    <2> HIDE DEF e, c
    <2>5. SumFunctionOnSet(e, Rows) + moved[c]
            = SumFunctionOnSet(moved, Rows) + e[c]
      BY ONLY <1>4, <2>2, <2>3, <2>4, AccountsAreFinite, SumUpdate
    <2>a. /\ SumFunctionOnSet(e, Rows) \in Nat
          /\ SumFunctionOnSet(moved, Rows) \in Nat
      BY ONLY <2>2, <2>3, AccountsAreFinite, SumTakes
    <2>6. n + moved[c] = m + (moved[c] + 1) /\ moved[c] \in Nat
      BY <1>1, <1>4, <2>1, <2>5, <2>a DEF e
    <2> HIDE DEF n, m
    <2>7. QED
      BY <1>2, <1>3, <2>6
  <1>6. v <= w + 1
    <2> DEFINE f == Waiting
               e == Waiting'
    <2>1. \A j \in Conns : f[j] \in Nat
      BY <1>2
    <2>2. \A j \in Conns : e[j] \in Nat
      BY <1>3
    <2>3. \A j \in Conns : j # k => e[j] = f[j]
      BY <1>1 DEF Waiting, Delta, ChargeInv, AccountingTypes
    <2>4. e[k] <= f[k] + 1
      <3>1. bytes'[k] = bytes[k] + 1
        BY <1>1 DEF ChargeInv, AccountingTypes
      <3>2. prev[k] # None => prev[k] \in Nat
        BY DeltaFacts DEF ChargeInv
      <3>3. e[k] = Delta(k)' /\ f[k] = Delta(k)
        BY <1>1 DEF Waiting
      <3>4. Delta(k)' <= Delta(k) + 1
        BY <1>1, <1>4, <3>1, <3>2 DEF Delta
      <3>5. QED
        BY <3>3, <3>4
    <2>5. f[k] \in Nat /\ e[k] \in Nat
      BY <2>1, <2>2
    <2> HIDE DEF f, e
    <2>6. SumFunctionOnSet(e, Conns) + f[k] = SumFunctionOnSet(f, Conns) + e[k]
      BY ONLY <2>1, <2>2, <2>3, AccountsAreFinite, SumUpdate, k \in Conns
    <2>7. v + f[k] = w + e[k]
      BY <2>6 DEF e, f
    <2> HIDE DEF v, w
    <2>8. QED
      BY <1>2, <1>3, <2>4, <2>5, <2>7
  <1>7. Held("list")' = Held("list") /\ Held("rollup")' = Held("rollup")
    BY <1>1 DEF Held
  <1>8. a + Held("list") + w <= m /\ daily + Held("rollup") <= a
    BY DEF MoneyOK
  <1> HIDE DEF a, m, n, w, v
  <1>9. a + Held("list")' + v <= n /\ daily + Held("rollup")' <= a
    BY <1>2, <1>3, <1>5, <1>6, <1>7, <1>8
  <1>10. QED
    BY <1>1, <1>9 DEF MoneyOK, a, n, v

LEMMA CloseMoney ==
  ASSUME ChargeInv, ChargeInv', MoneyOK, NEW k \in Conns, Close(k)
  PROVE  MoneyOK'
  <1>1. /\ used' = used /\ daily' = daily /\ moved' = moved
        /\ forgotten' = forgotten
        /\ tick' = tick /\ deltas' = deltas /\ prev' = prev /\ bytes' = bytes
    BY DEF Close
  <1>2. \A j \in Conns : owner'[j] = owner[j] \/ owner'[j] = None
    BY DEF Close, ChargeInv, AccountingTypes
  <1>3. \A j \in Conns : Waiting'[j] = Waiting[j] \/ Waiting'[j] = 0
    BY <1>1, <1>2 DEF Waiting, Delta
  <1>4. QED
    BY <1>1, <1>3, MoneyWaits

\* Every connection has one name, so that the deltas of the names are what
\* the connections have grown by.
LEMMA PollMoney ==
  ASSUME ChargeInv, ChargeInv', MoneyOK, Poll
  PROVE  MoneyOK'
  <1> DEFINE a == SumFunctionOnSet(used, Rows)
             m == SumFunctionOnSet(moved, Rows) + forgotten
             w == SumFunctionOnSet(Waiting, Conns)
             v == SumFunctionOnSet(Waiting', Conns)
             d == SumFunctionOnSet(deltas', Names)
  <1>0. PICK failing \in LookupFailures :
          /\ deltas' = Polled(failing)
          /\ prev' = [k \in Conns |->
                        IF Resolved(k, failing) THEN bytes[k] ELSE None]
          /\ forgotten' = forgotten + Forgotten(failing)
    BY DEF Poll
  <1> DEFINE x == Forgotten(failing)
             S == {k \in Conns : Resolved(k, failing)}
  <1>1. /\ used' = used /\ daily' = daily /\ moved' = moved /\ owner' = owner
        /\ bytes' = bytes /\ tick = "idle" /\ tick' = "list"
    BY DEF Poll
  <1>2. /\ a \in Nat /\ m \in Nat /\ w \in Nat /\ daily \in Nat
        /\ Waiting \in [Conns -> Nat]
    BY MoneyNumbers DEF ChargeInv
  <1>3. /\ d \in Nat /\ v \in Nat /\ Waiting' \in [Conns -> Nat]
    BY MoneyNumbersNext DEF ChargeInv
  <1>4. S \in SUBSET Conns /\ IsFiniteSet(S) /\ IsFiniteSet(Conns)
        /\ IsFiniteSet(Names)
    BY AccountsAreFinite, FS_Subset
  \* What each connection gives to the deltas, and what it leaves to charge
  \* once more.
  <1> DEFINE f == [k \in Conns |-> Delta(k)]
             p == [k \in Conns |-> IF k \in S THEN f[k] ELSE 0]
             o == [k \in Conns |->
                     IF owner[k] # None /\ ~ Resolved(k, failing)
                       THEN bytes[k] - Delta(k) ELSE 0]
             y == [k \in Conns |-> Waiting[k] + o[k]]
             W == Waiting
             V == Waiting'
  <1>5. /\ \A k \in Conns : f[k] \in Nat /\ p[k] \in Nat
        /\ \A k \in Conns : W[k] \in Nat /\ V[k] \in Nat
        /\ \A k \in Conns : p[k] = IF k \in S THEN f[k] ELSE 0
    BY <1>2, <1>3, DeltaFacts DEF ChargeInv
  <1>6. ASSUME NEW k \in Conns
        PROVE  /\ o[k] \in Nat
               /\ y[k] = W[k] + o[k]
               /\ y[k] = p[k] + V[k]
    <2>1. /\ bytes[k] \in Nat /\ Delta(k) \in Nat /\ bytes'[k] = bytes[k]
          /\ (prev[k] # None => prev[k] \in Nat)
      BY <1>1, DeltaFacts DEF ChargeInv
    <2>2. Delta(k) <= bytes[k]
      BY <2>1 DEF Delta
    <2>3. y[k] = W[k] + o[k] /\ W[k] \in Nat /\ o[k] \in Nat
      BY <1>5, <2>1, <2>2
    <2>4. CASE owner[k] = None
      <3>1. o[k] = 0 /\ W[k] = 0 /\ p[k] = 0 /\ V[k] = 0
        BY <1>1, <2>4 DEF Waiting, Resolved
      <3> HIDE DEF o, W, p, V, y
      <3>2. QED
        BY <2>3, <3>1
    <2>5. CASE owner[k] # None /\ k \in S
      <3>1. prev'[k] = bytes[k] /\ prev'[k] # None
        <4>1. prev'[k] = bytes[k]
          BY <1>0, <2>5
        <4>2. QED
          BY <4>1 DEF ChargeInv, AccountingTypes
      <3>2. Delta(k)' = 0
        BY <2>1, <3>1 DEF Delta
      <3>3. V[k] = 0
        BY <1>1, <2>5, <3>2 DEF Waiting
      <3>4. o[k] = 0 /\ W[k] = Delta(k) /\ p[k] = Delta(k)
        BY <2>5 DEF Waiting
      <3> HIDE DEF o, W, p, V, y
      <3>5. QED
        BY <2>1, <2>3, <3>3, <3>4
    <2>6. CASE owner[k] # None /\ k \notin S
      <3>1. prev'[k] = None
        BY <1>0, <2>6
      <3>2. Delta(k)' = bytes[k]
        BY <2>1, <3>1 DEF Delta
      <3>3. V[k] = bytes[k]
        BY <1>1, <2>6, <3>2 DEF Waiting
      <3>4. o[k] = bytes[k] - Delta(k) /\ W[k] = Delta(k) /\ p[k] = 0
        BY <2>6 DEF Waiting
      <3> HIDE DEF o, W, p, V, y
      <3>5. QED
        BY <2>1, <2>3, <3>3, <3>4
    <2>7. QED
      BY <2>3, <2>4, <2>5, <2>6
  <1>7. d = SumFunctionOnSet(p, Conns)
    <2> DEFINE part == [n \in Names |->
                          {k \in Conns : /\ Resolved(k, failing)
                                         /\ name[owner[k]] = n}]
               h == deltas'
    <2>1. \A n \in Names : h[n] = SumFunctionOnSet(f, part[n])
      BY <1>0 DEF Polled
    <2>2. /\ \A n \in Names : part[n] \in SUBSET S
          /\ \A i, j \in Names : i # j => part[i] \intersect part[j] = {}
      OBVIOUS
    <2>3. \A k \in S : \E n \in Names : k \in part[n]
      <3> TAKE k \in S
      <3>1. name[owner[k]] \in Names /\ Resolved(k, failing)
        BY ConnFacts DEF ChargeInv, OwnedOK, Resolved
      <3>2. k \in part[name[owner[k]]]
        BY <3>1
      <3>3. QED
        BY <3>1, <3>2
    <2>4. \A k \in S : f[k] \in Nat
      BY <1>5
    <2> HIDE DEF S, f, p, part, h
    <2>5. SumFunctionOnSet(h, Names) = SumFunctionOnSet(f, S)
      BY ONLY <1>4, <2>1, <2>2, <2>3, <2>4, SumOfParts
    <2>6. SumFunctionOnSet(p, Conns) = SumFunctionOnSet(f, S)
      BY ONLY <1>4, <1>5, SumKept
    <2>7. QED
      BY <2>5, <2>6 DEF h
  <1>8. x = SumFunctionOnSet(o, Conns)
    BY DEF Forgotten
  <1> HIDE DEF S, f, p, o, y, W, V
  <1>9. /\ \A k \in Conns : o[k] \in Nat
        /\ \A k \in Conns : y[k] = W[k] + o[k]
        /\ \A k \in Conns : y[k] = p[k] + V[k]
    BY <1>6
  <1>10. SumFunctionOnSet(o, Conns) \in Nat
    BY ONLY <1>4, <1>9, SumTakes
  <1>11. SumFunctionOnSet(y, Conns)
           = SumFunctionOnSet(W, Conns) + SumFunctionOnSet(o, Conns)
    BY ONLY <1>4, <1>5, <1>9, SumPlus
  <1>12. SumFunctionOnSet(y, Conns)
           = SumFunctionOnSet(p, Conns) + SumFunctionOnSet(V, Conns)
    BY ONLY <1>4, <1>5, <1>9, SumPlus
  <1>13. d + v = w + x /\ x \in Nat
    BY <1>7, <1>8, <1>10, <1>11, <1>12 DEF W, V
  <1>14. Held("list")' = d /\ Held("rollup")' = 0
    BY <1>1 DEF Held
  <1>15. Held("list") = 0 /\ Held("rollup") = 0
    BY <1>1 DEF Held
  <1>16. a + Held("list") + w <= m /\ daily + Held("rollup") <= a
    BY DEF MoneyOK
  <1>17. SumFunctionOnSet(moved, Rows) + forgotten' = m + x
    <2>1. SumFunctionOnSet(moved, Rows) \in Nat /\ forgotten \in Nat
      <3>1. \A c \in Rows : moved[c] \in Nat
        BY DEF ChargeInv, AccountingTypes, Amounts
      <3>2. QED
        BY <3>1, AccountsAreFinite, SumTakes DEF ChargeInv, AccountingTypes
    <2>2. forgotten' = forgotten + x
      BY <1>0
    <2> HIDE DEF x
    <2>3. QED
      BY <1>13, <2>1, <2>2
  <1> HIDE DEF a, m, w, v, d, x
  <1>18. a + Held("list")' + v <= m + x /\ daily + Held("rollup")' <= a
    BY <1>2, <1>3, <1>13, <1>14, <1>15, <1>16
  <1>19. QED
    BY <1>1, <1>17, <1>18 DEF MoneyOK, a, v

\* Every known name has one row, so that the rows get what the names have.
LEMMA AccountMoney ==
  ASSUME ChargeInv, ChargeInv', MoneyOK, Account
  PROVE  MoneyOK'
  <1> DEFINE a == SumFunctionOnSet(used, Rows)
             b == SumFunctionOnSet(used', Rows)
             m == SumFunctionOnSet(moved, Rows) + forgotten
             w == SumFunctionOnSet(Waiting, Conns)
             d == SumFunctionOnSet(deltas, Names)
             k == SumFunctionOnSet(deltas, Known)
  <1>1. /\ used' = [c \in Rows |-> used[c] + Share(c)]
        /\ deltas' = [n \in Names |-> IF n \in Known THEN deltas[n] ELSE 0]
        /\ daily' = daily /\ moved' = moved /\ owner' = owner
        /\ bytes' = bytes /\ prev' = prev /\ tick = "list" /\ tick' = "rollup"
        /\ forgotten' = forgotten
    BY DEF Account, Share
  <1>2. /\ a \in Nat /\ m \in Nat /\ w \in Nat /\ daily \in Nat /\ d \in Nat
    BY MoneyNumbers DEF ChargeInv
  <1>3. /\ Known \in SUBSET Names
        /\ \A n \in Names : deltas[n] \in Nat
        /\ IsFiniteSet(Names) /\ IsFiniteSet(Rows)
    BY AccountsAreFinite DEF Known, ChargeInv, AccountingTypes
  <1>4. IsFiniteSet(Known) /\ k \in Nat /\ k <= d
    BY <1>3, SumPart
  <1>5. b = a + k
    <2> DEFINE part == [c \in Rows |-> {n \in Known : ByName(n) = c}]
               h == [c \in Rows |-> Share(c)]
               e == used'
               S == Known
    <2>1. \A c \in Rows : h[c] = SumFunctionOnSet(deltas, part[c])
      BY DEF Share
    <2>2. /\ \A c \in Rows : part[c] \in SUBSET S
          /\ \A x, y \in Rows : x # y => part[x] \intersect part[y] = {}
      OBVIOUS
    <2>3. \A n \in S : \E c \in Rows : n \in part[c]
      <3>1. \A n \in Known : ByName(n) \in Rows
        BY ByNameFacts DEF Known
      <3>2. QED
        BY <3>1
    <2>4. \A c \in Rows : used[c] \in Nat /\ h[c] \in Nat /\ e[c] = used[c] + h[c]
      BY <1>1, ShareFacts DEF ChargeInv, AccountingTypes
    <2>5. IsFiniteSet(S) /\ \A n \in S : deltas[n] \in Nat
      BY <1>3, <1>4
    <2> HIDE DEF part, h, e, S
    <2>6. SumFunctionOnSet(h, Rows) = SumFunctionOnSet(deltas, S)
      BY ONLY <1>3, <2>1, <2>2, <2>3, <2>5, SumOfParts
    <2>7. SumFunctionOnSet(e, Rows)
            = SumFunctionOnSet(used, Rows) + SumFunctionOnSet(h, Rows)
      BY ONLY <1>3, <2>4, SumPlus
    <2>8. QED
      BY <2>6, <2>7 DEF e, S
  <1>6. SumFunctionOnSet(deltas', Names) = k
    <2> DEFINE e == deltas'
    <2>1. \A n \in Names : e[n] = IF n \in Known THEN deltas[n] ELSE 0
      BY <1>1
    <2> HIDE DEF e
    <2>2. SumFunctionOnSet(e, Names) = SumFunctionOnSet(deltas, Known)
      BY <1>3, <2>1, SumKept
    <2>3. QED
      BY <2>2 DEF e
  <1>7. Waiting' = Waiting
    BY <1>1 DEF Waiting, Delta
  <1>8. /\ Held("list") = d /\ Held("rollup") = 0
        /\ Held("list")' = 0 /\ Held("rollup")' = k
    BY <1>1, <1>6 DEF Held
  <1>9. a + Held("list") + w <= m /\ daily + Held("rollup") <= a
    BY DEF MoneyOK
  <1> HIDE DEF a, b, m, w, d, k
  <1>10. b + Held("list")' + w <= m /\ daily + Held("rollup")' <= b
    BY <1>2, <1>4, <1>5, <1>8, <1>9
  <1>11. QED
    BY <1>1, <1>7, <1>10 DEF MoneyOK, b, m, w

LEMMA RollupMoney ==
  ASSUME ChargeInv, ChargeInv', MoneyOK, Rollup
  PROVE  MoneyOK'
  <1> DEFINE a == SumFunctionOnSet(used, Rows)
             m == SumFunctionOnSet(moved, Rows) + forgotten
             w == SumFunctionOnSet(Waiting, Conns)
             d == SumFunctionOnSet(deltas, Names)
  <1>1. /\ used' = used /\ moved' = moved /\ owner' = owner /\ bytes' = bytes
        /\ prev' = prev /\ tick = "rollup" /\ tick' = "idle"
        /\ forgotten' = forgotten
        /\ daily' \in {daily, daily + SumFunction(deltas)}
    BY DEF Rollup
  <1>2. /\ a \in Nat /\ m \in Nat /\ w \in Nat /\ daily \in Nat /\ d \in Nat
    BY MoneyNumbers DEF ChargeInv
  <1>3. SumFunction(deltas) = d
    BY DEF SumFunction, ChargeInv, AccountingTypes
  <1>4. Waiting' = Waiting
    BY <1>1 DEF Waiting, Delta
  <1>5. /\ Held("list") = 0 /\ Held("rollup") = d
        /\ Held("list")' = 0 /\ Held("rollup")' = 0
    BY <1>1 DEF Held
  <1>6. a + Held("list") + w <= m /\ daily + Held("rollup") <= a
    BY DEF MoneyOK
  <1>7. daily' = daily \/ daily' = daily + d
    BY <1>1, <1>3
  <1> HIDE DEF a, m, w, d
  <1>8. a + Held("list")' + w <= m /\ daily' + Held("rollup")' <= a
    BY <1>2, <1>5, <1>6, <1>7
  <1>9. QED
    BY <1>1, <1>4, <1>8 DEF MoneyOK, a, m, w

LEMMA OthersMoney ==
  ASSUME ChargeInv, ChargeInv', MoneyOK,
         \/ AddFails \/ Restart \/ UNCHANGED accountingVars
         \/ \E c \in Locals, n \in Names : Rename(c, n)
  PROVE  MoneyOK'
  <1>1. /\ used' = used /\ daily' = daily /\ moved' = moved
        /\ forgotten' = forgotten
        /\ (tick' = tick /\ deltas' = deltas) \/ tick' = "idle"
    BY DEF AddFails, Restart, Rename, accountingVars
  <1>2. CASE Restart
    <2>1. \A k \in Conns : Waiting'[k] = 0
      BY <1>2 DEF Restart, Waiting, NoCounter
    <2>2. QED
      BY <1>1, <2>1, MoneyWaits
  <1>3. CASE owner' = owner /\ bytes' = bytes /\ prev' = prev
    <2>1. Waiting' = Waiting
      BY <1>3 DEF Waiting, Delta
    <2>2. QED
      BY <1>1, <2>1, MoneyWaits
  <1>4. QED
    BY <1>2, <1>3 DEF AddFails, Rename, accountingVars

LEMMA MoneyInit == AccountingInit => MoneyOK
  <1> SUFFICES ASSUME AccountingInit PROVE MoneyOK
    OBVIOUS
  <1>1. /\ \A c \in Rows : used[c] = 0
        /\ \A c \in Rows : moved[c] = 0
        /\ daily = 0 /\ forgotten = 0 /\ Held("list") = 0 /\ Held("rollup") = 0
        /\ \A k \in Conns : Waiting[k] = 0
    BY DEF AccountingInit, Held, Waiting, NoCounter
  <1>2. SumFunctionOnSet(used, Rows) = 0 /\ SumFunctionOnSet(moved, Rows) = 0
    BY <1>1, AccountsAreFinite, SumZero
  <1> DEFINE W == Waiting
  <1>3. \A k \in Conns : W[k] = 0
    BY <1>1
  <1> HIDE DEF W
  <1>4. SumFunctionOnSet(W, Conns) = 0
    BY <1>3, AccountsAreFinite, SumZero
  <1>5. SumFunctionOnSet(Waiting, Conns) = 0
    BY <1>4 DEF W
  <1>6. QED
    BY <1>1, <1>2, <1>5 DEF MoneyOK

LEMMA MoneyStep ==
  ChargeInv /\ MoneyOK /\ [AccountingNext]_accountingVars => MoneyOK'
  <1> SUFFICES ASSUME ChargeInv, MoneyOK, [AccountingNext]_accountingVars
               PROVE  MoneyOK'
    OBVIOUS
  <1>1. ChargeInv'
    BY ChargeStep
  <1>2. ASSUME NEW k \in Conns, Transfer(k) \/ Close(k) PROVE MoneyOK'
    BY <1>1, <1>2, TransferMoney, CloseMoney
  <1>3. ASSUME NEW k \in Conns, NEW c \in Locals, Open(k, c) PROVE MoneyOK'
    BY <1>1, <1>3, OpenMoney
  <1>4. CASE PollFails
    BY <1>1, <1>4, OthersMoney DEF PollFails
  <1>5. QED
    BY <1>1, <1>2, <1>3, <1>4, PollMoney, AccountMoney, RollupMoney,
       OthersMoney DEF AccountingNext

(* The rows together and the daily rollup never show more traffic than     *)
(* there was, but for the counters that failed lookups made polls forget,  *)
(* and no counter is negative, whatever polls and writes fail, whatever    *)
(* ids are used again and however clients are renamed                      *)
(* (main.go:279-285, clash_user.go:85-126, worker.go:208-232).             *)
THEOREM NothingIsChargedTwice == AccountingSpec => []NoDoubleCharge
  <1>1. AccountingSpec => [](ChargeInv /\ MoneyOK)
    BY ChargeInit, ChargeStep, MoneyInit, MoneyStep, PTL DEF AccountingSpec
  <1>2. ASSUME ChargeInv, MoneyOK PROVE NoDoubleCharge
    <2> DEFINE a == SumFunctionOnSet(used, Rows)
               m == SumFunctionOnSet(moved, Rows) + forgotten
               w == SumFunctionOnSet(Waiting, Conns)
    <2>1. /\ a \in Nat /\ m \in Nat /\ w \in Nat /\ daily \in Nat
          /\ Held("list") \in Nat /\ Held("rollup") \in Nat
      BY <1>2, MoneyNumbers DEF ChargeInv
    <2>2. a + Held("list") + w <= m /\ daily + Held("rollup") <= a
      BY <1>2 DEF MoneyOK
    <2>3. SumFunction(used) = a /\ SumFunction(moved) + forgotten = m
      BY <1>2 DEF SumFunction, ChargeInv, AccountingTypes
    <2> HIDE DEF a, m, w
    <2>4. a <= m /\ daily <= m
      BY <2>1, <2>2
    <2>5. QED
      BY <1>2, <2>3, <2>4 DEF NoDoubleCharge, ChargeInv
  <1>3. QED
    BY <1>1, <1>2, PTL

=============================================================================
