---------------------------- MODULE Books_proofs ----------------------------
(***************************************************************************)
(* Proofs about the two components that add up amounts, Balances and       *)
(* Accounting, for any requests, accounts, entries, instruments, prices,   *)
(* amounts and bounds.                                                     *)
(*                                                                         *)
(* A sum over a finite set is a recursion over its subsets.  The first     *)
(* part says what every such recursion computes, by induction over the     *)
(* subsets; the induction is an argument about a least counterexample.     *)
(*                                                                         *)
(* Balances: whoever is past the lock of the portfolio holds it, and what  *)
(* it has read is what there is (LockedInv), so the sum it has checked is  *)
(* the sum that its own row completes.                                     *)
(*                                                                         *)
(* Accounting: what allocate, lots_for and the matching of lots compute    *)
(* is proved first, then what an entry adds to the totals, the postings    *)
(* and the session.  The inductive invariant, BooksInv, says how the lots  *)
(* tie the three together: their signed quantities are the units of the    *)
(* session, their signed cost is what cash lacks of the totals, and what   *)
(* came to the session is the change of cash.                              *)
(***************************************************************************)
EXTENDS Accounting, Balances, FiniteSetTheorems, SequenceTheorems, WellFoundedInduction, TLAPS

(***************************************************************************)
(* Sums.                                                                   *)
(***************************************************************************)
\* Induction over a set of numbers: the least number it lacks would follow one it has.
LEMMA NumbersByInduction ==
    ASSUME NEW T, 0 \in T, \A n \in Nat : n \in T => n + 1 \in T
    PROVE  Nat \subseteq T
<1> DEFINE Lacking == Nat \ T
<1> SUFFICES ASSUME Lacking # {} PROVE FALSE
  OBVIOUS
<1>1. PICK n \in Lacking : \A m \in Lacking : <<m, n>> \notin OpToRel(<, Nat)
  <2> HIDE DEF Lacking
  <2>1. Lacking \subseteq Nat
    BY DEF Lacking
  <2> QED
    BY <2>1, NatLessThanWellFounded, WFMin
<1>2. n \in Nat /\ n \notin T
  OBVIOUS
<1>3. n - 1 \in Nat /\ n - 1 \notin T
  BY <1>2
<1>4. <<n - 1, n>> \in OpToRel(<, Nat)
  BY <1>2, <1>3 DEF OpToRel
<1> QED
  BY <1>1, <1>3, <1>4

\* Induction over the subsets of a finite set.
LEMMA SubsetsByInduction ==
    ASSUME NEW S, IsFiniteSet(S), NEW T,
           \A U \in SUBSET S : (\A V \in SUBSET U : V # U => V \in T) => U \in T
    PROVE  SUBSET S \subseteq T
<1> DEFINE Lacking == (SUBSET S) \ T
<1> SUFFICES ASSUME Lacking # {} PROVE FALSE
  OBVIOUS
<1>1. IsWellFoundedOn(StrictSubsetOrdering(S), SUBSET S)
  <2>1. FiniteSubsetsOf(S) = SUBSET S
    BY FS_FiniteSubsetsOfFinite
  <2>2. IsWellFoundedOn(StrictSubsetOrdering(S), FiniteSubsetsOf(S))
    BY FS_StrictSubsetOrderingWellFounded
  <2> QED
    BY <2>1, <2>2
<1>2. PICK U \in Lacking : \A V \in Lacking : <<V, U>> \notin StrictSubsetOrdering(S)
  <2> HIDE DEF Lacking
  <2>1. Lacking \subseteq SUBSET S
    BY DEF Lacking
  <2> QED
    BY <1>1, <2>1, WFMin
<1>3. PICK V \in SUBSET U : V # U /\ V \notin T
  BY <1>2
<1>4. <<V, U>> \in StrictSubsetOrdering(S)
  BY <1>2, <1>3 DEF StrictSubsetOrdering
<1> QED
  BY <1>2, <1>3, <1>4

\* The same, with the hypothesis under a name.
Inductive(S, T) == \A U \in SUBSET S : (\A V \in SUBSET U : V # U => V \in T) => U \in T

LEMMA SubsetsBySteps ==
    ASSUME NEW S, IsFiniteSet(S), NEW T, Inductive(S, T)
    PROVE  SUBSET S \subseteq T
BY SubsetsByInduction DEF Inductive

SumOn(w, S) == MapThenSumSet(LAMBDA i : w[i], S)
Pick(s) == CHOOSE x \in s : TRUE
\* The recursion behind MapThenSumSet.
Sums(w, S, g) == g = [s \in SUBSET S |-> IF s = {} THEN 0 ELSE w[Pick(s)] + g[s \ {Pick(s)}]]
Weights(w, S) == IsFiniteSet(S) /\ \A x \in S : w[x] \in Int

\* A fold over a finite set, in any order of its elements, is defined.
IsFold(S, base, step, c, g) ==
    g = [s \in SUBSET S |-> IF s = {} THEN base ELSE step[<<c[s], g[s \ {c[s]}]>>]]

LEMMA FoldExists ==
    ASSUME NEW S, IsFiniteSet(S), NEW V, NEW base \in V, NEW step \in [S \X V -> V],
           NEW c, \A s \in SUBSET S : s # {} => c[s] \in s
    PROVE  \E g \in [SUBSET S -> V] : IsFold(S, base, step, c, g)
<1> DEFINE Small(n) == {s \in SUBSET S : Cardinality(s) <= n}
           Value(g, s) == IF s = {} THEN base ELSE step[<<c[s], g[s \ {c[s]}]>>]
           T == {n \in Nat : \E g \in [Small(n) -> V] : g = [s \in Small(n) |-> Value(g, s)]}
<1>0. \A s \in SUBSET S : IsFiniteSet(s) /\ Cardinality(s) \in Nat /\ (Cardinality(s) = 0 <=> s = {})
  BY FS_Subset, FS_CardinalityType, FS_EmptySet
<1>1. \A s \in SUBSET S : s # {} =>
         /\ c[s] \in s /\ c[s] \in S /\ s \ {c[s]} \in SUBSET S
         /\ Cardinality(s \ {c[s]}) = Cardinality(s) - 1
  BY <1>0, FS_RemoveElement
<1>2. 0 \in T
  <2> DEFINE g == [s \in Small(0) |-> base]
  <2>1. \A s \in Small(0) : s = {}
    BY <1>0
  <2>2. g \in [Small(0) -> V] /\ g = [s \in Small(0) |-> Value(g, s)]
    BY <2>1
  <2> QED
    BY <2>2
<1>3. ASSUME NEW n \in Nat, n \in T PROVE n + 1 \in T
  <2>1. PICK g \in [Small(n) -> V] : g = [s \in Small(n) |-> Value(g, s)]
    BY <1>3
  <2> DEFINE h == [s \in Small(n + 1) |-> IF s \in Small(n) THEN g[s] ELSE Value(g, s)]
  <2>2. ASSUME NEW s \in Small(n + 1)
        PROVE  h[s] \in V /\ h[s] = Value(h, s)
    <3>1. CASE s = {}
      BY <1>0, <2>1, <3>1
    <3>2. CASE s # {}
      <4>1. s \ {c[s]} \in Small(n) /\ s \ {c[s]} \in Small(n + 1)
        BY <1>0, <1>1, <3>2
      <4>2. h[s \ {c[s]}] = g[s \ {c[s]}] /\ g[s \ {c[s]}] \in V
        BY <4>1
      <4>3. s \in Small(n) => g[s] = Value(g, s) /\ g[s] \in V
        BY <2>1
      <4>4. step[<<c[s], g[s \ {c[s]}]>>] \in V
        BY <1>1, <3>2, <4>2
      <4> QED
        BY <3>2, <4>2, <4>3, <4>4
    <3> QED
      BY <3>1, <3>2
  <2>3. h \in [Small(n + 1) -> V] /\ h = [s \in Small(n + 1) |-> Value(h, s)]
    <3>1. \A s \in Small(n + 1) : h[s] \in V /\ h[s] = Value(h, s)
      BY <2>2
    <3>2. h = [s \in Small(n + 1) |-> h[s]]
      OBVIOUS
    <3> HIDE DEF h, Small, Value
    <3> QED
      BY <3>1, <3>2
  <2> HIDE DEF h, Small, Value
  <2> QED
    BY <2>3
<1>4. Nat \subseteq T
  <2> HIDE DEF T
  <2> QED
    BY <1>2, <1>3, NumbersByInduction
<1>5. Cardinality(S) \in T
  BY <1>0, <1>4
<1>6. Small(Cardinality(S)) = SUBSET S
  BY <1>0, FS_Subset
<1>7. PICK g \in [Small(Cardinality(S)) -> V] : g = [s \in Small(Cardinality(S)) |-> Value(g, s)]
  BY <1>5
<1> HIDE DEF Small, T
<1> QED
  BY <1>6, <1>7 DEF IsFold

LEMMA SumsExist ==
    ASSUME NEW S, NEW w, Weights(w, S)
    PROVE  \E g \in [SUBSET S -> Int] : Sums(w, S, g)
<1> DEFINE c == [s \in SUBSET S |-> Pick(s)]
           step == [p \in S \X Int |-> w[p[1]] + p[2]]
<1>1. step \in [S \X Int -> Int] /\ \A s \in SUBSET S : s # {} => c[s] \in s
  BY DEF Weights, Pick
<1>2. PICK g \in [SUBSET S -> Int] : IsFold(S, 0, step, c, g)
  <2> HIDE DEF c, step
  <2>1. 0 \in Int /\ IsFiniteSet(S)
    BY DEF Weights
  <2> QED
    BY <1>1, <2>1, FoldExists
<1>3. ASSUME NEW s \in SUBSET S, s # {}
      PROVE  step[<<c[s], g[s \ {c[s]}]>>] = w[Pick(s)] + g[s \ {Pick(s)}]
  BY <1>1, <1>3
<1> HIDE DEF step, c
<1> QED
  BY <1>2, <1>3 DEF Sums, IsFold

\* The recursion has one solution.
LEMMA SumsUnique ==
    ASSUME NEW S, NEW w, Weights(w, S), NEW g, NEW h, Sums(w, S, g), Sums(w, S, h)
    PROVE  g[S] = h[S]
<1> DEFINE T == {s \in SUBSET S : g[s] = h[s]}
<1>1. ASSUME NEW U \in SUBSET S, \A V \in SUBSET U : V # U => V \in T PROVE U \in T
  <2>1. CASE U = {}
    BY <2>1 DEF Sums
  <2>2. CASE U # {}
    <3>1. Pick(U) \in U
      BY <2>2 DEF Pick
    <3>2. g[U \ {Pick(U)}] = h[U \ {Pick(U)}]
      BY <1>1, <3>1
    <3> QED
      BY <2>2, <3>2 DEF Sums
  <2> QED
    BY <2>1, <2>2
<1>2. SUBSET S \subseteq T
  <2> HIDE DEF T
  <2> QED
    BY <1>1, SubsetsByInduction DEF Weights
<1> QED
  BY <1>2

\* So a sum is what any solution says.
LEMMA SumIs ==
    ASSUME NEW S, NEW w, Weights(w, S), NEW h, Sums(w, S, h)
    PROVE  SumOn(w, S) = h[S]
<1> DEFINE f == CHOOSE g : Sums(w, S, g)
<1>1. Sums(w, S, f)
  BY SumsExist
<1>2. SumOn(w, S) = f[S]
  BY DEF SumOn, MapThenSumSet, MapThenFoldSet, Sums, Pick
<1> HIDE DEF f
<1> QED
  BY <1>1, <1>2, SumsUnique

LEMMA SumType ==
    ASSUME NEW S, NEW w, Weights(w, S)
    PROVE  SumOn(w, S) \in Int
<1>1. PICK g \in [SUBSET S -> Int] : Sums(w, S, g)
  BY SumsExist
<1>2. SumOn(w, S) = g[S] /\ g[S] \in Int
  BY <1>1, SumIs
<1> QED
  BY <1>2

LEMMA SumOfNone == ASSUME NEW w PROVE SumOn(w, {}) = 0
<1>1. Weights(w, {})
  BY FS_EmptySet DEF Weights
<1>2. PICK g : Sums(w, {}, g)
  BY <1>1, SumsExist
<1>3. g[{}] = 0
  BY <1>2 DEF Sums
<1> QED
  BY <1>1, <1>2, <1>3, SumIs

LEMMA SumSame ==
    ASSUME NEW S, NEW w, NEW v, Weights(w, S), \A x \in S : v[x] = w[x]
    PROVE  SumOn(v, S) = SumOn(w, S)
<1>1. Weights(v, S)
  BY DEF Weights
<1>2. PICK g : Sums(w, S, g)
  BY SumsExist
<1>3. \A s \in SUBSET S : s # {} => v[Pick(s)] = w[Pick(s)]
  BY DEF Pick
<1>4. Sums(v, S, g)
  BY <1>2, <1>3 DEF Sums
<1> QED
  BY <1>1, <1>2, <1>4, SumIs

LEMMA SumFirst ==
    ASSUME NEW S, NEW w, Weights(w, S), S # {}
    PROVE  SumOn(w, S) = w[Pick(S)] + SumOn(w, S \ {Pick(S)})
<1> DEFINE R == S \ {Pick(S)}
<1>1. PICK g : Sums(w, S, g)
  BY SumsExist
<1> DEFINE h == [s \in SUBSET R |-> g[s]]
<1>2. Weights(w, R) /\ R \subseteq S
  BY FS_Subset DEF Weights
<1>3. Sums(w, R, h)
  <2> SUFFICES ASSUME NEW s \in SUBSET R
               PROVE  h[s] = IF s = {} THEN 0 ELSE w[Pick(s)] + h[s \ {Pick(s)}]
    BY DEF Sums
  <2>1. s \ {Pick(s)} \in SUBSET R /\ s \in SUBSET S
    OBVIOUS
  <2> QED
    BY <1>1, <2>1 DEF Sums
<1>4. SumOn(w, R) = g[R]
  BY <1>2, <1>3, SumIs
<1>5. SumOn(w, S) = g[S]
  BY <1>1, SumIs
<1>6. g[S] = w[Pick(S)] + g[R]
  BY <1>1 DEF Sums
<1> QED
  BY <1>4, <1>5, <1>6

\* Any element may be taken first.
LEMMA SumTake ==
    ASSUME NEW S, NEW w, Weights(w, S), NEW e \in S
    PROVE  SumOn(w, S) = w[e] + SumOn(w, S \ {e})
<1> DEFINE T == {U \in SUBSET S : \A x \in U : SumOn(w, U) = w[x] + SumOn(w, U \ {x})}
<1>0. \A U \in SUBSET S : Weights(w, U)
  BY FS_Subset DEF Weights
<1>1. ASSUME NEW U \in SUBSET S, \A V \in SUBSET U : V # U => V \in T PROVE U \in T
  <2> SUFFICES ASSUME NEW x \in U PROVE SumOn(w, U) = w[x] + SumOn(w, U \ {x})
    OBVIOUS
  <2> DEFINE c == Pick(U)
  <2>1. c \in U /\ SumOn(w, U) = w[c] + SumOn(w, U \ {c})
    BY <1>0, SumFirst DEF Pick
  <2> HIDE DEF c
  <2>2. CASE c = x
    BY <2>1, <2>2
  <2>3. CASE c # x
    <3>1. U \ {c} \in T /\ U \ {x} \in T
      BY <1>1, <2>1
    <3>2. /\ SumOn(w, U \ {c}) = w[x] + SumOn(w, (U \ {c}) \ {x})
          /\ SumOn(w, U \ {x}) = w[c] + SumOn(w, (U \ {x}) \ {c})
      BY <2>1, <2>3, <3>1
    <3>3. (U \ {c}) \ {x} = (U \ {x}) \ {c}
      OBVIOUS
    <3>4. w[x] \in Int /\ w[c] \in Int /\ SumOn(w, (U \ {x}) \ {c}) \in Int
      <4>1. (U \ {x}) \ {c} \in SUBSET S
        OBVIOUS
      <4> QED
        BY <1>0, <2>1, <4>1, SumType DEF Weights
    <3> DEFINE rest == SumOn(w, (U \ {x}) \ {c})
    <3>5. SumOn(w, U \ {c}) = w[x] + rest /\ SumOn(w, U \ {x}) = w[c] + rest
      BY <3>2, <3>3
    <3> HIDE DEF rest
    <3>6. w[c] + (w[x] + rest) = w[x] + (w[c] + rest)
      BY <3>4 DEF rest
    <3> QED
      BY <2>1, <3>5, <3>6
  <2> QED
    BY <2>2, <2>3
<1>2. SUBSET S \subseteq T
  <2> HIDE DEF T
  <2> QED
    BY <1>1, SubsetsByInduction DEF Weights
<1> QED
  BY <1>2

\* One more element.
LEMMA SumPlus ==
    ASSUME NEW S, NEW w, NEW e, e \notin S, Weights(w, S \cup {e})
    PROVE  Weights(w, S) /\ SumOn(w, S \cup {e}) = w[e] + SumOn(w, S)
<1>1. (S \cup {e}) \ {e} = S
  OBVIOUS
<1>2. Weights(w, S)
  BY FS_Subset DEF Weights
<1> QED
  BY <1>1, <1>2, SumTake

\* One weight changes, the others do not.
LEMMA SumChange ==
    ASSUME NEW S, NEW w, NEW v, Weights(w, S), Weights(v, S), NEW e \in S,
           \A x \in S \ {e} : v[x] = w[x]
    PROVE  SumOn(v, S) = SumOn(w, S) - w[e] + v[e]
<1>1. Weights(w, S \ {e}) /\ w[e] \in Int /\ v[e] \in Int
  BY FS_Subset DEF Weights
<1>2. SumOn(v, S \ {e}) = SumOn(w, S \ {e})
  BY <1>1, SumSame
<1>3. SumOn(v, S \ {e}) \in Int /\ SumOn(w, S \ {e}) \in Int
  BY <1>1, <1>2, SumType
<1>4. SumOn(v, S) = v[e] + SumOn(v, S \ {e}) /\ SumOn(w, S) = w[e] + SumOn(w, S \ {e})
  BY SumTake
<1> QED
  BY <1>1, <1>2, <1>3, <1>4

\* Sums add up, weight by weight.
LEMMA SumAdds ==
    ASSUME NEW S, NEW w, NEW v, NEW u, Weights(w, S), Weights(v, S),
           \A x \in S : u[x] = w[x] + v[x]
    PROVE  Weights(u, S) /\ SumOn(u, S) = SumOn(w, S) + SumOn(v, S)
<1> DEFINE T == {U \in SUBSET S : SumOn(u, U) = SumOn(w, U) + SumOn(v, U)}
<1>0. \A U \in SUBSET S : Weights(w, U) /\ Weights(v, U) /\ Weights(u, U)
  BY FS_Subset DEF Weights
<1>1. ASSUME NEW U \in SUBSET S, \A V \in SUBSET U : V # U => V \in T PROVE U \in T
  <2>1. CASE U = {}
    BY <2>1, SumOfNone
  <2>2. CASE U # {}
    <3>1. PICK x \in U : TRUE
      BY <2>2
    <3> DEFINE V == U \ {x}
    <3>2. V \in T /\ V \in SUBSET S
      BY <1>1, <3>1
    <3>3. SumOn(u, V) = SumOn(w, V) + SumOn(v, V) /\ SumOn(w, V) \in Int /\ SumOn(v, V) \in Int
      BY <1>0, <3>2, SumType
    <3>4. /\ SumOn(u, U) = u[x] + SumOn(u, V)
          /\ SumOn(w, U) = w[x] + SumOn(w, V)
          /\ SumOn(v, U) = v[x] + SumOn(v, V)
      BY <1>0, <3>1, SumTake
    <3>5. u[x] = w[x] + v[x] /\ w[x] \in Int /\ v[x] \in Int
      BY <1>0, <3>1 DEF Weights
    <3> HIDE DEF V
    <3>6. SumOn(u, U) = SumOn(w, U) + SumOn(v, U)
      BY <3>3, <3>4, <3>5
    <3> QED
      BY <3>6
  <2> QED
    BY <2>1, <2>2
<1>2. SUBSET S \subseteq T
  <2> HIDE DEF T
  <2> QED
    BY <1>1, SubsetsByInduction DEF Weights
<1> QED
  BY <1>0, <1>2

\* The same weights under other names.
Renames(f, A, B) ==
    /\ f \in [A -> B]
    /\ \A a, b \in A : f[a] = f[b] => a = b
    /\ \A b \in B : \E a \in A : f[a] = b

LEMMA SumMoved ==
    ASSUME NEW A, NEW B, NEW w, NEW v, NEW f, Renames(f, A, B), Weights(w, A),
           \A a \in A : v[f[a]] = w[a]
    PROVE  Weights(v, B) /\ SumOn(v, B) = SumOn(w, A)
<1> DEFINE Image(U) == {f[a] : a \in U}
           T == {U \in SUBSET A : SumOn(v, Image(U)) = SumOn(w, U)}
<1>0. /\ f \in [A -> B]
      /\ \A a, b \in A : f[a] = f[b] => a = b
      /\ \A b \in B : \E a \in A : f[a] = b
  BY DEF Renames
<1>1. Weights(v, B) /\ B = Image(A)
  <2>1. B = Image(A)
    BY <1>0
  <2>2. IsFiniteSet(B)
    <3>1. f \in Surjection(A, B)
      BY <1>0 DEF Surjection
    <3> QED
      BY <3>1, FS_Surjection DEF Weights
  <2> QED
    BY <1>0, <2>1, <2>2 DEF Weights
<1>2. \A U \in SUBSET A : Weights(w, U) /\ Weights(v, Image(U)) /\ Image(U) \in SUBSET B
  BY <1>0, <1>1, FS_Subset DEF Weights
<1>3. ASSUME NEW U \in SUBSET A, \A V \in SUBSET U : V # U => V \in T PROVE U \in T
  <2>1. CASE U = {}
    <3>1. Image(U) = {}
      BY <2>1
    <3> QED
      BY <2>1, <3>1, SumOfNone
  <2>2. CASE U # {}
    <3>1. PICK a \in U : TRUE
      BY <2>2
    <3> DEFINE V == U \ {a}
    <3>2. V \in T /\ V \in SUBSET A
      BY <1>3, <3>1
    <3>3. f[a] \in Image(U) /\ Image(U) \ {f[a]} = Image(V)
      BY <1>0, <3>1
    <3>4. SumOn(w, U) = w[a] + SumOn(w, V)
      BY <1>2, <3>1, SumTake
    <3>5. SumOn(v, Image(U)) = v[f[a]] + SumOn(v, Image(V))
      <4> HIDE DEF Image, V
      <4> QED
        BY <1>2, <3>3, SumTake
    <3> HIDE DEF Image, V
    <3>6. SumOn(v, Image(V)) = SumOn(w, V) /\ v[f[a]] = w[a]
      BY <3>1, <3>2
    <3> QED
      BY <3>4, <3>5, <3>6
  <2> QED
    BY <2>1, <2>2
<1>4. SUBSET A \subseteq T
  <2> HIDE DEF T
  <2> QED
    BY <1>3, SubsetsByInduction DEF Weights
<1> QED
  BY <1>1, <1>4

\* What weighs nothing may be left out.
LEMMA SumOfPart ==
    ASSUME NEW S, NEW w, Weights(w, S), NEW R \in SUBSET S, \A x \in S \ R : w[x] = 0
    PROVE  SumOn(w, S) = SumOn(w, R)
<1> DEFINE N == S \ R
           T == {U \in SUBSET N : SumOn(w, R \cup U) = SumOn(w, R)}
<1>0. \A U \in SUBSET S : Weights(w, U)
  BY FS_Subset DEF Weights
<1>1. ASSUME NEW U \in SUBSET N, \A V \in SUBSET U : V # U => V \in T PROVE U \in T
  <2>1. CASE U = {}
    BY <2>1
  <2>2. CASE U # {}
    <3>1. PICK x \in U : TRUE
      BY <2>2
    <3> DEFINE V == U \ {x}
    <3>2. V \in T /\ R \cup U \in SUBSET S /\ (R \cup U) \ {x} = R \cup V
      <4>1. V \in T
        BY <1>1, <3>1
      <4>2. R \cup U \in SUBSET S
        OBVIOUS
      <4>3. (R \cup U) \ {x} = R \cup V
        BY <3>1
      <4> HIDE DEF T, V
      <4> QED
        BY <4>1, <4>2, <4>3
    <3>3. SumOn(w, R \cup U) = w[x] + SumOn(w, (R \cup U) \ {x})
      BY <1>0, <3>1, <3>2, SumTake
    <3>4. w[x] = 0 /\ SumOn(w, R) \in Int
      BY <1>0, <3>1, SumType
    <3> HIDE DEF V
    <3> QED
      BY <3>2, <3>3, <3>4
  <2> QED
    BY <2>1, <2>2
<1>2. SUBSET N \subseteq T
  <2>1. IsFiniteSet(N)
    BY FS_Subset DEF Weights
  <2> HIDE DEF T, N
  <2> QED
    BY <1>1, <2>1, SubsetsByInduction
<1>3. R \cup N = S /\ N \in T
  BY <1>2
<1> QED
  BY <1>3

\* Sums times a number.
LEMMA SumTimes ==
    ASSUME NEW S, NEW w, NEW v, Weights(w, S), NEW m \in Int, \A x \in S : v[x] = m * w[x]
    PROVE  Weights(v, S) /\ SumOn(v, S) = m * SumOn(w, S)
<1> DEFINE T == {U \in SUBSET S : SumOn(v, U) = m * SumOn(w, U)}
<1>0. \A U \in SUBSET S : Weights(w, U) /\ Weights(v, U)
  <2>1. \A x \in S : v[x] \in Int
    BY DEF Weights
  <2> QED
    BY <2>1, FS_Subset DEF Weights
<1>1. ASSUME NEW U \in SUBSET S, \A V \in SUBSET U : V # U => V \in T PROVE U \in T
  <2>1. CASE U = {}
    BY <2>1, SumOfNone
  <2>2. CASE U # {}
    <3>1. PICK x \in U : TRUE
      BY <2>2
    <3> DEFINE V == U \ {x}
    <3>2. V \in T /\ V \in SUBSET S
      BY <1>1, <3>1
    <3>3. SumOn(v, V) = m * SumOn(w, V) /\ SumOn(w, V) \in Int
      BY <1>0, <3>2, SumType
    <3>4. SumOn(v, U) = v[x] + SumOn(v, V) /\ SumOn(w, U) = w[x] + SumOn(w, V)
      BY <1>0, <3>1, SumTake
    <3>5. v[x] = m * w[x] /\ w[x] \in Int
      BY <1>0, <3>1 DEF Weights
    <3> DEFINE p == w[x]
               q == SumOn(w, V)
    <3>6. p \in Int /\ q \in Int
      BY <3>3, <3>5
    <3> HIDE DEF V, p, q
    <3>7. m * (p + q) = m * p + m * q
      BY <3>6
    <3> QED
      BY <3>3, <3>4, <3>5, <3>7 DEF p, q
  <2> QED
    BY <2>1, <2>2
<1>2. SUBSET S \subseteq T
  <2> HIDE DEF T
  <2> QED
    BY <1>1, SubsetsByInduction DEF Weights
<1> QED
  BY <1>0, <1>2

\* A sum of weights none of which is negative is at least each of them.
LEMMA SumAtLeast ==
    ASSUME NEW S, NEW w, Weights(w, S), \A x \in S : w[x] >= 0
    PROVE  SumOn(w, S) >= 0 /\ \A x \in S : SumOn(w, S) >= w[x]
<1> DEFINE T == {U \in SUBSET S : SumOn(w, U) >= 0}
<1>0. \A U \in SUBSET S : Weights(w, U)
  BY FS_Subset DEF Weights
<1>1. ASSUME NEW U \in SUBSET S, \A V \in SUBSET U : V # U => V \in T PROVE U \in T
  <2>1. CASE U = {}
    BY <2>1, SumOfNone
  <2>2. CASE U # {}
    <3>1. PICK x \in U : TRUE
      BY <2>2
    <3>2. U \ {x} \in T
      BY <1>1, <3>1
    <3>3. SumOn(w, U) = w[x] + SumOn(w, U \ {x})
      BY <1>0, <3>1, SumTake
    <3>4. w[x] \in Int /\ w[x] >= 0 /\ SumOn(w, U \ {x}) \in Int
      BY <1>0, <3>1, SumType DEF Weights
    <3>5. SumOn(w, U) >= 0
      BY <3>2, <3>3, <3>4
    <3> QED
      BY <3>5
  <2> QED
    BY <2>1, <2>2
<1>2. SUBSET S \subseteq T
  <2> HIDE DEF T
  <2> QED
    BY <1>1, SubsetsByInduction DEF Weights
<1>3. ASSUME NEW x \in S PROVE SumOn(w, S) >= w[x]
  <2>1. SumOn(w, S) = w[x] + SumOn(w, S \ {x}) /\ S \ {x} \in SUBSET S
    BY SumTake
  <2>2. SumOn(w, S \ {x}) \in Int /\ SumOn(w, S \ {x}) >= 0 /\ w[x] \in Int
    BY <1>0, <1>2, <2>1, SumType DEF Weights
  <2> QED
    BY <2>1, <2>2
<1> QED
  BY <1>2, <1>3

\* The greatest of a finite set of numbers.
LEMMA MaxIs ==
    ASSUME NEW S \in SUBSET Int, IsFiniteSet(S), S # {}
    PROVE  Max(S) \in S /\ \A y \in S : Max(S) >= y
<1> DEFINE T == {U \in SUBSET S : U # {} => \E x \in U : \A y \in U : x >= y}
<1>1. ASSUME NEW U \in SUBSET S, \A V \in SUBSET U : V # U => V \in T PROVE U \in T
  <2> SUFFICES ASSUME U # {} PROVE \E x \in U : \A y \in U : x >= y
    OBVIOUS
  <2>1. PICK a \in U : TRUE
    OBVIOUS
  <2>2. U \ {a} \in T
    BY <1>1, <2>1
  <2>3. CASE U \ {a} = {}
    BY <2>1, <2>3
  <2>4. CASE U \ {a} # {}
    <3>1. PICK x \in U \ {a} : \A y \in U \ {a} : x >= y
      BY <2>2, <2>4
    <3> QED
      BY <2>1, <3>1
  <2> QED
    BY <2>3, <2>4
<1>2. SUBSET S \subseteq T
  <2> HIDE DEF T
  <2> QED
    BY <1>1, SubsetsByInduction
<1>3. \E x \in S : \A y \in S : x >= y
  BY <1>2
<1> QED
  BY <1>3 DEF Max

-----------------------------------------------------------------------------
(***************************************************************************)
(* Balances                                                                *)
(***************************************************************************)
\* The balance that rows and their adjustments make up.
BalanceOf(adj, rows, day) ==
    MapThenSumSet(LAMBDA r : IF adj[r].day <= day THEN adj[r].amount ELSE 0, rows)
Dues(adj, rows, day) == [r \in rows |-> IF adj[r].day <= day THEN adj[r].amount ELSE 0]

\* It is a sum.
LEMMA BalanceIsSum ==
    ASSUME NEW rows, IsFiniteSet(rows), NEW adj, \A r \in rows : adj[r].amount \in Int, NEW day
    PROVE  Weights(Dues(adj, rows, day), rows)
           /\ BalanceOf(adj, rows, day) = SumOn(Dues(adj, rows, day), rows)
<1> DEFINE due(r) == IF adj[r].day <= day THEN adj[r].amount ELSE 0
           f == CHOOSE g : g = [s \in SUBSET rows |->
                        IF s = {} THEN 0 ELSE due(Pick(s)) + g[s \ {Pick(s)}]]
           w == Dues(adj, rows, day)
<1>1. BalanceOf(adj, rows, day) = f[rows]
  BY DEF BalanceOf, MapThenSumSet, MapThenFoldSet, Pick
<1>2. Weights(w, rows)
  BY DEF Weights, Dues
<1>3. PICK g : Sums(w, rows, g)
  BY <1>2, SumsExist
<1>4. \A s \in SUBSET rows : s # {} => w[Pick(s)] = due(Pick(s))
  BY DEF Dues, Pick
<1>5. g = [s \in SUBSET rows |-> IF s = {} THEN 0 ELSE due(Pick(s)) + g[s \ {Pick(s)}]]
  BY <1>3, <1>4 DEF Sums
<1>6. f = [s \in SUBSET rows |-> IF s = {} THEN 0 ELSE due(Pick(s)) + f[s \ {Pick(s)}]]
  BY <1>5
<1> HIDE DEF f
<1>7. Sums(w, rows, f)
  BY <1>4, <1>6 DEF Sums
<1> QED
  BY <1>1, <1>2, <1>7, SumIs

\* Whoever is past the lock holds it, and what it has read is what there is; committed rows
\* are of requests that are done.
LockedInv ==
    \A r \in Requests : adjusting[r] # None =>
        /\ adjusting[r].phase \in {"locked", "read"} => portfolioLock = r
        /\ adjusting[r].phase = "read" => adjusting[r].seen = Rows(adjusting[r].row.account)
CommittedInv ==
    \A r \in Requests : adjustments[r] # None => adjusting[r] # None /\ adjusting[r].phase = "done"

BalanceInv == BalanceTypeOK /\ LockedInv /\ CommittedInv /\ NeverOverdrawn

LEMMA BalanceInvInit == BalanceInit => BalanceInv
<1> SUFFICES ASSUME BalanceInit PROVE BalanceInv
  OBVIOUS
<1>1. BalanceTypeOK /\ LockedInv /\ CommittedInv
  BY DEF BalanceInit, BalanceTypeOK, LockedInv, CommittedInv
<1>2. NeverOverdrawn
  <2> SUFFICES ASSUME NEW a \in Accounts, NEW day \in Calendar PROVE Running(Rows(a), day) = 0
    BY DEF NeverOverdrawn
  <2>1. Rows(a) = {}
    BY DEF BalanceInit, Rows
  <2>2. Running({}, day) = BalanceOf(adjustments, {}, day)
    BY DEF Running, BalanceOf
  <2>3. BalanceOf(adjustments, {}, day) = SumOn(Dues(adjustments, {}, day), {})
    BY FS_EmptySet, BalanceIsSum
  <2> QED
    BY <2>1, <2>2, <2>3, SumOfNone
<1> QED
  BY <1>1, <1>2 DEF BalanceInv

\* Steps that commit nothing.
LEMMA BooksStay ==
    ASSUME BalanceInv, adjustments' = adjustments
    PROVE  NeverOverdrawn' /\ \A a : Rows(a)' = Rows(a)
<1>1. \A a : Rows(a)' = Rows(a)
  BY DEF Rows
<1>2. \A a, day : Running(Rows(a), day)' = Running(Rows(a), day)
  BY <1>1 DEF Running, MapThenSumSet, MapThenFoldSet
<1> QED
  BY <1>1, <1>2 DEF BalanceInv, NeverOverdrawn

\* A request that was granted the lock reads what is there, and nothing moves until it is done.
LEMMA BalanceInvStep == BalanceInv /\ [BalanceNext]_balanceVars => BalanceInv'
<1> SUFFICES ASSUME BalanceInv, [BalanceNext]_balanceVars PROVE BalanceInv'
  OBVIOUS
<1>0. BalanceTypeOK /\ LockedInv /\ CommittedInv /\ NeverOverdrawn
  BY DEF BalanceInv
<1>1. ASSUME NEW r \in Requests, NEW row \in Adjustment, Lock(r, row) PROVE BalanceInv'
  <2> DEFINE q == [phase |-> "locked", row |-> row, seen |-> {}]
  <2>1. q \in Request /\ q # None /\ q.phase = "locked"
    BY BalanceAssumption DEF Request
  <2> HIDE DEF q
  <2>2. /\ adjusting' = [adjusting EXCEPT ![r] = q] /\ portfolioLock = None /\ portfolioLock' = r
        /\ adjusting[r] = None /\ UNCHANGED <<adjustments, opening, current>>
    BY <1>1 DEF Lock, LockFree, q
  <2>3. BalanceTypeOK'
    BY <1>0, <2>1, <2>2 DEF BalanceTypeOK
  <2>4. \A s \in Requests : adjusting'[s] = IF s = r THEN q ELSE adjusting[s]
    BY <1>0, <2>2 DEF BalanceTypeOK
  <2>5. LockedInv'
    BY <1>0, <2>1, <2>2, <2>4, BalanceAssumption DEF LockedInv, Rows
  <2>6. CommittedInv'
    BY <1>0, <2>1, <2>2, <2>4 DEF CommittedInv
  <2> QED
    BY <2>2, <2>3, <2>5, <2>6, BooksStay DEF BalanceInv
<1>2. ASSUME NEW r \in Requests, Read(r) PROVE BalanceInv'
  <2> DEFINE q == [adjusting[r] EXCEPT !.phase = "read", !.seen = Rows(adjusting[r].row.account)]
  <2>1. /\ adjusting[r] # None /\ adjusting[r].phase = "locked"
        /\ adjusting' = [adjusting EXCEPT ![r] = q]
        /\ UNCHANGED <<adjustments, portfolioLock, opening, current>>
    BY <1>0, <1>2 DEF Read, BalanceTypeOK, Request
  <2>2. /\ q \in Request /\ q # None /\ q.phase = "read" /\ q.row = adjusting[r].row
        /\ q.seen = Rows(q.row.account)
    <3>1. PICK seen : seen = Rows(adjusting[r].row.account)
      OBVIOUS
    <3>2. seen \in SUBSET Requests
      BY <3>1 DEF Rows
    <3>3. adjusting[r] \in Request
      BY <1>0, <2>1 DEF BalanceTypeOK
    <3>4. q = [adjusting[r] EXCEPT !.phase = "read", !.seen = seen]
      BY <3>1
    <3> HIDE DEF q
    <3>5. /\ q \in Request /\ q.phase = "read" /\ q.row = adjusting[r].row
          /\ q.seen = seen
      BY <3>2, <3>3, <3>4 DEF Request
    <3> QED
      BY <3>1, <3>5, BalanceAssumption
  <2> HIDE DEF q
  <2>3. \A s \in Requests : adjusting'[s] = IF s = r THEN q ELSE adjusting[s]
    BY <1>0, <2>1 DEF BalanceTypeOK
  <2>4. BalanceTypeOK'
    BY <1>0, <2>1, <2>2 DEF BalanceTypeOK
  <2>5. LockedInv'
    BY <1>0, <2>1, <2>2, <2>3 DEF LockedInv, Rows
  <2>6. CommittedInv'
    BY <1>0, <2>1, <2>2, <2>3 DEF CommittedInv
  <2> QED
    BY <2>1, <2>4, <2>5, <2>6, BooksStay DEF BalanceInv
<1>3. ASSUME NEW r \in Requests, adjusting[r] # None, adjusting[r].phase # "done",
             adjusting' = [adjusting EXCEPT ![r].phase = "done"],
             portfolioLock' = IF portfolioLock = r THEN None ELSE portfolioLock,
             UNCHANGED <<opening, current>>, adjustments' \in [Requests -> Adjustment \cup {None}],
             \A s \in Requests \ {r} : adjustments'[s] = adjustments[s]
      PROVE  BalanceTypeOK' /\ LockedInv' /\ CommittedInv'
  <2> DEFINE q == [adjusting[r] EXCEPT !.phase = "done"]
  <2>1. q \in Request /\ q # None /\ q.phase = "done"
    BY <1>0, <1>3, BalanceAssumption DEF Request, BalanceTypeOK
  <2>2. \A s \in Requests : adjusting'[s] = IF s = r THEN q ELSE adjusting[s]
    BY <1>0, <1>3 DEF BalanceTypeOK
  <2>3. portfolioLock = r
    BY <1>0, <1>3 DEF LockedInv, BalanceTypeOK, Request
  <2> HIDE DEF q
  <2>4. BalanceTypeOK'
    <3>1. adjusting' \in [Requests -> Request \cup {None}]
      BY <1>0, <1>3, <2>1, <2>2 DEF BalanceTypeOK
    <3> QED
      BY <1>0, <1>3, <3>1 DEF BalanceTypeOK
  <2>5. LockedInv'
    <3>1. \A s \in Requests \ {r} : adjusting[s] # None => adjusting[s].phase \notin {"locked", "read"}
      BY <1>0, <2>3 DEF LockedInv
    <3> QED
      BY <2>1, <2>2, <3>1 DEF LockedInv
  <2>6. CommittedInv'
    BY <1>0, <1>3, <2>1, <2>2 DEF CommittedInv
  <2> QED
    BY <2>4, <2>5, <2>6
<1>4. ASSUME NEW r \in Requests, Rollback(r) PROVE BalanceInv'
  <2>1. adjustments' = adjustments
    BY <1>4 DEF Rollback
  <2>2. BalanceTypeOK' /\ LockedInv' /\ CommittedInv'
    BY <1>0, <1>3, <1>4 DEF Rollback, BalanceTypeOK
  <2> QED
    BY <2>1, <2>2, BooksStay DEF BalanceInv
<1>5. ASSUME NEW r \in Requests, Commit(r) PROVE BalanceInv'
  <2> DEFINE row == adjusting[r].row
  <2>1. /\ adjusting[r] # None /\ adjusting[r].phase = "read"
        /\ NeverNegative(row, adjusting[r].seen)
        /\ adjustments' = [adjustments EXCEPT ![r] = row]
    BY <1>5 DEF Commit
  <2>2. row \in Adjustment /\ row # None /\ row.account \in Accounts
        /\ row.day \in Calendar /\ row.amount \in Int
    BY <1>0, <2>1, BalanceAssumption DEF BalanceTypeOK, Request, Adjustment
  <2>3. adjustments[r] = None /\ adjusting[r].seen = Rows(row.account)
    BY <1>0, <2>1 DEF LockedInv, CommittedInv
  <2> HIDE DEF row
  <2>4. adjustments' \in [Requests -> Adjustment \cup {None}]
        /\ \A s \in Requests : adjustments'[s] = IF s = r THEN row ELSE adjustments[s]
    BY <1>0, <2>1, <2>2 DEF BalanceTypeOK
  <2>5. BalanceTypeOK' /\ LockedInv' /\ CommittedInv'
    BY <1>3, <1>5, <2>1, <2>4 DEF Commit
  <2>6. ASSUME NEW a \in Accounts, NEW day \in Calendar PROVE Running(Rows(a), day)' >= 0
    <3> DEFINE old == Rows(a)
               new == Rows(a)'
               v == Dues(adjustments', new, day)
               w == Dues(adjustments, old, day)
               added == IF row.day <= day THEN row.amount ELSE 0
    <3>1. /\ old \in SUBSET Requests /\ r \notin old
          /\ new = IF row.account = a THEN old \cup {r} ELSE old
      BY <2>2, <2>3, <2>4 DEF Rows
    <3>2. \A s \in old : adjustments'[s] = adjustments[s] /\ adjustments[s].amount \in Int
      BY <1>0, <2>4, <3>1, BalanceAssumption DEF Rows, BalanceTypeOK, Adjustment
    <3>3. IsFiniteSet(old) /\ IsFiniteSet(new) /\ \A s \in new : adjustments'[s].amount \in Int
      BY <2>2, <2>4, <3>1, <3>2, BalanceAssumption, FS_Subset, FS_AddElement
    <3>4. /\ Running(old, day) = BalanceOf(adjustments, old, day)
          /\ Running(Rows(a), day)' = BalanceOf(adjustments', new, day)
      BY DEF Running, BalanceOf, MapThenSumSet, MapThenFoldSet
    <3> HIDE DEF old, new
    <3>5. /\ Weights(w, old) /\ Running(old, day) = SumOn(w, old)
          /\ Weights(v, new) /\ Running(Rows(a), day)' = SumOn(v, new)
      BY <3>2, <3>3, <3>4, BalanceIsSum
    <3>6. Running(old, day) >= 0
      BY <1>0 DEF NeverOverdrawn, old
    <3>7. \A s \in old : v[s] = w[s]
      BY <3>1, <3>2 DEF Dues
    <3> HIDE DEF v, w
    <3>8. SumOn(v, old) = SumOn(w, old)
      BY <3>5, <3>7, SumSame
    <3>9. CASE row.account # a
      BY <3>1, <3>5, <3>6, <3>8, <3>9
    <3>10. CASE row.account = a
      <4>1. new = old \cup {r} /\ v[r] = added
        BY <2>4, <3>1, <3>10 DEF v, Dues
      <4>2. SumOn(v, new) = v[r] + SumOn(v, old)
        BY <3>1, <3>5, <4>1, SumPlus
      <4>3. Running(old, day) + added >= 0
        BY <2>1, <2>3, <3>10 DEF NeverNegative, old
      <4>4. SumOn(w, old) \in Int /\ added \in Int
        BY <2>2, <3>5, SumType
      <4> QED
        BY <3>5, <3>8, <4>1, <4>2, <4>3, <4>4
    <3> QED
      BY <3>9, <3>10
  <2> QED
    BY <2>5, <2>6 DEF BalanceInv, NeverOverdrawn
<1>6. CASE LedgerMoves \/ NextDay \/ UNCHANGED balanceVars
  <2>1. UNCHANGED <<adjustments, adjusting, portfolioLock>>
        /\ opening' \in Calendar \cup {None} /\ current' \in Calendar
    BY <1>0, <1>6, BalanceAssumption DEF LedgerMoves, NextDay, balanceVars, BalanceTypeOK, Calendar
  <2>2. BalanceTypeOK' /\ LockedInv' /\ CommittedInv'
    BY <1>0, <2>1 DEF BalanceTypeOK, LockedInv, CommittedInv, Rows
  <2> QED
    BY <2>1, <2>2, BooksStay DEF BalanceInv
<1> QED
  BY <1>1, <1>2, <1>4, <1>5, <1>6 DEF BalanceNext

(***************************************************************************)
(* Adjustments, requests and the lock have their shape                     *)
(* (portfolio_balances.py).                                                *)
(***************************************************************************)
THEOREM BalanceTypeCorrect == BalanceSpec => []BalanceTypeOK
<1>1. BalanceInv => BalanceTypeOK
  BY DEF BalanceInv
<1> QED
  BY <1>1, BalanceInvInit, BalanceInvStep, PTL DEF BalanceSpec

(***************************************************************************)
(* Whatever requests race, whatever their days, no account is negative at  *)
(* the end of any day (portfolio_balances.py:75-108).                      *)
(***************************************************************************)
THEOREM AccountsNeverOverdrawn == BalanceSpec => []NeverOverdrawn
<1>1. BalanceInv => NeverOverdrawn
  BY DEF BalanceInv
<1> QED
  BY <1>1, BalanceInvInit, BalanceInvStep, PTL DEF BalanceSpec

-----------------------------------------------------------------------------
(***************************************************************************)
(* Accounting: sums along a sequence, allocation, and the lots             *)
(***************************************************************************)
\* What SumSeq and SumOver add up.
LEMMA SumSeqIs == ASSUME NEW s PROVE SumSeq(s) = SumOn(s, DOMAIN s)
BY DEF SumSeq, FoldSeq, FoldFunction, FoldFunctionOnSet, SumOn, MapThenSumSet, MapThenFoldSet

LEMMA SumOverIs == ASSUME NEW f PROVE SumOver(f) = SumOn(f, DOMAIN f)
BY DEF SumOver, SumOn

LEMMA Finite == ASSUME NEW n \in Nat PROVE IsFiniteSet(1 .. n)
BY FS_Interval

\* Sums of the first k.
LEMMA SumFirstOf ==
    ASSUME NEW n \in Nat, NEW w \in [1 .. n -> Int]
    PROVE  /\ Weights(w, 1 .. n)
           /\ SumOn(w, 1 .. 0) = 0
           /\ \A k \in 0 .. n : SumOn(w, 1 .. k) \in Int
           /\ \A k \in 1 .. n : SumOn(w, 1 .. k) = SumOn(w, 1 .. (k - 1)) + w[k]
<1>1. ASSUME NEW k \in 0 .. n PROVE Weights(w, 1 .. k)
  <2>1. IsFiniteSet(1 .. k)
    BY Finite
  <2> QED
    BY <2>1 DEF Weights
<1>2. ASSUME NEW k \in 1 .. n PROVE SumOn(w, 1 .. k) = SumOn(w, 1 .. (k - 1)) + w[k]
  <2>1. 1 .. k = (1 .. (k - 1)) \cup {k} /\ k \notin 1 .. (k - 1) /\ k - 1 \in 0 .. n
    OBVIOUS
  <2>2. Weights(w, (1 .. (k - 1)) \cup {k})
    <3>1. Weights(w, 1 .. k)
      BY <1>1
    <3> QED
      BY <2>1, <3>1
  <2>3. SumOn(w, (1 .. (k - 1)) \cup {k}) = w[k] + SumOn(w, 1 .. (k - 1))
    BY <2>1, <2>2, SumPlus
  <2>4. SumOn(w, 1 .. (k - 1)) \in Int /\ w[k] \in Int
    BY <1>1, <2>1, SumType
  <2>5. SumOn(w, 1 .. k) = SumOn(w, (1 .. (k - 1)) \cup {k})
    BY <2>1
  <2> QED
    BY <2>3, <2>4, <2>5
<1>3. 1 .. 0 = {}
  OBVIOUS
<1> QED
  BY <1>1, <1>2, <1>3, SumOfNone, SumType

\* Equal multiples, and quotients.
LEMMA Cancel ==
    ASSUME NEW a \in Int, NEW b \in Int, NEW c \in Nat \ {0}, c * a = c * b
    PROVE  a = b
<1>1. c * (a - b) = 0
  OBVIOUS
<1>2. a - b > 0 => c * (a - b) > 0
  OBVIOUS
<1>3. a - b < 0 => c * (a - b) < 0
  OBVIOUS
<1> QED
  BY <1>1, <1>2, <1>3

LEMMA Quotient ==
    ASSUME NEW a \in Int, NEW c \in Nat \ {0}
    PROVE  /\ a \div c \in Int
           /\ a % c = 0 => c * (a \div c) = a
OBVIOUS

\* Units allow every part to be in proportion; it is.
Divisible(total, w, n) == \A k \in 1 .. n : (total * w[k]) % SumSeq(w) = 0
Proportional(total, w, n, parts) == \A k \in 1 .. n : SumSeq(w) * parts[k] = total * w[k]

\* allocate: the parts add up to the total, and are in proportion where units allow it.
LEMMA AllocateIs ==
    ASSUME NEW n \in Nat, NEW w \in [1 .. n -> Nat], SumSeq(w) > 0, NEW total \in Int
    PROVE  /\ SumSeq(w) \in Nat \ {0}
           /\ Allocate(total, w) \in [1 .. n -> Int]
           /\ SumSeq(Allocate(total, w)) = total
           /\ Divisible(total, w, n) => Proportional(total, w, n, Allocate(total, w))
<1> DEFINE D == 1 .. n
           Q == SumSeq(w)
           share == [i \in D |-> (total * w[i]) \div Q]
           positive == {i \in D : w[i] > 0}
           last == Max(positive)
           without == [share EXCEPT ![last] = 0]
           all == [share EXCEPT ![last] = total - SumSeq(without)]
<1>1. DOMAIN w = D /\ Weights(w, D) /\ Q = SumOn(w, D)
  BY Finite, SumSeqIs DEF Weights
<1>2. Q \in Nat \ {0}
  BY <1>1, SumType
<1>3. last \in D
  <2>1. positive # {}
    <3>1. ASSUME positive = {} PROVE FALSE
      <4>1. \A x \in D \ {} : w[x] = 0
        BY <3>1
      <4>2. {} \in SUBSET D
        OBVIOUS
      <4> HIDE DEF D
      <4>3. SumOn(w, D) = SumOn(w, {})
        BY <1>1, <4>1, <4>2, SumOfPart
      <4> QED
        BY <1>1, <4>3, SumOfNone
    <3> QED
      BY <3>1
  <2>2. positive \in SUBSET Int /\ IsFiniteSet(positive)
    BY <1>1, FS_Subset DEF Weights
  <2> HIDE DEF positive
  <2>3. last \in positive
    BY <2>1, <2>2, MaxIs
  <2> QED
    BY <2>3 DEF positive
<1>4. Allocate(total, w) = all
  BY <1>1 DEF Allocate
<1>5. share \in [D -> Int]
  <2> HIDE DEF Q
  <2>1. \A i \in D : total * w[i] \in Int
    OBVIOUS
  <2> QED
    BY <1>2, <2>1, Quotient
<1> HIDE DEF Q, positive, last, share
<1>6. without \in [D -> Int] /\ Weights(without, D) /\ SumSeq(without) = SumOn(without, D)
  <2>1. without \in [D -> Int]
    BY <1>3, <1>5
  <2>2. DOMAIN without = D
    BY <1>5
  <2> HIDE DEF without
  <2> QED
    BY <1>1, <2>1, <2>2, SumSeqIs DEF Weights
<1>7. SumOn(without, D) \in Int
  BY <1>6, SumType
<1>8. all \in [D -> Int] /\ Weights(all, D) /\ SumSeq(all) = SumOn(all, D)
      /\ all[last] = total - SumOn(without, D)
  <2>1. all \in [D -> Int] /\ DOMAIN all = D /\ all[last] = total - SumSeq(without)
    <3> HIDE DEF without
    <3> QED
      BY <1>3, <1>5, <1>6, <1>7
  <2> HIDE DEF all
  <2> QED
    BY <1>1, <1>6, <2>1, SumSeqIs DEF Weights
<1>9. without[last] = 0 /\ \A i \in D \ {last} : all[i] = without[i] /\ without[i] = share[i]
  BY <1>3, <1>5
<1> HIDE DEF without, all, D
<1>10. SumOn(all, D) = total
  <2>1. SumOn(all, D) = SumOn(without, D) - without[last] + all[last]
    BY <1>3, <1>6, <1>8, <1>9, SumChange
  <2> QED
    BY <1>7, <1>8, <1>9, <2>1
<1>11. ASSUME \A k \in D : (total * w[k]) % Q = 0, NEW k \in D
       PROVE  Q * all[k] = total * w[k]
  <2>1. \A i \in D : Q * share[i] = total * w[i]
    <3>1. \A i \in D : total * w[i] \in Int /\ share[i] = (total * w[i]) \div Q
      BY DEF share, D
    <3> QED
      BY <1>2, <1>11, <3>1, Quotient
  <2>2. CASE k # last
    BY <1>9, <2>1, <2>2
  <2>3. CASE k = last
    <3> DEFINE scaled == [i \in D |-> Q * share[i]]
    <3>1. Weights(share, D) /\ Weights(scaled, D) /\ SumOn(scaled, D) = Q * SumOn(share, D)
      <4>1. Weights(share, D)
        BY <1>1, <1>5 DEF Weights
      <4>2. \A i \in D : scaled[i] = Q * share[i]
        OBVIOUS
      <4> HIDE DEF scaled
      <4> QED
        BY <1>2, <4>1, <4>2, SumTimes
    <3>2. SumOn(scaled, D) = total * SumOn(w, D)
      <4>1. \A i \in D : scaled[i] = total * w[i]
        BY <2>1
      <4> HIDE DEF scaled
      <4> QED
        BY <1>1, <4>1, SumTimes
    <3>3. SumOn(share, D) \in Int
      BY <3>1, SumType
    <3>4. SumOn(share, D) = total
      <4>1. Q * SumOn(share, D) = Q * total
        BY <1>1, <1>2, <3>1, <3>2
      <4> QED
        BY <1>2, <3>3, <4>1, Cancel
    <3>5. SumOn(without, D) = SumOn(share, D) - share[last] + without[last]
      BY <1>3, <1>6, <1>9, <3>1, SumChange
    <3>6. share[last] \in Int
      BY <1>3, <1>5
    <3>7. all[last] = share[last]
      BY <1>7, <1>8, <1>9, <3>3, <3>4, <3>5, <3>6
    <3> QED
      BY <1>3, <2>1, <2>3, <3>7
  <2> QED
    BY <2>2, <2>3
<1> QED
  BY <1>2, <1>4, <1>8, <1>10, <1>11 DEF Q, D, Divisible, Proportional

\* A lot that may have been closed.
Parcel == [opened: Nat, direction: Directions, quantity: Nat, basis: Int]
InOrder(lots) == \A k, m \in DOMAIN lots : k < m => lots[k].opened <= lots[m].opened
Each(val, lots) == [k \in DOMAIN lots |-> val[lots[k]]]
Total(val, lots) == SumOn(Each(val, lots), DOMAIN lots)

\* Values of lots, and their sum, are integers.
LEMMA EachIs ==
    ASSUME NEW lots \in Seq(Parcel), NEW val \in [Parcel -> Int]
    PROVE  /\ DOMAIN lots = 1 .. Len(lots) /\ IsFiniteSet(DOMAIN lots)
           /\ Weights(Each(val, lots), DOMAIN lots)
           /\ \A k \in DOMAIN lots : Each(val, lots)[k] = val[lots[k]] /\ val[lots[k]] \in Int
           /\ Total(val, lots) \in Int
<1>1. /\ DOMAIN lots = 1 .. Len(lots) /\ IsFiniteSet(DOMAIN lots)
      /\ \A k \in DOMAIN lots : Each(val, lots)[k] = val[lots[k]] /\ val[lots[k]] \in Int
  BY Finite DEF Each
<1>2. Weights(Each(val, lots), DOMAIN lots)
  BY <1>1 DEF Weights
<1> QED
  BY <1>1, <1>2, SumType DEF Total

\* Open lots are lots that may have been closed.
LEMMA LotIsParcel == Lot \subseteq Parcel /\ Seq(Lot) \subseteq Seq(Parcel)
<1>1. Lot \subseteq Parcel
  BY DEF Lot, Parcel
<1> HIDE DEF Lot, Parcel
<1> QED
  BY <1>1

\* A sequence with one more element, after its first p.
With(S, s, p, e, r) ==
    /\ r \in Seq(S)
    /\ Len(r) = Len(s) + 1
    /\ \A i \in 1 .. (Len(s) + 1) :
           r[i] = IF i <= p THEN s[i] ELSE IF i = p + 1 THEN e ELSE s[i - 1]

\* What InsertAt returns.
LEMMA Inserted ==
    ASSUME NEW S, NEW s \in Seq(S), NEW e \in S, NEW p \in 0 .. Len(s)
    PROVE  With(S, s, p, e, InsertAt(s, p + 1, e))
<1> DEFINE front == SubSeq(s, 1, p)
           back == SubSeq(s, p + 1, Len(s))
           one == <<e>>
           start == front \o one
<1>1. front \in Seq(S) /\ Len(front) = p /\ \A i \in 1 .. p : front[i] = s[i]
  OBVIOUS
<1>2. back \in Seq(S) /\ Len(back) = Len(s) - p
        /\ \A i \in 1 .. (Len(s) - p) : back[i] = s[p + i]
  OBVIOUS
<1>3. one \in Seq(S) /\ Len(one) = 1 /\ one[1] = e
  OBVIOUS
<1>4. InsertAt(s, p + 1, e) = start \o back
  <2>1. (p + 1) - 1 = p
    OBVIOUS
  <2> QED
    BY <2>1 DEF InsertAt
<1> HIDE DEF front, back, one
<1>5. /\ start \in Seq(S) /\ Len(start) = Len(front) + Len(one)
      /\ \A i \in 1 .. Len(front) + Len(one) :
             start[i] = IF i <= Len(front) THEN front[i] ELSE one[i - Len(front)]
  BY <1>1, <1>3, ConcatProperties
<1> HIDE DEF start
<1>6. /\ start \o back \in Seq(S) /\ Len(start \o back) = Len(start) + Len(back)
      /\ \A i \in 1 .. Len(start) + Len(back) :
             (start \o back)[i] = IF i <= Len(start) THEN start[i] ELSE back[i - Len(start)]
  <2>1. start \in Seq(S) /\ back \in Seq(S)
    BY <1>2, <1>5
  <2> QED
    BY <2>1, ConcatProperties, Zenon
<1>7. Len(s) \in Nat /\ p \in Nat
  OBVIOUS
<1>8. Len(start) = p + 1 /\ Len(start) + Len(back) = Len(s) + 1
  BY <1>1, <1>2, <1>3, <1>5, <1>7
<1> DEFINE all == start \o back
           n == Len(s)
<1>10. /\ \A j \in 1 .. (n + 1) : all[j] = IF j <= p + 1 THEN start[j] ELSE back[j - (p + 1)]
       /\ \A j \in 1 .. (p + 1) : start[j] = IF j <= p THEN front[j] ELSE one[j - p]
       /\ n \in Nat /\ p \in 0 .. n
  BY <1>1, <1>3, <1>5, <1>6, <1>7, <1>8
<1> HIDE DEF all, n
<1>9. ASSUME NEW i \in 1 .. (n + 1)
      PROVE  all[i] = IF i <= p THEN s[i] ELSE IF i = p + 1 THEN e ELSE s[i - 1]
  <2>1. CASE i <= p
    <3>1. i \in 1 .. p /\ i \in 1 .. (p + 1) /\ i <= p + 1
      BY <1>10, <2>1
    <3> QED
      BY <1>1, <1>10, <2>1, <3>1
  <2>2. CASE i = p + 1
    <3>1. i - p = 1 /\ i \in 1 .. (p + 1) /\ ~(i <= p) /\ i <= p + 1
      BY <1>10, <2>2
    <3> QED
      BY <1>3, <1>10, <2>2, <3>1
  <2>3. CASE i > p + 1
    <3>1. i - (p + 1) \in 1 .. (n - p) /\ p + (i - (p + 1)) = i - 1 /\ ~(i <= p)
          /\ ~(i <= p + 1) /\ i # p + 1
      BY <1>10, <2>3
    <3>2. all[i] = back[i - (p + 1)]
      BY <1>10, <3>1
    <3>3. back[i - (p + 1)] = s[i - 1]
      BY <1>2, <3>1 DEF n
    <3> QED
      BY <3>1, <3>2, <3>3
  <2>4. i <= p \/ i = p + 1 \/ i > p + 1
    BY <1>10
  <2> QED
    BY <2>4, <2>1, <2>2, <2>3
<1> QED
  BY <1>4, <1>6, <1>8, <1>9 DEF With, all, n

\* What it adds up to.
LEMMA TotalInserted ==
    ASSUME NEW lots \in Seq(Parcel), NEW lot \in Parcel, NEW p \in 0 .. Len(lots),
           NEW val \in [Parcel -> Int]
    PROVE  Total(val, InsertAt(lots, p + 1, lot)) = Total(val, lots) + val[lot]
<1> DEFINE n == Len(lots)
           r == InsertAt(lots, p + 1, lot)
           w == Each(val, lots)
           v == Each(val, r)
           A == 1 .. n
           B == (1 .. (n + 1)) \ {p + 1}
           f == [i \in A |-> IF i <= p THEN i ELSE i + 1]
<1>1. n \in Nat /\ p \in 0 .. n
  OBVIOUS
<1>2. /\ r \in Seq(Parcel) /\ Len(r) = n + 1
      /\ \A i \in 1 .. (n + 1) :
             r[i] = IF i <= p THEN lots[i] ELSE IF i = p + 1 THEN lot ELSE lots[i - 1]
  <2>1. With(Parcel, lots, p, lot, r)
    BY Inserted
  <2> QED
    BY <2>1 DEF With
<1> HIDE DEF r
<1>3. /\ Weights(w, A) /\ DOMAIN lots = A /\ Total(val, lots) = SumOn(w, A)
      /\ \A i \in A : w[i] = val[lots[i]]
  BY EachIs DEF Total
<1>4. /\ Weights(v, 1 .. (n + 1)) /\ Total(val, r) = SumOn(v, 1 .. (n + 1))
      /\ \A i \in 1 .. (n + 1) : v[i] = val[r[i]]
  BY <1>2, EachIs DEF Total
<1> HIDE DEF n, w, v
<1>5. Renames(f, A, B)
  <2>1. f \in [A -> B] /\ \A a, b \in A : f[a] = f[b] => a = b
    BY <1>1
  <2>2. ASSUME NEW b \in B PROVE \E a \in A : f[a] = b
    <3>1. CASE b <= p
      <4>1. b \in A /\ f[b] = b
        BY <1>1, <3>1
      <4> QED
        BY <4>1
    <3>2. CASE b > p
      <4>1. b - 1 \in A /\ f[b - 1] = b
        BY <1>1, <3>2
      <4> QED
        BY <4>1
    <3> QED
      BY <1>1, <3>1, <3>2
  <2> QED
    BY <2>1, <2>2 DEF Renames
<1>6. \A a \in A : v[f[a]] = w[a]
  <2>1. ASSUME NEW a \in A PROVE v[f[a]] = w[a]
    <3>1. CASE a <= p
      BY <1>1, <1>2, <1>3, <1>4, <3>1
    <3>2. CASE a > p
      <4>1. f[a] = a + 1 /\ a + 1 \in 1 .. (n + 1) /\ (a + 1) - 1 = a
        BY <1>1, <3>2
      <4>2. r[a + 1] = lots[a]
        BY <1>1, <1>2, <3>2, <4>1
      <4> QED
        BY <1>3, <1>4, <4>1, <4>2
    <3> QED
      BY <1>1, <3>1, <3>2
  <2> QED
    BY <2>1
<1>7. p + 1 \notin B /\ B \cup {p + 1} = 1 .. (n + 1) /\ v[p + 1] = val[lot] /\ val[lot] \in Int
  <2>1. p + 1 \in 1 .. (n + 1) /\ ~(p + 1 <= p)
    BY <1>1
  <2> QED
    BY <1>2, <1>4, <2>1
<1> HIDE DEF f, A, B
<1>8. SumOn(v, B) = SumOn(w, A) /\ SumOn(w, A) \in Int
  <2>1. Weights(w, A)
    BY <1>3
  <2>2. Weights(v, B) /\ SumOn(v, B) = SumOn(w, A)
    BY ONLY <1>5, <1>6, <2>1, SumMoved
  <2> QED
    BY <2>1, <2>2, SumType
<1>9. SumOn(v, B \cup {p + 1}) = v[p + 1] + SumOn(v, B)
  BY <1>4, <1>7, SumPlus
<1>10. SumOn(v, 1 .. (n + 1)) = SumOn(w, A) + val[lot]
  <2>1. SumOn(v, 1 .. (n + 1)) = SumOn(v, B \cup {p + 1})
    BY <1>7
  <2> QED
    BY <1>7, <1>8, <1>9, <2>1
<1> QED
  BY <1>3, <1>4, <1>10 DEF r

\* Appending a lot adds its value.
LEMMA TotalAppended ==
    ASSUME NEW lots \in Seq(Parcel), NEW lot \in Parcel, NEW val \in [Parcel -> Int]
    PROVE  Total(val, Append(lots, lot)) = Total(val, lots) + val[lot]
<1> DEFINE n == Len(lots)
           r == Append(lots, lot)
           s == InsertAt(lots, n + 1, lot)
<1>1. /\ r \in Seq(Parcel) /\ Len(r) = n + 1
      /\ \A i \in 1 .. (n + 1) : r[i] = IF i <= n THEN lots[i] ELSE lot
  OBVIOUS
<1>2. n \in 0 .. Len(lots)
  OBVIOUS
<1>3. /\ s \in Seq(Parcel) /\ Len(s) = n + 1
      /\ \A i \in 1 .. (n + 1) :
             s[i] = IF i <= n THEN lots[i] ELSE IF i = n + 1 THEN lot ELSE lots[i - 1]
  <2>1. With(Parcel, lots, n, lot, s)
    BY <1>2, Inserted
  <2> QED
    BY <2>1 DEF With
<1>4. n \in Nat
  OBVIOUS
<1> HIDE DEF r, s, n
<1>5. \A i \in 1 .. (n + 1) : r[i] = s[i]
  <2>1. ASSUME NEW i \in 1 .. (n + 1) PROVE r[i] = s[i]
    <3>1. CASE i <= n
      BY <1>1, <1>3, <3>1
    <3>2. CASE ~(i <= n)
      <4>1. i = n + 1
        BY <1>4, <3>2
      <4>2. r[i] = lot /\ s[i] = lot
        BY <1>1, <1>3, <3>2, <4>1
      <4> QED
        BY <4>2
    <3> QED
      BY <3>1, <3>2
  <2> QED
    BY <2>1
<1>6. r = s
  BY <1>1, <1>3, <1>5, SeqEqual
<1> QED
  BY <1>2, <1>6, TotalInserted DEF r, s, n

\* The lots of an instrument, in the order they were opened; the ones that are all long.
Stack == {lots \in Seq(Lot) : InOrder(lots)}
Longs == {lots \in Stack : LongOnly(lots)}

\* Where lots_for puts a new lot.
LEMMA InsertIs ==
    ASSUME NEW lots \in Stack, NEW lot \in Lot, NEW val \in [Parcel -> Int]
    PROVE  /\ Insert(lots, lot) \in Stack
           /\ Total(val, Insert(lots, lot)) = Total(val, lots) + val[lot]
           /\ \A k \in DOMAIN Insert(lots, lot) :
                  Insert(lots, lot)[k] = lot \/ \E m \in DOMAIN lots : Insert(lots, lot)[k] = lots[m]
<1> DEFINE before == {0} \cup {k \in DOMAIN lots : lots[k].opened <= lot.opened}
           p == Max(before)
           n == Len(lots)
           r == InsertAt(lots, p + 1, lot)
<1>1. lots \in Seq(Lot) /\ n \in Nat /\ DOMAIN lots = 1 .. n
      /\ \A k, m \in 1 .. n : k < m => lots[k].opened <= lots[m].opened
  BY DEF Stack, InOrder
<1>2. /\ \A k \in 1 .. n : lots[k] \in Lot /\ lots[k].opened \in Nat
      /\ lot.opened \in Nat
  <2>1. \A l \in Lot : l.opened \in Nat
    BY DEF Lot
  <2> QED
    BY <1>1, <2>1
<1>3. /\ p \in 0 .. n
      /\ \A k \in 1 .. p : lots[k].opened <= lot.opened
      /\ \A k \in (p + 1) .. n : lots[k].opened > lot.opened
  <2>1. before \in SUBSET (0 .. n) /\ before # {} /\ before \in SUBSET Int
    BY <1>1
  <2>2. IsFiniteSet(before)
    <3>1. 0 \in Int /\ n \in Int
      BY <1>1
    <3>2. IsFiniteSet(0 .. n)
      BY <3>1, FS_Interval
    <3> QED
      BY <2>1, <3>2, FS_Subset
  <2>3. p \in before /\ \A y \in before : p >= y
    <3> HIDE DEF before
    <3> QED
      BY <2>1, <2>2, MaxIs
  <2> HIDE DEF p
  <2>4. p \in 0 .. n
    BY <2>1, <2>3
  <2>5. ASSUME NEW k \in 1 .. p PROVE lots[k].opened <= lot.opened
    <3>1. p \in 1 .. n /\ lots[p].opened <= lot.opened /\ k \in 1 .. n
      BY <1>1, <2>3, <2>4
    <3>2. k = p \/ k < p
      BY <2>4
    <3>3. lots[k].opened <= lots[p].opened
      BY <1>1, <1>2, <3>1, <3>2
    <3> QED
      BY <1>2, <3>1, <3>3
  <2>6. ASSUME NEW k \in (p + 1) .. n PROVE lots[k].opened > lot.opened
    <3>1. k \in 1 .. n /\ k > p
      BY <1>1, <2>4
    <3>2. k \notin before
      BY <2>3, <2>4, <3>1
    <3> QED
      BY <1>1, <1>2, <3>1, <3>2
  <2> QED
    BY <2>4, <2>5, <2>6
<1>4. Insert(lots, lot) = r
  <2>1. 1 + p = p + 1
    BY <1>3
  <2> QED
    BY <2>1 DEF Insert
<1> HIDE DEF p
<1>5. With(Lot, lots, p, lot, r)
  BY <1>1, <1>3, Inserted
<1>6. Total(val, r) = Total(val, lots) + val[lot]
  <2>1. lots \in Seq(Parcel) /\ lot \in Parcel
    BY <1>1, LotIsParcel
  <2> QED
    BY <1>3, <2>1, TotalInserted
<1> HIDE DEF r, n
<1>7. /\ r \in Seq(Lot) /\ DOMAIN r = 1 .. (n + 1)
      /\ \A i \in 1 .. (n + 1) :
             r[i] = IF i <= p THEN lots[i] ELSE IF i = p + 1 THEN lot ELSE lots[i - 1]
  BY <1>5 DEF With, n
<1>8. ASSUME NEW k \in 1 .. (n + 1)
      PROVE  \/ k \in 1 .. p /\ k \in 1 .. n /\ r[k] = lots[k]
             \/ k = p + 1 /\ r[k] = lot
             \/ k - 1 \in (p + 1) .. n /\ k - 1 \in 1 .. n /\ r[k] = lots[k - 1]
  <2>1. CASE k <= p
    BY <1>1, <1>3, <1>7, <2>1
  <2>2. CASE k = p + 1
    BY <1>3, <1>7, <2>2
  <2>3. CASE k > p + 1
    <3>1. ~(k <= p) /\ k # p + 1 /\ k - 1 \in (p + 1) .. n /\ k - 1 \in 1 .. n
      BY <1>1, <1>3, <2>3
    <3> QED
      BY <1>7, <3>1
  <2>4. k <= p \/ k = p + 1 \/ k > p + 1
    BY <1>1, <1>3
  <2> QED
    BY <2>1, <2>2, <2>3, <2>4
<1>9. ASSUME NEW k \in 1 .. (n + 1), NEW m \in 1 .. (n + 1), k < m
      PROVE  r[k].opened <= r[m].opened
  <2>1. CASE k \in 1 .. p /\ k \in 1 .. n /\ r[k] = lots[k]
    <3>1. CASE m \in 1 .. n /\ r[m] = lots[m]
      BY <1>1, <1>9, <2>1, <3>1
    <3>2. CASE r[m] = lot
      BY <1>3, <2>1, <3>2
    <3>3. CASE m - 1 \in (p + 1) .. n /\ m - 1 \in 1 .. n /\ r[m] = lots[m - 1]
      <4>1. lots[k].opened <= lot.opened /\ lots[m - 1].opened > lot.opened
        BY <1>3, <2>1, <3>3
      <4> QED
        BY <1>2, <2>1, <3>3, <4>1
    <3> QED
      BY <1>8, <3>1, <3>2, <3>3
  <2>2. CASE k = p + 1 /\ r[k] = lot
    <3>1. m - 1 \in (p + 1) .. n /\ r[m] = lots[m - 1]
      BY <1>3, <1>8, <1>9, <2>2
    <3> QED
      BY <1>1, <1>2, <1>3, <2>2, <3>1
  <2>3. CASE k - 1 \in (p + 1) .. n /\ k - 1 \in 1 .. n /\ r[k] = lots[k - 1]
    <3>1. m - 1 \in (p + 1) .. n /\ m - 1 \in 1 .. n /\ r[m] = lots[m - 1] /\ k - 1 < m - 1
      BY <1>1, <1>3, <1>8, <1>9, <2>3
    <3> QED
      BY <1>1, <2>3, <3>1
  <2> QED
    BY <1>8, <2>1, <2>2, <2>3
<1>10. r \in Stack
  BY <1>7, <1>9 DEF Stack, InOrder
<1>11. \A k \in DOMAIN r : r[k] = lot \/ \E m \in DOMAIN lots : r[k] = lots[m]
  BY <1>1, <1>7, <1>8
<1> QED
  BY <1>4, <1>6, <1>10, <1>11

\* A fold of a sequence that takes its last index first, and the recursion behind it.
Along(D, base, step, g) ==
    /\ g[{}] = base
    /\ \A s \in SUBSET D : s # {} => Max(s) \in s /\ g[s] = step[<<Max(s), g[s \ {Max(s)}]>>]

Recursion(D, base, step, g) ==
    g = [s \in SUBSET D |-> IF s = {} THEN base ELSE step[<<Max(s), g[s \ {Max(s)}]>>]]

\* A fold over the elements of a sequence, the last one last.
LEMMA FoldAlong ==
    ASSUME NEW n \in Nat, NEW V, NEW base \in V, NEW step \in [(1 .. n) \X V -> V]
    PROVE  \E g \in [SUBSET (1 .. n) -> V] :
               Along(1 .. n, base, step, g) /\ Recursion(1 .. n, base, step, g)
<1> DEFINE D == 1 .. n
           c == [s \in SUBSET D |-> Max(s)]
<1>1. IsFiniteSet(D)
  BY Finite
<1>2. \A s \in SUBSET D : s # {} => Max(s) \in s
  <2> SUFFICES ASSUME NEW s \in SUBSET D, s # {} PROVE Max(s) \in s
    OBVIOUS
  <2>1. s \in SUBSET Int
    OBVIOUS
  <2>2. IsFiniteSet(s)
    <3> HIDE DEF D
    <3> QED
      BY <1>1, FS_Subset
  <2> QED
    BY <2>1, <2>2, MaxIs
<1>3. PICK g \in [SUBSET D -> V] : IsFold(D, base, step, c, g)
  <2>1. \A s \in SUBSET D : s # {} => c[s] \in s
    BY <1>2
  <2> HIDE DEF c, D
  <2>2. step \in [D \X V -> V]
    BY DEF D
  <2> QED
    BY <1>1, <2>1, <2>2, FoldExists
<1>4. g = [s \in SUBSET D |-> IF s = {} THEN base ELSE step[<<Max(s), g[s \ {Max(s)}]>>]]
  <2>1. g = [s \in SUBSET D |-> IF s = {} THEN base ELSE step[<<c[s], g[s \ {c[s]}]>>]]
    BY <1>3 DEF IsFold
  <2>2. \A s \in SUBSET D : c[s] = Max(s)
    OBVIOUS
  <2> HIDE DEF c, D
  <2> QED
    BY <2>1, <2>2
<1>5. Along(D, base, step, g)
  <2>1. {} \in SUBSET D
    OBVIOUS
  <2> HIDE DEF D, c
  <2> QED
    BY <1>2, <1>4, <2>1 DEF Along
<1> QED
  BY <1>4, <1>5 DEF Recursion

\* The states of InsertAll.
Inserts(lots, more, D, f) ==
    /\ f[{}] = lots
    /\ \A s \in SUBSET D : s # {} =>
          Max(s) \in s /\ f[s] = Insert(f[s \ {Max(s)}], more[Max(s)])

\* InsertAll inserts one after the other.
LEMMA InsertAllSteps ==
    ASSUME NEW lots \in Longs, NEW n \in Nat, NEW more \in [1 .. n -> Lot],
           \A k \in 1 .. n : more[k].direction = "LONG"
    PROVE  \E f \in [SUBSET (1 .. n) -> Longs] :
              InsertAll(lots, more) = f[1 .. n] /\ Inserts(lots, more, 1 .. n, f)
<1> DEFINE D == 1 .. n
           step == [p \in D \X Longs |-> Insert(p[2], more[p[1]])]
           Next1(f, s) == IF s = {} THEN lots ELSE Insert(f[s \ {Max(s)}], more[Max(s)])
           f == CHOOSE h : h = [s \in SUBSET D |-> Next1(h, s)]
<1>1. InsertAll(lots, more) = f[D]
  <2>1. DOMAIN more = D
    OBVIOUS
  <2> QED
    BY <2>1 DEF InsertAll, FoldLeft, MapThenFoldSet
<1>2. ASSUME NEW l \in Longs, NEW k \in D PROVE Insert(l, more[k]) \in Longs
  <2>1. l \in Stack /\ LongOnly(l) /\ more[k] \in Lot
    BY DEF Longs
  <2>2. PICK val : val \in [Parcel -> Int]
    <3>1. [p \in Parcel |-> 0] \in [Parcel -> Int]
      OBVIOUS
    <3> QED
      BY <3>1
  <2>3. /\ Insert(l, more[k]) \in Stack
        /\ \A m \in DOMAIN Insert(l, more[k]) :
              Insert(l, more[k])[m] = more[k] \/ \E j \in DOMAIN l : Insert(l, more[k])[m] = l[j]
    BY <2>1, <2>2, InsertIs
  <2>4. LongOnly(Insert(l, more[k]))
    BY <2>1, <2>3 DEF LongOnly
  <2> QED
    BY <2>3, <2>4 DEF Longs
<1>3. step \in [D \X Longs -> Longs]
  BY <1>2
<1>4. PICK g \in [SUBSET D -> Longs] : Along(D, lots, step, g) /\ Recursion(D, lots, step, g)
  <2> HIDE DEF step
  <2> QED
    BY <1>3, FoldAlong
<1>5. ASSUME NEW s \in SUBSET D, s # {}
      PROVE  step[<<Max(s), g[s \ {Max(s)}]>>] = Insert(g[s \ {Max(s)}], more[Max(s)])
  <2>1. Max(s) \in D /\ g[s \ {Max(s)}] \in Longs
    <3>1. Max(s) \in s /\ s \ {Max(s)} \in SUBSET D
      BY <1>4, <1>5 DEF Along
    <3> HIDE DEF D
    <3> QED
      BY <1>5, <3>1
  <2> HIDE DEF D
  <2> QED
    BY <2>1
<1>6. g = [s \in SUBSET D |-> Next1(g, s)]
  <2> HIDE DEF step, D
  <2> QED
    BY <1>4, <1>5 DEF Recursion
<1>7. f = [s \in SUBSET D |-> Next1(f, s)]
  <2> HIDE DEF Next1, D
  <2> QED
    BY <1>6
<1> HIDE DEF f
<1>8. ASSUME NEW s \in SUBSET D, s # {} PROVE Max(s) \in s /\ f[s] = Insert(f[s \ {Max(s)}], more[Max(s)])
  <2>1. Max(s) \in s
    BY <1>4, <1>8 DEF Along
  <2> HIDE DEF D
  <2> QED
    BY <1>7, <1>8, <2>1
<1>9. {} \in SUBSET D /\ f[{}] = lots
  BY <1>7
<1> DEFINE T == {s \in SUBSET D : f[s] \in Longs}
<1>10. ASSUME NEW s \in SUBSET D, \A r \in SUBSET s : r # s => r \in T PROVE s \in T
  <2>1. CASE s = {}
    BY <1>9, <2>1
  <2>2. CASE s # {}
    <3>1. Max(s) \in s /\ f[s] = Insert(f[s \ {Max(s)}], more[Max(s)])
      BY <1>8, <2>2
    <3>2. s \ {Max(s)} \in T
      BY <1>10, <3>1
    <3>3. Max(s) \in D /\ f[s \ {Max(s)}] \in Longs
      BY <3>1, <3>2
    <3>4. f[s] \in Longs
      BY <1>2, <3>1, <3>3
    <3> QED
      BY <3>4
  <2> QED
    BY <2>1, <2>2
<1>11. SUBSET D \subseteq T
  <2>1. IsFiniteSet(D)
    BY Finite
  <2> HIDE DEF T, D
  <2> QED
    BY <1>10, <2>1, SubsetsByInduction
<1>12. f \in [SUBSET D -> Longs]
  <2> HIDE DEF D
  <2> QED
    BY <1>7, <1>11
<1> QED
  BY <1>1, <1>8, <1>9, <1>12 DEF Inserts

\* Lots are inserted, none is lost and none is changed.
LEMMA InsertAllIs ==
    ASSUME NEW lots \in Longs, NEW n \in Nat, NEW more \in [1 .. n -> Lot],
           \A k \in 1 .. n : more[k].direction = "LONG", NEW val \in [Parcel -> Int]
    PROVE  /\ InsertAll(lots, more) \in Longs
           /\ Total(val, InsertAll(lots, more)) = Total(val, lots) + Total(val, more)
<1> DEFINE D == 1 .. n
           w == Each(val, more)
<1>0. PICK f \in [SUBSET D -> Longs] :
         InsertAll(lots, more) = f[D] /\ Inserts(lots, more, D, f)
  BY InsertAllSteps
<1>1. /\ InsertAll(lots, more) = f[D]
      /\ f[{}] = lots
      /\ \A s \in SUBSET D : s # {} => Max(s) \in s /\ f[s] = Insert(f[s \ {Max(s)}], more[Max(s)])
  BY <1>0 DEF Inserts
<1>2. /\ Weights(w, D) /\ Total(val, more) = SumOn(w, D)
      /\ \A k \in D : w[k] = val[more[k]] /\ val[more[k]] \in Int
  <2>1. more \in Seq(Parcel) /\ DOMAIN more = D
    BY LotIsParcel
  <2> QED
    BY <2>1, EachIs DEF Total
<1>3. \A s \in SUBSET D : Weights(w, s) /\ SumOn(w, s) \in Int
  <2>1. \A s \in SUBSET D : Weights(w, s)
    BY <1>2, FS_Subset DEF Weights
  <2> QED
    BY <2>1, SumType
<1>4. \A l \in Longs : l \in Stack /\ Total(val, l) \in Int
  <2>1. \A l \in Longs : l \in Stack /\ l \in Seq(Parcel)
    BY LotIsParcel DEF Longs, Stack
  <2> QED
    BY <2>1, EachIs
<1> DEFINE T == {s \in SUBSET D : Total(val, f[s]) = Total(val, lots) + SumOn(w, s)}
<1>5. ASSUME NEW s \in SUBSET D, \A r \in SUBSET s : r # s => r \in T PROVE s \in T
  <2>1. CASE s = {}
    BY <1>1, <1>4, <2>1, SumOfNone
  <2>2. CASE s # {}
    <3> DEFINE m == Max(s)
               r == s \ {m}
    <3>1. m \in s /\ f[s] = Insert(f[r], more[m])
      BY <1>1, <2>2
    <3> HIDE DEF m
    <3>2. r \in T /\ r \in SUBSET D
      BY <1>5, <3>1
    <3>3. f[r] \in Stack /\ more[m] \in Lot /\ m \in D
      BY <1>1, <1>4, <3>1, <3>2
    <3>4. Total(val, f[s]) = Total(val, f[r]) + val[more[m]]
      BY <3>1, <3>3, InsertIs
    <3>5. SumOn(w, s) = w[m] + SumOn(w, r)
      BY <1>3, <3>1, SumTake
    <3>6. Total(val, f[r]) = Total(val, lots) + SumOn(w, r)
      BY <3>2
    <3>7. w[m] = val[more[m]] /\ val[more[m]] \in Int /\ SumOn(w, r) \in Int /\ Total(val, lots) \in Int
      BY <1>2, <1>3, <1>4, <3>2, <3>3
    <3> HIDE DEF r
    <3>8. Total(val, f[s]) = Total(val, lots) + SumOn(w, s)
      BY <3>4, <3>5, <3>6, <3>7
    <3> QED
      BY <3>8
  <2> QED
    BY <2>1, <2>2
<1>6. SUBSET D \subseteq T
  <2>1. IsFiniteSet(D)
    BY Finite
  <2> HIDE DEF T, D
  <2> QED
    BY <1>5, <2>1, SubsetsByInduction
<1>7. D \in T /\ f[D] \in Longs
  <2> HIDE DEF T, D
  <2> QED
    BY <1>1, <1>6
<1> QED
  BY <1>1, <1>2, <1>7

\* The step of StillOpen, and its states.
KeptLot(s, lot) == IF lot.quantity > 0 THEN Append(s, lot) ELSE s
Keeps(lots, D, f) ==
    /\ f[{}] = <<>>
    /\ \A s \in SUBSET D : s # {} =>
          Max(s) \in s /\ f[s] = KeptLot(f[s \ {Max(s)}], lots[Max(s)])

\* A lot is kept when something of it is left.
LEMMA KeptLotIs ==
    ASSUME NEW s \in Seq(Lot), NEW lot \in Parcel
    PROVE  KeptLot(s, lot) \in Seq(Lot)
<1>1. CASE lot.quantity > 0
  <2>1. lot \in Lot
    BY <1>1 DEF Lot, Parcel
  <2>2. KeptLot(s, lot) = Append(s, lot)
    BY <1>1 DEF KeptLot
  <2> QED
    BY <2>1, <2>2
<1>2. CASE ~(lot.quantity > 0)
  BY <1>2 DEF KeptLot
<1> QED
  BY <1>1, <1>2

\* StillOpen takes one after the other.
LEMMA StillOpenSteps ==
    ASSUME NEW n \in Nat, NEW lots \in [1 .. n -> Parcel]
    PROVE  \E f \in [SUBSET (1 .. n) -> Seq(Lot)] :
              StillOpen(lots) = f[1 .. n] /\ Keeps(lots, 1 .. n, f)
<1> DEFINE D == 1 .. n
           V == Seq(Lot)
           step == [p \in D \X V |-> KeptLot(p[2], lots[p[1]])]
           Next1(f, s) == IF s = {} THEN <<>> ELSE KeptLot(f[s \ {Max(s)}], lots[Max(s)])
           f == CHOOSE h : h = [s \in SUBSET D |-> Next1(h, s)]
<1>1. StillOpen(lots) = f[D]
  <2>1. DOMAIN lots = D
    OBVIOUS
  <2> QED
    BY <2>1 DEF StillOpen, FoldLeft, MapThenFoldSet, KeptLot
<1>2. ASSUME NEW l \in V, NEW k \in D PROVE KeptLot(l, lots[k]) \in V
  BY KeptLotIs
<1>3. step \in [D \X V -> V]
  <2> HIDE DEF V
  <2> QED
    BY <1>2
<1>4. PICK g \in [SUBSET D -> V] : Along(D, <<>>, step, g) /\ Recursion(D, <<>>, step, g)
  <2>1. <<>> \in V
    OBVIOUS
  <2> HIDE DEF step, V
  <2> QED
    BY <1>3, <2>1, FoldAlong
<1>5. ASSUME NEW s \in SUBSET D, s # {}
      PROVE  step[<<Max(s), g[s \ {Max(s)}]>>] = KeptLot(g[s \ {Max(s)}], lots[Max(s)])
  <2>1. Max(s) \in D /\ g[s \ {Max(s)}] \in V
    <3>1. Max(s) \in s /\ s \ {Max(s)} \in SUBSET D
      BY <1>4, <1>5 DEF Along
    <3> HIDE DEF D, V
    <3> QED
      BY <1>5, <3>1
  <2> HIDE DEF D, V
  <2> QED
    BY <2>1
<1>6. g = [s \in SUBSET D |-> Next1(g, s)]
  <2> HIDE DEF step, D, V
  <2> QED
    BY <1>4, <1>5 DEF Recursion
<1>7. f = [s \in SUBSET D |-> Next1(f, s)]
  <2> HIDE DEF Next1, D, V
  <2> QED
    BY <1>6
<1> HIDE DEF f
<1>8. ASSUME NEW s \in SUBSET D, s # {} PROVE Max(s) \in s /\ f[s] = KeptLot(f[s \ {Max(s)}], lots[Max(s)])
  <2>1. Max(s) \in s
    BY <1>4, <1>8 DEF Along
  <2> HIDE DEF D
  <2> QED
    BY <1>7, <1>8, <2>1
<1>9. {} \in SUBSET D /\ f[{}] = <<>>
  BY <1>7
<1> DEFINE T == {s \in SUBSET D : f[s] \in V}
<1>10. ASSUME NEW s \in SUBSET D, \A r \in SUBSET s : r # s => r \in T PROVE s \in T
  <2>1. CASE s = {}
    <3>1. <<>> \in V
      OBVIOUS
    <3> HIDE DEF V
    <3> QED
      BY <1>9, <2>1, <3>1
  <2>2. CASE s # {}
    <3>1. Max(s) \in s /\ f[s] = KeptLot(f[s \ {Max(s)}], lots[Max(s)])
      BY <1>8, <2>2
    <3>2. s \ {Max(s)} \in T
      BY <1>10, <3>1
    <3>3. Max(s) \in D /\ f[s \ {Max(s)}] \in V
      BY <3>1, <3>2
    <3> HIDE DEF V
    <3>4. f[s] \in V
      BY <1>2, <3>1, <3>3
    <3> QED
      BY <3>4
  <2> QED
    BY <2>1, <2>2
<1>11. SUBSET D \subseteq T
  <2>1. IsFiniteSet(D)
    BY Finite
  <2> HIDE DEF T, D, V, Next1, step
  <2> QED
    BY ONLY <1>10, <2>1, SubsetsByInduction
<1>12. f \in [SUBSET D -> V]
  <2> HIDE DEF D, V
  <2> QED
    BY <1>7, <1>11
<1> QED
  BY <1>1, <1>8, <1>9, <1>12 DEF Keeps

\* What is closed weighs nothing, so that what is left weighs the same.
LEMMA StillOpenIs ==
    ASSUME NEW n \in Nat, NEW lots \in [1 .. n -> Parcel],
           \A j, k \in 1 .. n : j < k => lots[j].opened <= lots[k].opened,
           NEW val \in [Parcel -> Int],
           \A k \in 1 .. n : lots[k].quantity = 0 => val[lots[k]] = 0
    PROVE  /\ StillOpen(lots) \in Stack
           /\ \A i \in DOMAIN StillOpen(lots) : \E k \in 1 .. n : StillOpen(lots)[i] = lots[k]
           /\ Total(val, StillOpen(lots)) = Total(val, lots)
<1> DEFINE D == 1 .. n
           V == Seq(Lot)
           w == Each(val, lots)
<1>0. PICK f \in [SUBSET D -> V] : StillOpen(lots) = f[D] /\ Keeps(lots, D, f)
  BY StillOpenSteps
<1>1. /\ StillOpen(lots) = f[D] /\ f[{}] = <<>>
      /\ \A s \in SUBSET D : s # {} => Max(s) \in s /\ f[s] = KeptLot(f[s \ {Max(s)}], lots[Max(s)])
  BY <1>0 DEF Keeps
<1>2. /\ Weights(w, D) /\ Total(val, lots) = SumOn(w, D)
      /\ \A k \in D : w[k] = val[lots[k]] /\ val[lots[k]] \in Int
  <2>1. lots \in Seq(Parcel) /\ DOMAIN lots = D
    OBVIOUS
  <2> QED
    BY <2>1, EachIs DEF Total
<1>3. \A s \in SUBSET D : Weights(w, s) /\ SumOn(w, s) \in Int
  <2>1. \A s \in SUBSET D : Weights(w, s)
    BY <1>2, FS_Subset DEF Weights
  <2> QED
    BY <2>1, SumType
<1>4. \A l \in Seq(Lot) : l \in Seq(Parcel) /\ Total(val, l) \in Int
  <2>1. \A l \in Seq(Lot) : l \in Seq(Parcel)
    BY LotIsParcel
  <2> QED
    BY <2>1, EachIs
<1>5. \A k \in D : /\ lots[k] \in Parcel /\ lots[k].quantity \in Nat
                   /\ lots[k].opened \in Nat
                   /\ lots[k].quantity > 0 => lots[k] \in Lot
  <2>1. \A p \in Parcel : p.quantity \in Nat /\ p.opened \in Nat /\ (p.quantity > 0 => p \in Lot)
    BY DEF Parcel, Lot
  <2> QED
    BY <2>1
<1>6. \A s \in SUBSET D : s # {} => \A k \in s : Max(s) >= k
  <2> SUFFICES ASSUME NEW s \in SUBSET D, s # {} PROVE \A k \in s : Max(s) >= k
    OBVIOUS
  <2>1. s \in SUBSET Int
    OBVIOUS
  <2>2. IsFiniteSet(s)
    BY <1>3 DEF Weights
  <2> QED
    BY <2>1, <2>2, MaxIs
<1> DEFINE From(s) == \A i \in DOMAIN f[s] : \E k \in s : f[s][i] = lots[k]
           T == {s \in SUBSET D : From(s) /\ InOrder(f[s]) /\ Total(val, f[s]) = SumOn(w, s)}
<1>7. ASSUME NEW s \in SUBSET D, \A r \in SUBSET s : r # s => r \in T PROVE s \in T
  <2>1. CASE s = {}
    <3>1. From({}) /\ InOrder(f[{}])
      BY <1>1 DEF InOrder
    <3>2. Total(val, f[{}]) = SumOn(w, {})
      <4>1. Each(val, <<>>) = <<>> /\ DOMAIN <<>> = {}
        BY DEF Each
      <4>2. Total(val, <<>>) = SumOn(Each(val, <<>>), {})
        BY <4>1 DEF Total
      <4> QED
        BY <1>1, <4>2, SumOfNone
    <3> QED
      BY <2>1, <3>1, <3>2
  <2>2. CASE s # {}
    <3> DEFINE m == Max(s)
               r == s \ {m}
               old == f[r]
    <3>1. m \in s /\ m \in D /\ f[s] = KeptLot(f[r], lots[m]) /\ \A k \in r : k < m /\ k \in D
      <4>1. m \in s /\ f[s] = KeptLot(f[r], lots[m])
        BY <1>1, <2>2
      <4>2. m \in D /\ \A k \in r : k \in D /\ m >= k /\ k # m
        BY <1>6, <2>2, <4>1
      <4> HIDE DEF m, r
      <4> QED
        BY <4>1, <4>2
    <3> HIDE DEF m
    <3>2. r \in T /\ r \in SUBSET D
      BY <1>7, <3>1
    <3>3. /\ old \in Seq(Lot) /\ From(r) /\ InOrder(old) /\ Total(val, old) = SumOn(w, r)
      BY <3>2
    <3>4. SumOn(w, s) = w[m] + SumOn(w, r) /\ SumOn(w, r) \in Int
      BY <1>3, <3>1, <3>2, SumTake
    <3>5. w[m] = val[lots[m]] /\ val[lots[m]] \in Int
      BY <1>2, <3>1
    <3> HIDE DEF r
    <3>6. CASE lots[m].quantity > 0
      <4>1. f[s] = Append(old, lots[m]) /\ lots[m] \in Lot
        BY <1>5, <3>1, <3>6 DEF KeptLot
      <4> DEFINE j == Len(old)
      <4>2. /\ DOMAIN f[s] = 1 .. (j + 1) /\ j \in Nat /\ DOMAIN old = 1 .. j
            /\ \A i \in 1 .. j : f[s][i] = old[i]
            /\ f[s][j + 1] = lots[m]
        BY <3>3, <4>1
      <4>3. Total(val, f[s]) = Total(val, old) + val[lots[m]]
        BY <1>4, <1>5, <3>1, <3>3, <4>1, TotalAppended
      <4>4. Total(val, f[s]) = SumOn(w, s)
        BY <3>3, <3>4, <3>5, <4>3
      <4> HIDE DEF j, old
      <4>5. From(s)
        <5>1. ASSUME NEW i \in DOMAIN f[s] PROVE \E k \in s : f[s][i] = lots[k]
          <6>1. CASE i = j + 1
            BY <3>1, <4>2, <6>1
          <6>2. CASE i # j + 1
            <7>1. i \in 1 .. j
              BY <4>2, <6>2
            <7>2. PICK k \in r : old[i] = lots[k]
              BY <3>3, <4>2, <7>1 DEF old
            <7> QED
              BY <4>2, <7>1, <7>2 DEF r
          <6> QED
            BY <6>1, <6>2
        <5> QED
          BY <5>1
      <4>6. InOrder(f[s])
        <5>1. ASSUME NEW i \in 1 .. (j + 1), NEW h \in 1 .. (j + 1), i < h
              PROVE  f[s][i].opened <= f[s][h].opened
          <6>1. i \in 1 .. j
            BY <4>2, <5>1
          <6>2. CASE h = j + 1
            <7>1. PICK k \in r : old[i] = lots[k]
              BY <3>3, <4>2, <6>1 DEF old
            <7>2. lots[k].opened <= lots[m].opened
              BY <3>1, <7>1
            <7> QED
              BY <4>2, <6>1, <6>2, <7>1, <7>2
          <6>3. CASE h # j + 1
            <7>1. h \in 1 .. j
              BY <4>2, <6>3
            <7>2. old[i].opened <= old[h].opened
              BY <3>3, <4>2, <5>1, <6>1, <7>1 DEF InOrder
            <7> QED
              BY <4>2, <6>1, <7>1, <7>2
          <6> QED
            BY <6>2, <6>3
        <5> QED
          BY <4>2, <5>1 DEF InOrder
      <4> QED
        BY <4>4, <4>5, <4>6
    <3>7. CASE ~(lots[m].quantity > 0)
      <4>1. f[s] = old /\ lots[m].quantity = 0
        BY <1>5, <3>1, <3>7 DEF KeptLot
      <4>2. Total(val, f[s]) = SumOn(w, s)
        BY <3>1, <3>3, <3>4, <3>5, <4>1
      <4>3. From(s)
        BY <3>3, <4>1 DEF r
      <4> QED
        BY <3>3, <4>1, <4>2, <4>3
    <3> QED
      BY <3>6, <3>7
  <2> QED
    BY <2>1, <2>2
<1>8. D \in T
  <2>1. IsFiniteSet(D)
    BY Finite
  <2>2. SUBSET D \subseteq T
    <3>1. Inductive(D, T)
      <4> HIDE DEF T, D, V, From, w
      <4> QED
        BY <1>7 DEF Inductive
    <3> HIDE DEF T, D
    <3> QED
      BY <2>1, <3>1, SubsetsBySteps
  <2> HIDE DEF T, D
  <2> QED
    BY <2>2
<1>9. From(D) /\ InOrder(f[D]) /\ Total(val, f[D]) = SumOn(w, D) /\ f[D] \in Seq(Lot)
  BY <1>8
<1> QED
  BY <1>1, <1>2, <1>9 DEF Stack

\* The smaller of two numbers.
LEMMA MinOfTwo ==
    ASSUME NEW a \in Int, NEW b \in Int
    PROVE  Min({a, b}) = IF a <= b THEN a ELSE b
<1> DEFINE m == IF a <= b THEN a ELSE b
<1>1. m \in {a, b} /\ \A y \in {a, b} : m <= y
  OBVIOUS
<1>2. \A x \in {a, b} : (\A y \in {a, b} : x <= y) => x = m
  OBVIOUS
<1> HIDE DEF m
<1>3. Min({a, b}) = m
  BY <1>1, <1>2 DEF Min
<1> QED
  BY <1>3 DEF m

\* A share of at most the whole.
LEMMA ShareIs ==
    ASSUME NEW s \in Nat \ {0}, NEW q \in Nat, q <= s, NEW w \in Nat, NEW a \in Int, s * a = q * w
    PROVE  a \in Nat /\ a <= w
<1>1. q * w >= 0 /\ q * w <= s * w
  <2>1. q * w >= 0
    OBVIOUS
  <2>2. (s - q) * w >= 0
    <3>1. s - q \in Nat
      OBVIOUS
    <3> DEFINE d == s - q
    <3> HIDE DEF d
    <3>2. d * w >= 0
      BY <3>1 DEF d
    <3> QED
      BY <3>2 DEF d
  <2>3. (s - q) * w = s * w - q * w
    OBVIOUS
  <2> QED
    BY <2>1, <2>2, <2>3
<1>2. ASSUME a < 0 PROVE FALSE
  <2>1. s * a < 0
    BY <1>2
  <2> QED
    BY <1>1, <2>1
<1>3. ASSUME a > w PROVE FALSE
  <2> DEFINE d == a - w
  <2>1. d \in Nat \ {0} /\ a = w + d
    BY <1>3
  <2> HIDE DEF d
  <2>2. s * (w + d) = s * w + s * d
    BY <2>1
  <2>3. s * d > 0
    BY <2>1
  <2> DEFINE x == s * w
             y == s * d
             z == s * a
  <2>4. z = x + y /\ y > 0 /\ z <= x /\ x \in Int /\ y \in Int
    BY <1>1, <2>1, <2>2, <2>3
  <2> HIDE DEF x, y, z
  <2> QED
    BY <2>4
<1> QED
  BY <1>2, <1>3

\* Quantities of lots are natural numbers, and so is their sum.
LEMMA QuantitiesAre ==
    ASSUME NEW n \in Nat, NEW lots \in [1 .. n -> Lot]
    PROVE  /\ Quantities(lots) \in [1 .. n -> Nat]
           /\ \A k \in 1 .. n : Quantities(lots)[k] = lots[k].quantity
           /\ Weights(Quantities(lots), 1 .. n)
           /\ SumSeq(Quantities(lots)) = SumOn(Quantities(lots), 1 .. n)
           /\ SumSeq(Quantities(lots)) \in Nat
<1>1. DOMAIN lots = 1 .. n /\ \A k \in 1 .. n : lots[k].quantity \in Nat
  BY DEF Lot
<1>2. /\ Quantities(lots) \in [1 .. n -> Nat] /\ DOMAIN Quantities(lots) = 1 .. n
      /\ \A k \in 1 .. n : Quantities(lots)[k] = lots[k].quantity
  BY <1>1 DEF Quantities
<1>3. Weights(Quantities(lots), 1 .. n)
  <2> HIDE DEF Quantities
  <2> QED
    BY <1>2, Finite DEF Weights
<1>4. SumSeq(Quantities(lots)) = SumOn(Quantities(lots), 1 .. n)
  BY <1>2, SumSeqIs
<1>5. SumOn(Quantities(lots), 1 .. n) >= 0 /\ SumOn(Quantities(lots), 1 .. n) \in Int
  <2>1. \A x \in 1 .. n : Quantities(lots)[x] >= 0
    BY <1>2
  <2> QED
    BY <1>3, <2>1, SumAtLeast, SumType
<1> QED
  BY <1>2, <1>3, <1>4, <1>5

\* First in, first out: what the first k lots give.
FirstOut(w, q, n, a) ==
    \A k \in 1 .. n :
        LET left == q - SumOn(w, 1 .. (k - 1))
        IN a[k] = IF left <= 0 THEN 0 ELSE IF left <= w[k] THEN left ELSE w[k]

\* FIFO: no more than a lot holds is taken from it, and in all what is asked for.
LEMMA FirstOutIs ==
    ASSUME NEW n \in Nat, NEW w \in [1 .. n -> Nat], NEW q \in Nat, NEW a, FirstOut(w, q, n, a),
           q <= SumOn(w, 1 .. n)
    PROVE  /\ \A k \in 1 .. n : a[k] \in Nat /\ a[k] <= w[k]
           /\ SumOn(a, 1 .. n) = q
<1>1. /\ \A k \in 0 .. n : SumOn(w, 1 .. k) \in Int
      /\ SumOn(w, 1 .. 0) = 0
      /\ \A k \in 1 .. n : SumOn(w, 1 .. k) = SumOn(w, 1 .. (k - 1)) + w[k]
  <2>1. w \in [1 .. n -> Int]
    OBVIOUS
  <2> QED
    BY <2>1, SumFirstOf
<1>2. ASSUME NEW k \in 1 .. n
      PROVE  LET left == q - SumOn(w, 1 .. (k - 1)) IN
             /\ a[k] = IF left <= 0 THEN 0 ELSE IF left <= w[k] THEN left ELSE w[k]
             /\ left \in Int /\ w[k] \in Nat
  <2>1. k - 1 \in 0 .. n /\ w[k] \in Nat
    OBVIOUS
  <2> QED
    BY <1>1, <2>1 DEF FirstOut
<1>3. ASSUME NEW k \in 1 .. n PROVE a[k] \in Nat /\ a[k] <= w[k]
  <2> DEFINE left == q - SumOn(w, 1 .. (k - 1))
  <2>1. /\ a[k] = IF left <= 0 THEN 0 ELSE IF left <= w[k] THEN left ELSE w[k]
        /\ left \in Int /\ w[k] \in Nat
    BY <1>2
  <2> HIDE DEF left
  <2> QED
    BY <2>1
<1> DEFINE b == [k \in 1 .. n |-> a[k]]
<1>4. /\ b \in [1 .. n -> Int]
      /\ \A k \in 1 .. n : b[k] = a[k]
  BY <1>3
<1> HIDE DEF b
<1>5. /\ SumOn(b, 1 .. 0) = 0
      /\ \A k \in 0 .. n : SumOn(b, 1 .. k) \in Int
      /\ \A k \in 1 .. n : SumOn(b, 1 .. k) = SumOn(b, 1 .. (k - 1)) + b[k]
      /\ Weights(b, 1 .. n)
  BY <1>4, SumFirstOf
<1> DEFINE W(k) == SumOn(w, 1 .. k)
           B(k) == SumOn(b, 1 .. k)
           T == {k \in Nat : k <= n => B(k) = IF W(k) <= q THEN W(k) ELSE q}
<1>6. 0 \in T
  BY <1>1, <1>5
<1>7. ASSUME NEW k \in Nat, k \in T PROVE k + 1 \in T
  <2> SUFFICES ASSUME k + 1 <= n PROVE B(k + 1) = IF W(k + 1) <= q THEN W(k + 1) ELSE q
    OBVIOUS
  <2>1. k \in 0 .. n /\ k + 1 \in 1 .. n /\ (k + 1) - 1 = k /\ k <= n
    OBVIOUS
  <2>2. B(k) = IF W(k) <= q THEN W(k) ELSE q
    BY <1>7, <2>1
  <2>3. B(k + 1) = B(k) + a[k + 1] /\ W(k + 1) = W(k) + w[k + 1]
    BY <1>1, <1>4, <1>5, <2>1
  <2>4. /\ a[k + 1] = IF q - W(k) <= 0 THEN 0 ELSE IF q - W(k) <= w[k + 1] THEN q - W(k) ELSE w[k + 1]
        /\ w[k + 1] \in Nat /\ W(k) \in Int
    <3>1. W((k + 1) - 1) = W(k)
      BY <2>1
    <3> QED
      BY <1>1, <1>2, <2>1, <3>1
  <2> HIDE DEF B, W
  <2> QED
    BY <2>2, <2>3, <2>4
<1>8. n \in T
  <2> HIDE DEF T
  <2>1. Nat \subseteq T
    BY <1>6, <1>7, NumbersByInduction
  <2> QED
    BY <2>1
<1>9. SumOn(a, 1 .. n) = SumOn(b, 1 .. n)
  BY <1>4, <1>5, SumSame
<1>10. n \in 0 .. n
  OBVIOUS
<1>11. W(n) \in Int
  BY <1>1, <1>10
<1> QED
  BY <1>3, <1>8, <1>9, <1>11

\* What a sale takes from the lots: all of what is sold, and from no lot more than it has.
LEMMA MatchedIs ==
    ASSUME NEW n \in Nat, NEW lots \in [1 .. n -> Lot], NEW q \in Nat \ {0},
           q <= SumSeq(Quantities(lots)), Whole(lots, q), policy.method \in {"AVERAGE", "FIFO"}
    PROVE  /\ Matched(lots, q) \in [1 .. n -> Nat]
           /\ \A k \in 1 .. n : Matched(lots, q)[k] <= lots[k].quantity
           /\ SumSeq(Matched(lots, q)) = q
<1> DEFINE w == Quantities(lots)
           s == SumSeq(w)
           a == Matched(lots, q)
           D == 1 .. n
<1>1. /\ w \in [1 .. n -> Nat] /\ Weights(w, 1 .. n) /\ s = SumOn(w, 1 .. n) /\ s \in Nat
      /\ \A k \in 1 .. n : w[k] = lots[k].quantity
  BY QuantitiesAre
<1>2. DOMAIN lots = 1 .. n
  OBVIOUS
<1>3. CASE policy.method = "AVERAGE"
  <2>1. a = Allocate(q, w)
    BY <1>3 DEF Matched
  <2>2. SumSeq(w) > 0 /\ q \in Int /\ w \in [1 .. n -> Nat]
    BY <1>1
  <2>3. /\ s \in Nat \ {0}
        /\ Allocate(q, w) \in [1 .. n -> Int]
        /\ SumSeq(Allocate(q, w)) = q
        /\ Divisible(q, w, n) => Proportional(q, w, n, Allocate(q, w))
    <3> HIDE DEF w, a
    <3> QED
      BY ONLY <2>2, n \in Nat, AllocateIs
  <2> HIDE DEF w
  <2>4. Divisible(q, w, n)
    BY <1>1, <1>2, <1>3 DEF Whole, w, Divisible
  <2>5. \A k \in 1 .. n : s * a[k] = q * w[k] /\ a[k] \in Int
    BY <2>1, <2>3, <2>4 DEF Proportional
  <2> HIDE DEF s, a
  <2>6. ASSUME NEW k \in 1 .. n PROVE a[k] \in Nat /\ a[k] <= w[k]
    <3>1. s \in Nat \ {0} /\ q <= s /\ w[k] \in Nat /\ a[k] \in Int /\ s * a[k] = q * w[k]
      BY <1>1, <2>3, <2>5 DEF s, w
    <3> QED
      BY <3>1, ShareIs
  <2> QED
    BY <1>1, <2>1, <2>3, <2>6 DEF a
<1>4. CASE policy.method # "AVERAGE"
  <2> DEFINE lefts == [k \in DOMAIN lots |-> q - SumSeq(SubSeq(w, 1, k - 1))]
  <2>1. a = [k \in 1 .. n |->
                LET left == q - SumSeq(SubSeq(w, 1, k - 1))
                IN IF left <= 0 THEN 0 ELSE Min({left, lots[k].quantity})]
    BY <1>2, <1>4 DEF Matched
  <2>2. ASSUME NEW k \in 1 .. n PROVE SumSeq(SubSeq(w, 1, k - 1)) = SumOn(w, 1 .. (k - 1))
                                      /\ SumOn(w, 1 .. (k - 1)) \in Int
    <3> DEFINE p == SubSeq(w, 1, k - 1)
    <3> HIDE DEF w
    <3>1. w \in Seq(Nat) /\ Len(w) = n
      BY <1>1
    <3>2. DOMAIN p = 1 .. (k - 1) /\ \A i \in 1 .. (k - 1) : p[i] = w[i]
      BY <3>1
    <3>3. k - 1 \in 0 .. n /\ 1 .. (k - 1) \in SUBSET (1 .. n)
      OBVIOUS
    <3>4. Weights(w, 1 .. (k - 1))
      BY <1>1, <3>3, FS_Subset DEF Weights
    <3> HIDE DEF p
    <3>5. SumSeq(p) = SumOn(p, 1 .. (k - 1))
      BY <3>2, SumSeqIs
    <3>6. SumOn(p, 1 .. (k - 1)) = SumOn(w, 1 .. (k - 1))
      BY <3>2, <3>4, SumSame
    <3> QED
      BY <3>4, <3>5, <3>6, SumType DEF p
  <2>3. FirstOut(w, q, n, a)
    <3> HIDE DEF w, a
    <3> SUFFICES ASSUME NEW k \in 1 .. n
                 PROVE  LET left == q - SumOn(w, 1 .. (k - 1))
                        IN a[k] = IF left <= 0 THEN 0 ELSE IF left <= w[k] THEN left ELSE w[k]
      BY DEF FirstOut
    <3> DEFINE left == q - SumOn(w, 1 .. (k - 1))
    <3>1. a[k] = IF left <= 0 THEN 0 ELSE Min({left, w[k]})
      BY <1>1, <2>1, <2>2
    <3>2. left \in Int /\ w[k] \in Int
      BY <1>1, <2>2
    <3> HIDE DEF left
    <3>3. Min({left, w[k]}) = IF left <= w[k] THEN left ELSE w[k]
      BY <3>2, MinOfTwo
    <3>4. a[k] = IF left <= 0 THEN 0 ELSE IF left <= w[k] THEN left ELSE w[k]
      BY <3>1, <3>3
    <3> QED
      BY <3>4 DEF left
  <2> HIDE DEF w, a, s
  <2>4. (\A k \in 1 .. n : a[k] \in Nat /\ a[k] <= w[k]) /\ SumOn(a, 1 .. n) = q
    <3>1. w \in [1 .. n -> Nat] /\ q <= SumOn(w, 1 .. n)
      BY <1>1 DEF s, w
    <3> QED
      BY <2>3, <3>1, FirstOutIs
  <2>5. a \in [1 .. n -> Nat] /\ DOMAIN a = 1 .. n
    <3>1. a = [k \in 1 .. n |-> a[k]]
      BY <2>1
    <3> QED
      BY <2>4, <3>1
  <2>6. SumSeq(a) = SumOn(a, 1 .. n)
    BY <2>5, SumSeqIs
  <2> QED
    BY <1>1, <2>4, <2>5, <2>6 DEF a
<1> QED
  BY <1>3, <1>4

-----------------------------------------------------------------------------
(***************************************************************************)
(* Accounting: the invariant, and what an entry books                      *)
(***************************************************************************)
\* What a lot counts: a short one is negative.
SignedQuantity == [p \in Parcel |-> IF p.direction = "LONG" THEN p.quantity ELSE -p.quantity]
SignedBasis == [p \in Parcel |-> IF p.direction = "LONG" THEN p.basis ELSE -p.basis]
Units(lots) == Total(SignedQuantity, lots)
Cost(lots) == Total(SignedBasis, lots)
Costs(lots) == [i \in Instruments |-> Cost(lots[i])]
OneSided(lots) == \A k, m \in DOMAIN lots : lots[k].direction = lots[m].direction
\* What has come to a position during the day, but for its closing value.
Flow(s) == [i \in Instruments |-> s.cash[i] - s.external[i] - s.transfers[i] - s.opening[i]]
Session == [opening: PerInstrument, units: PerInstrument, reference: PerInstrument,
            transfers: PerInstrument, external: PerInstrument, cash: PerInstrument,
            other: Int, worth: Int, flows: Int]

\* The invariant.  The lots of an instrument face one way and are in order; the
\* session's units are what the lots hold;
LotsInv == \A i \in Instruments : InOrder(open[i]) /\ OneSided(open[i])
UnitsInv == \A i \in Instruments : session.units[i] = Units(open[i])
\* cash and the cost of the lots together are what was put in, earned, realised and
\* adjusted, less the charges that were not capitalized;
CashInv ==
    book.cash + SumOn(Costs(open), Instruments) =
        book.external + book.income + book.realised + book.adjustments
        - (book.fees - book.capitalized) - book.taxes
\* and what has come to the positions and to no position since the day began is the
\* change of cash, less capital.
FlowInv ==
    SumOn(Flow(session), Instruments) + session.other =
        book.cash - session.worth - (book.external - session.flows)
\* The totals and the postings are in PostingsAgree.
BooksInv == AccountingTypeOK /\ LotsInv /\ UnitsInv /\ CashInv /\ PostingsAgree /\ FlowInv

\* Types of the values, costs and flows that are added up.
LEMMA SignedType ==
    /\ SignedQuantity \in [Parcel -> Int] /\ SignedBasis \in [Parcel -> Int]
    /\ \A p \in Parcel :
          /\ SignedQuantity[p] = IF p.direction = "LONG" THEN p.quantity ELSE -p.quantity
          /\ SignedBasis[p] = IF p.direction = "LONG" THEN p.basis ELSE -p.basis
          /\ p.quantity \in Nat /\ p.basis \in Int /\ p.opened \in Nat /\ p.direction \in Directions
BY DEF SignedQuantity, SignedBasis, Parcel

LEMMA UnitsType ==
    ASSUME NEW lots \in Seq(Lot)
    PROVE  Units(lots) \in Int /\ Cost(lots) \in Int
<1>1. lots \in Seq(Parcel)
  BY LotIsParcel
<1> QED
  BY <1>1, SignedType, EachIs DEF Units, Cost

LEMMA CostsAre ==
    ASSUME NEW lots \in [Instruments -> Seq(Lot)]
    PROVE  Weights(Costs(lots), Instruments) /\ SumOn(Costs(lots), Instruments) \in Int
<1>1. Weights(Costs(lots), Instruments)
  BY UnitsType, AccountingAssumption DEF Weights, Costs
<1> QED
  BY <1>1, SumType

LEMMA FlowIs ==
    ASSUME NEW s \in Session
    PROVE  /\ Weights(Flow(s), Instruments) /\ SumOn(Flow(s), Instruments) \in Int
           /\ s.other \in Int /\ s.worth \in Int /\ s.flows \in Int
           /\ \A i \in Instruments :
                 /\ s.opening[i] \in Int /\ s.units[i] \in Int /\ s.reference[i] \in Int
                 /\ s.transfers[i] \in Int /\ s.external[i] \in Int /\ s.cash[i] \in Int
                 /\ Flow(s)[i] = s.cash[i] - s.external[i] - s.transfers[i] - s.opening[i]
<1>1. /\ s.other \in Int /\ s.worth \in Int /\ s.flows \in Int
      /\ \A i \in Instruments :
            /\ s.opening[i] \in Int /\ s.units[i] \in Int /\ s.reference[i] \in Int
            /\ s.transfers[i] \in Int /\ s.external[i] \in Int /\ s.cash[i] \in Int
  BY DEF Session, PerInstrument
<1>2. \A i \in Instruments : Flow(s)[i] = s.cash[i] - s.external[i] - s.transfers[i] - s.opening[i]
  BY DEF Flow
<1>3. Weights(Flow(s), Instruments)
  BY <1>1, <1>2, AccountingAssumption DEF Weights
<1> QED
  BY <1>1, <1>2, <1>3, SumType

\* A delta that is booked once and posted once.
Balanced(delta, c) ==
    delta["cash"] + c = delta["external"] + delta["income"] + delta["realised"] + delta["adjustments"]
                        - (delta["fees"] - delta["capitalized"]) - delta["taxes"]

\* A delta is added to the totals it names.
LEMMA PlusIs ==
    ASSUME NEW totals \in [Totals -> Int], NEW delta, NEW K \in SUBSET Totals, delta \in [K -> Int]
    PROVE  /\ Plus(totals, delta) \in [Totals -> Int]
           /\ \A t \in K : Plus(totals, delta)[t] = totals[t] + delta[t]
           /\ \A t \in Totals \ K : Plus(totals, delta)[t] = totals[t]
BY DEF Plus

\* Two balanced sets of totals, added up, are balanced.
LEMMA BothBalance ==
    ASSUME NEW x \in [Totals -> Int], NEW y \in [Totals -> Int], NEW z \in [Totals -> Int],
           \A t \in Totals : z[t] = x[t] + y[t],
           NEW b \in Int, NEW c \in Int, Balanced(x, b), Balanced(y, c)
    PROVE  Balanced(z, b + c)
<1>1. /\ x["cash"] \in Int /\ x["external"] \in Int /\ x["income"] \in Int /\ x["realised"] \in Int
      /\ x["adjustments"] \in Int /\ x["fees"] \in Int /\ x["capitalized"] \in Int /\ x["taxes"] \in Int
  BY DEF Totals
<1>2. /\ y["cash"] \in Int /\ y["external"] \in Int /\ y["income"] \in Int /\ y["realised"] \in Int
      /\ y["adjustments"] \in Int /\ y["fees"] \in Int /\ y["capitalized"] \in Int /\ y["taxes"] \in Int
  BY DEF Totals
<1>3. /\ z["cash"] = x["cash"] + y["cash"] /\ z["external"] = x["external"] + y["external"]
      /\ z["income"] = x["income"] + y["income"] /\ z["realised"] = x["realised"] + y["realised"]
      /\ z["adjustments"] = x["adjustments"] + y["adjustments"] /\ z["fees"] = x["fees"] + y["fees"]
      /\ z["capitalized"] = x["capitalized"] + y["capitalized"] /\ z["taxes"] = x["taxes"] + y["taxes"]
  BY DEF Totals
<1>4. x["cash"] + b = x["external"] + x["income"] + x["realised"] + x["adjustments"]
                      - (x["fees"] - x["capitalized"]) - x["taxes"]
  BY DEF Balanced
<1>5. y["cash"] + c = y["external"] + y["income"] + y["realised"] + y["adjustments"]
                      - (y["fees"] - y["capitalized"]) - y["taxes"]
  BY DEF Balanced
<1> DEFINE p(f) == f["external"] + f["income"]
           q(f) == f["realised"] + f["adjustments"]
           r(f) == f["fees"] - f["capitalized"]
<1>6. p(x) \in Int /\ p(y) \in Int /\ p(z) = p(x) + p(y)
  BY ONLY <1>1, <1>2, <1>3
<1>7. q(x) \in Int /\ q(y) \in Int /\ q(z) = q(x) + q(y)
  BY ONLY <1>1, <1>2, <1>3
<1>8. r(x) \in Int /\ r(y) \in Int /\ r(z) = r(x) + r(y)
  BY ONLY <1>1, <1>2, <1>3
<1>9. x["cash"] + b = p(x) + q(x) - r(x) - x["taxes"]
  BY ONLY <1>1, <1>4
<1>10. y["cash"] + c = p(y) + q(y) - r(y) - y["taxes"]
  BY ONLY <1>2, <1>5
<1>11. /\ z["cash"] \in Int /\ z["external"] \in Int /\ z["income"] \in Int /\ z["realised"] \in Int
       /\ z["adjustments"] \in Int /\ z["fees"] \in Int /\ z["capitalized"] \in Int /\ z["taxes"] \in Int
  BY DEF Totals
<1>12. z["cash"] + (b + c) = p(z) + q(z) - r(z) - z["taxes"]
  <2>1. p(z) + q(z) - r(z) - z["taxes"]
           = (p(x) + p(y)) + (q(x) + q(y)) - (r(x) + r(y)) - (x["taxes"] + y["taxes"])
    BY <1>3, <1>6, <1>7, <1>8
  <2>2. z["cash"] + (b + c) = (x["cash"] + b) + (y["cash"] + c)
    BY ONLY <1>1, <1>2, <1>3, b \in Int, c \in Int
  <2> HIDE DEF p, q, r
  <2>3. z["cash"] + (b + c) = (p(x) + q(x) - r(x) - x["taxes"]) + (p(y) + q(y) - r(y) - y["taxes"])
    BY ONLY <1>9, <1>10, <2>2
  <2>4. x["taxes"] \in Int /\ y["taxes"] \in Int
    BY <1>1, <1>2
  <2>5. (p(x) + q(x) - r(x) - x["taxes"]) + (p(y) + q(y) - r(y) - y["taxes"])
           = (p(x) + p(y)) + (q(x) + q(y)) - (r(x) + r(y)) - (x["taxes"] + y["taxes"])
    BY ONLY <1>6, <1>7, <1>8, <2>4
  <2> QED
    BY ONLY <2>1, <2>3, <2>5
<1>13. z["cash"] + (b + c) = z["external"] + z["income"] + z["realised"] + z["adjustments"]
                             - (z["fees"] - z["capitalized"]) - z["taxes"]
  BY ONLY <1>11, <1>12
<1> QED
  BY <1>13 DEF Balanced

\* One entry is replayed: the invariant is kept when it books what it moves.
LEMMA ReplayKeeps ==
    ASSUME BooksInv, NEW e \in Entries, NEW lots, NEW delta, NEW s, Replay(e, lots, delta, s),
           lots \in [Instruments -> Seq(Lot)],
           \A i \in Instruments : InOrder(lots[i]) /\ OneSided(lots[i]),
           s \in Session,
           \A i \in Instruments : s.units[i] = Units(lots[i]),
           delta \in [Totals -> Int],
           \A t \in Posted : SumPostings(Postings(e), t) = delta[t],
           NEW c \in Int, Balanced(delta, c),
           SumOn(Costs(lots), Instruments) = SumOn(Costs(open), Instruments) + c,
           SumOn(Flow(s), Instruments) + s.other =
               SumOn(Flow(session), Instruments) + session.other + delta["cash"] - delta["external"],
           s.worth = session.worth, s.flows = session.flows
    PROVE  BooksInv'
<1>1. /\ replayed' = replayed \cup {e} /\ open' = lots /\ book' = Plus(book, delta)
      /\ posted' = Plus(posted, [t \in Posted |-> SumPostings(Postings(e), t)])
      /\ session' = s /\ UNCHANGED <<policy, today>>
  BY DEF Replay
<1>2. AccountingTypeOK /\ UnitsInv /\ CashInv /\ PostingsAgree /\ FlowInv /\ session \in Session
  BY DEF BooksInv, AccountingTypeOK, Session
<1>3. book \in [Totals -> Int] /\ posted \in [Posted -> Int] /\ open \in [Instruments -> Seq(Lot)]
  BY <1>2 DEF AccountingTypeOK
<1>4. book' \in [Totals -> Int] /\ \A t \in Totals : book'[t] = book[t] + delta[t] /\ delta[t] \in Int
  <2>1. Totals \in SUBSET Totals
    OBVIOUS
  <2>2. Plus(book, delta) \in [Totals -> Int] /\ \A t \in Totals : Plus(book, delta)[t] = book[t] + delta[t]
    BY <1>3, <2>1, PlusIs
  <2> HIDE DEF Totals
  <2> QED
    BY <1>1, <2>2
<1>5. posted' \in [Posted -> Int] /\ \A t \in Posted : posted'[t] = posted[t] + delta[t]
  <2>1. Posted \subseteq Totals
    BY DEF Posted, Totals
  <2> QED
    BY <1>1, <1>3, <1>4, <2>1 DEF Plus
<1>6. AccountingTypeOK'
  BY <1>1, <1>2, <1>4, <1>5 DEF AccountingTypeOK, Session
<1>7. LotsInv' /\ UnitsInv'
  BY <1>1 DEF LotsInv, UnitsInv
<1>8. PostingsAgree'
  <2>1. Posted \subseteq Totals
    BY DEF Posted, Totals
  <2> QED
    BY <1>2, <1>4, <1>5, <2>1 DEF PostingsAgree
<1>9. CashInv'
  <2>1. SumOn(Costs(open), Instruments) \in Int
    BY <1>3, CostsAre
  <2>2. Balanced(book, SumOn(Costs(open), Instruments))
    BY <1>2 DEF CashInv, Balanced
  <2>3. Balanced(book', SumOn(Costs(open), Instruments) + c)
    <3>1. \A t \in Totals : book'[t] = book[t] + delta[t]
      BY <1>4
    <3> HIDE DEF Totals
    <3> QED
      BY <1>3, <1>4, <2>1, <2>2, <3>1, BothBalance
  <2>4. SumOn(Costs(open'), Instruments) = SumOn(Costs(open), Instruments) + c
    BY <1>1
  <2>5. Balanced(book', SumOn(Costs(open'), Instruments))
    BY <2>3, <2>4
  <2> QED
    BY <2>5 DEF CashInv, Balanced
<1>10. FlowInv'
  <2>1. /\ book'.cash = book.cash + delta["cash"] /\ book'.external = book.external + delta["external"]
        /\ book.cash \in Int /\ book.external \in Int /\ delta["cash"] \in Int /\ delta["external"] \in Int
    BY <1>3, <1>4 DEF Totals
  <2>2. /\ SumOn(Flow(session), Instruments) \in Int /\ session.other \in Int
        /\ session.worth \in Int /\ session.flows \in Int /\ SumOn(Flow(s), Instruments) \in Int
        /\ s.other \in Int
    BY <1>2, FlowIs
  <2>3. SumOn(Flow(session), Instruments) + session.other =
            book.cash - session.worth - (book.external - session.flows)
    BY <1>2 DEF FlowInv
  <2> DEFINE old == SumOn(Flow(session), Instruments) + session.other
             new == SumOn(Flow(s), Instruments) + s.other
             gain == book.cash - session.worth
             paid == book.external - session.flows
  <2>a. old \in Int /\ new \in Int /\ gain \in Int /\ paid \in Int /\ old = gain - paid
    <3>1. old \in Int /\ new \in Int
      BY <2>2
    <3>2. gain \in Int /\ paid \in Int
      BY ONLY <2>1, <2>2
    <3>3. old = gain - paid
      BY <2>3
    <3> QED
      BY <3>1, <3>2, <3>3
  <2>b. (book.cash + delta["cash"]) - session.worth = gain + delta["cash"]
    BY <2>1, <2>2
  <2>c. (book.external + delta["external"]) - session.flows = paid + delta["external"]
    BY <2>1, <2>2
  <2>d. new = old + delta["cash"] - delta["external"]
    OBVIOUS
  <2>e. new = (gain + delta["cash"]) - (paid + delta["external"])
    <3> HIDE DEF old, new, gain, paid
    <3> QED
      BY ONLY <2>1, <2>a, <2>d
  <2>4. SumOn(Flow(s), Instruments) + s.other =
            (book.cash + delta["cash"]) - session.worth
            - ((book.external + delta["external"]) - session.flows)
    BY <2>b, <2>c, <2>e
  <2>5. SumOn(Flow(session'), Instruments) + session'.other =
            book'.cash - session'.worth - (book'.external - session'.flows)
    BY <1>1, <2>1, <2>4
  <2> QED
    BY <2>5 DEF FlowInv
<1> QED
  BY <1>6, <1>7, <1>8, <1>9, <1>10 DEF BooksInv

\* Amounts of an entry.
LEMMA EntryIs ==
    ASSUME NEW e \in Entries
    PROVE  /\ e.quantity \in Nat /\ e.gross \in Nat /\ e.fee \in Nat /\ e.commission \in Nat
           /\ e.tax \in Nat /\ e.up \in Nat \ {0} /\ e.down \in Nat \ {0} /\ e.percent \in Nat
           /\ e.percent <= 100 /\ e.cash \in Int /\ e.kind \in Kinds
           /\ (e.instrument # None => e.instrument \in Instruments)
           /\ (e.child # None => e.child \in Instruments)
<1>1. e \in Entry
  BY AccountingAssumption
<1> QED
  BY <1>1 DEF Entry

\* Charges are amounts, capitalized or not.
LEMMA ChargesAre ==
    ASSUME NEW e \in Entries, AccountingTypeOK
    PROVE  /\ Charges(e) \in Nat /\ Charges(e) = e.fee + e.commission + e.tax
           /\ Capitalized(e) \in Nat
<1>1. e.fee \in Nat /\ e.commission \in Nat /\ e.tax \in Nat
  BY EntryIs
<1>2. Charges(e) \in Nat /\ Charges(e) = e.fee + e.commission + e.tax
  BY <1>1 DEF Charges
<1> DEFINE c == IF policy.commissions THEN e.commission ELSE 0
           f == IF policy.fees THEN e.fee ELSE 0
<1>3. c \in Nat /\ f \in Nat
  BY <1>1
<1>4. Capitalized(e) = IF e.kind \in Trades THEN c + f ELSE 0
  BY DEF Capitalized
<1> HIDE DEF c, f
<1>5. Capitalized(e) \in Nat
  BY <1>3, <1>4
<1> QED
  BY <1>2, <1>5

\* What an entry books: cash moved, capital, income, what is realised and adjusted,
\* and its charges.
Booked(delta, e, moved, external, income, realised, adjusted) ==
    /\ delta \in [Totals -> Int]
    /\ delta["cash"] = moved - Charges(e)
    /\ delta["external"] = external
    /\ delta["income"] = income
    /\ delta["realised"] = realised
    /\ delta["adjustments"] = adjusted
    /\ delta["fees"] = e.fee + e.commission
    /\ delta["taxes"] = e.tax
    /\ delta["capitalized"] = Capitalized(e)

\* A delta on its own.
LEMMA NothingBooked ==
    ASSUME NEW K \in SUBSET Totals, NEW fields \in [K -> Int]
    PROVE  /\ Delta(fields) \in [Totals -> Int]
           /\ \A t \in K : Delta(fields)[t] = fields[t]
           /\ \A t \in Totals \ K : Delta(fields)[t] = 0
<1> DEFINE zero == [t \in Totals |-> 0]
<1>1. zero \in [Totals -> Int] /\ \A t \in Totals : zero[t] = 0
  OBVIOUS
<1>2. Delta(fields) = Plus(zero, fields)
  BY DEF Delta
<1> HIDE DEF zero
<1>3. /\ Plus(zero, fields) \in [Totals -> Int]
      /\ \A t \in K : Plus(zero, fields)[t] = zero[t] + fields[t]
      /\ \A t \in Totals \ K : Plus(zero, fields)[t] = zero[t]
  BY <1>1, PlusIs
<1>4. \A t \in K : fields[t] \in Int /\ t \in Totals
  OBVIOUS
<1> QED
  BY <1>1, <1>2, <1>3, <1>4

\* The charges of an entry that books nothing else.
LEMMA ChargesBooked ==
    ASSUME NEW e \in Entries, AccountingTypeOK
    PROVE  Booked(Delta(ChargesOf(e)), e, 0, 0, 0, 0, 0)
<1> DEFINE K == {"cash", "fees", "taxes", "capitalized"}
           fields == ChargesOf(e)
<1>0. /\ Charges(e) \in Nat /\ Capitalized(e) \in Nat
      /\ e.fee \in Nat /\ e.commission \in Nat /\ e.tax \in Nat
  BY ChargesAre, EntryIs
<1>1. /\ K \in SUBSET Totals
      /\ "external" \in Totals \ K /\ "income" \in Totals \ K /\ "realised" \in Totals \ K
      /\ "adjustments" \in Totals \ K
      /\ "cash" \in K /\ "fees" \in K /\ "taxes" \in K /\ "capitalized" \in K
  BY DEF Totals
<1>2. /\ fields \in [K -> Int]
      /\ fields["cash"] = -Charges(e) /\ fields["fees"] = e.fee + e.commission
      /\ fields["taxes"] = e.tax /\ fields["capitalized"] = Capitalized(e)
  BY <1>0 DEF ChargesOf
<1> HIDE DEF K, fields
<1>3. /\ Delta(fields) \in [Totals -> Int]
      /\ \A t \in K : Delta(fields)[t] = fields[t]
      /\ \A t \in Totals \ K : Delta(fields)[t] = 0
  BY <1>1, <1>2, NothingBooked
<1>4. Booked(Delta(fields), e, 0, 0, 0, 0, 0)
  <2>1. 0 - Charges(e) = -Charges(e)
    BY <1>0
  <2> QED
    BY <1>1, <1>2, <1>3, <2>1 DEF Booked
<1> QED
  BY <1>4 DEF fields

\* Fields that an entry books on top of its charges.
LEMMA FieldsBooked ==
    ASSUME NEW e \in Entries, AccountingTypeOK, NEW K, NEW fields \in [K -> Int],
           K \subseteq {"cash", "external", "income", "realised", "adjustments"},
           NEW moved, NEW external, NEW income, NEW realised, NEW adjusted,
           moved = IF "cash" \in K THEN fields["cash"] ELSE 0,
           external = IF "external" \in K THEN fields["external"] ELSE 0,
           income = IF "income" \in K THEN fields["income"] ELSE 0,
           realised = IF "realised" \in K THEN fields["realised"] ELSE 0,
           adjusted = IF "adjustments" \in K THEN fields["adjustments"] ELSE 0
    PROVE  Booked(Plus(Delta(ChargesOf(e)), fields), e, moved, external, income, realised, adjusted)
<1> DEFINE base == Delta(ChargesOf(e))
           delta == Plus(base, fields)
<1>1. Booked(base, e, 0, 0, 0, 0, 0)
  BY ChargesBooked
<1>2. base \in [Totals -> Int]
  BY <1>1 DEF Booked
<1> HIDE DEF base
<1>3. K \in SUBSET Totals
  BY DEF Totals
<1>4. /\ delta \in [Totals -> Int]
      /\ \A t \in K : delta[t] = base[t] + fields[t]
      /\ \A t \in Totals \ K : delta[t] = base[t]
  BY <1>2, <1>3, PlusIs
<1> HIDE DEF delta
<1>5. \A t \in Totals : delta[t] = base[t] + IF t \in K THEN fields[t] ELSE 0
  <2> SUFFICES ASSUME NEW t \in Totals PROVE delta[t] = base[t] + IF t \in K THEN fields[t] ELSE 0
    OBVIOUS
  <2>1. CASE t \in K
    BY <1>4, <2>1
  <2>2. CASE t \notin K
    <3>1. base[t] \in Int /\ delta[t] = base[t]
      BY <1>2, <1>4, <2>2
    <3> QED
      BY <2>2, <3>1
  <2> QED
    BY <2>1, <2>2
<1>6. \A t \in K : fields[t] \in Int
  OBVIOUS
<1>7. Charges(e) \in Nat
  BY ChargesAre
<1>8. delta["cash"] = moved - Charges(e)
  <2>1. moved \in Int
    BY <1>6
  <2>2. base["cash"] = 0 - Charges(e)
    BY <1>1 DEF Booked
  <2>3. delta["cash"] = base["cash"] + moved
    BY <1>5 DEF Totals
  <2> QED
    BY <1>7, <2>1, <2>2, <2>3
<1>9. /\ delta["external"] = external /\ delta["income"] = income /\ delta["realised"] = realised
      /\ delta["adjustments"] = adjusted
  <2>1. external \in Int /\ income \in Int /\ realised \in Int /\ adjusted \in Int
    BY <1>6
  <2>2. base["external"] = 0 /\ base["income"] = 0 /\ base["realised"] = 0 /\ base["adjustments"] = 0
    BY <1>1 DEF Booked
  <2>3. /\ delta["external"] = 0 + external /\ delta["income"] = 0 + income
        /\ delta["realised"] = 0 + realised /\ delta["adjustments"] = 0 + adjusted
    BY <1>5, <2>2 DEF Totals
  <2> QED
    BY <2>1, <2>3
<1>10. delta["fees"] = base["fees"] /\ delta["taxes"] = base["taxes"]
       /\ delta["capitalized"] = base["capitalized"]
  BY <1>4 DEF Totals
<1> QED
  BY <1>1, <1>4, <1>8, <1>9, <1>10 DEF Booked, delta, base

\* Cash moved and cost gained make up what is put in, earned, realised and adjusted:
\* with the charges, capitalized or not, the entry is balanced.
LEMMA BookedBalances ==
    ASSUME NEW e \in Entries, AccountingTypeOK, NEW moved \in Int, NEW external \in Int,
           NEW income \in Int, NEW realised \in Int, NEW adjusted \in Int, NEW delta, NEW c \in Int,
           Booked(delta, e, moved, external, income, realised, adjusted),
           moved + c = external + income + realised + adjusted + Capitalized(e)
    PROVE  Balanced(delta, c)
<1>1. /\ Charges(e) \in Nat /\ Charges(e) = e.fee + e.commission + e.tax /\ Capitalized(e) \in Nat
      /\ e.fee \in Nat /\ e.commission \in Nat /\ e.tax \in Nat
  BY ChargesAre, EntryIs
<1> DEFINE sum == external + income + realised + adjusted
           fees == e.fee + e.commission
<1>2. sum \in Int /\ fees \in Int /\ Charges(e) = fees + e.tax /\ moved + c = sum + Capitalized(e)
  BY <1>1
<1>3. (moved - Charges(e)) + c = sum - (fees - Capitalized(e)) - e.tax
  <2> DEFINE charges == Charges(e)
             cap == Capitalized(e)
             tax == e.tax
  <2>1. charges \in Int /\ cap \in Int /\ tax \in Int /\ charges = fees + tax /\ moved + c = sum + cap
    BY <1>1, <1>2
  <2>2. sum \in Int /\ fees \in Int
    BY <1>2
  <2> HIDE DEF charges, cap, tax, sum, fees
  <2>3. (moved - charges) + c = (sum + cap) - charges
    BY ONLY <2>1, moved \in Int, c \in Int
  <2>4. (sum + cap) - charges = sum - (fees - cap) - tax
    BY ONLY <2>1, <2>2
  <2> QED
    BY <2>3, <2>4 DEF charges, cap, tax
<1>4. delta["cash"] + c = delta["external"] + delta["income"] + delta["realised"] + delta["adjustments"]
                          - (delta["fees"] - delta["capitalized"]) - delta["taxes"]
  <2>1. /\ delta["cash"] = moved - Charges(e) /\ delta["external"] = external
        /\ delta["income"] = income /\ delta["realised"] = realised /\ delta["adjustments"] = adjusted
        /\ delta["fees"] = fees /\ delta["taxes"] = e.tax /\ delta["capitalized"] = Capitalized(e)
    BY DEF Booked
  <2>2. sum = external + income + realised + adjusted
    OBVIOUS
  <2>3. (delta["external"] + delta["income"] + delta["realised"] + delta["adjustments"]) = sum
    BY ONLY <2>1, <2>2
  <2> HIDE DEF fees, sum
  <2>4. delta["cash"] + c = sum - (delta["fees"] - delta["capitalized"]) - delta["taxes"]
    BY ONLY <1>3, <2>1
  <2>5. /\ delta["external"] \in Int /\ delta["income"] \in Int /\ delta["realised"] \in Int
        /\ delta["adjustments"] \in Int /\ delta["fees"] \in Int /\ delta["capitalized"] \in Int
        /\ delta["taxes"] \in Int
    BY DEF Booked, Totals
  <2> QED
    BY ONLY <2>3, <2>4, <2>5
<1> QED
  BY <1>4 DEF Balanced

\* The sum of five, and of one.
LEMMA SumFive ==
    ASSUME NEW w \in [1 .. 5 -> Int]
    PROVE  SumSeq(w) = w[1] + (w[2] + (w[3] + (w[4] + w[5])))
<1>1. DOMAIN w = 1 .. 5
  OBVIOUS
<1>2. /\ SumOn(w, 1 .. 0) = 0
      /\ \A k \in 1 .. 5 : SumOn(w, 1 .. k) = SumOn(w, 1 .. (k - 1)) + w[k]
  BY SumFirstOf
<1>3. /\ SumOn(w, 1 .. 1) = SumOn(w, 1 .. 0) + w[1] /\ SumOn(w, 1 .. 2) = SumOn(w, 1 .. 1) + w[2]
      /\ SumOn(w, 1 .. 3) = SumOn(w, 1 .. 2) + w[3] /\ SumOn(w, 1 .. 4) = SumOn(w, 1 .. 3) + w[4]
      /\ SumOn(w, 1 .. 5) = SumOn(w, 1 .. 4) + w[5]
  <2>1. /\ SumOn(w, 1 .. 1) = SumOn(w, 1 .. (1 - 1)) + w[1]
        /\ SumOn(w, 1 .. 2) = SumOn(w, 1 .. (2 - 1)) + w[2]
        /\ SumOn(w, 1 .. 3) = SumOn(w, 1 .. (3 - 1)) + w[3]
        /\ SumOn(w, 1 .. 4) = SumOn(w, 1 .. (4 - 1)) + w[4]
        /\ SumOn(w, 1 .. 5) = SumOn(w, 1 .. (5 - 1)) + w[5]
    BY <1>2
  <2>2. 1 - 1 = 0 /\ 2 - 1 = 1 /\ 3 - 1 = 2 /\ 4 - 1 = 3 /\ 5 - 1 = 4
    OBVIOUS
  <2> QED
    BY <2>1, <2>2
<1>4. w[1] \in Int /\ w[2] \in Int /\ w[3] \in Int /\ w[4] \in Int /\ w[5] \in Int
  OBVIOUS
<1>5. SumOn(w, 1 .. 5) = w[1] + (w[2] + (w[3] + (w[4] + w[5])))
  BY ONLY <1>2, <1>3, <1>4
<1> QED
  BY <1>1, <1>5, SumSeqIs

LEMMA SumSingle ==
    ASSUME NEW w \in [1 .. 1 -> Int]
    PROVE  SumSeq(w) = w[1]
<1>1. DOMAIN w = 1 .. 1 /\ w[1] \in Int
  OBVIOUS
<1>2. /\ SumOn(w, 1 .. 0) = 0
      /\ \A k \in 1 .. 1 : SumOn(w, 1 .. k) = SumOn(w, 1 .. (k - 1)) + w[k]
  BY SumFirstOf
<1>4. SumOn(w, 1 .. 1) = SumOn(w, 1 .. (1 - 1)) + w[1]
  BY <1>2
<1>3. 1 - 1 = 0
  OBVIOUS
<1> QED
  BY <1>1, <1>2, <1>3, <1>4, SumSeqIs

\* What one posting adds to a category.
Counted(row, category) ==
    CASE category = "capitalized" -> row.capitalized
      [] row.category = category -> row.amount
      [] OTHER -> 0

\* Postings of a category, by entry.
LEMMA FivePostings ==
    ASSUME NEW p1, NEW p2, NEW p3, NEW p4, NEW p5, NEW category,
           Counted(p1, category) \in Int, Counted(p2, category) \in Int,
           Counted(p3, category) \in Int, Counted(p4, category) \in Int, Counted(p5, category) \in Int
    PROVE  SumPostings(<<p1, p2, p3, p4, p5>>, category) =
               Counted(p1, category) + (Counted(p2, category) + (Counted(p3, category)
               + (Counted(p4, category) + Counted(p5, category))))
<1> DEFINE rows == <<p1, p2, p3, p4, p5>>
           w == [k \in DOMAIN rows |-> Counted(rows[k], category)]
<1>1. /\ DOMAIN rows = 1 .. 5
      /\ rows[1] = p1 /\ rows[2] = p2 /\ rows[3] = p3 /\ rows[4] = p4 /\ rows[5] = p5
  OBVIOUS
<1> HIDE DEF rows
<1>2. \A k \in 1 .. 5 : k = 1 \/ k = 2 \/ k = 3 \/ k = 4 \/ k = 5
  OBVIOUS
<1>3. \A k \in 1 .. 5 : Counted(rows[k], category) \in Int
  BY <1>1, <1>2
<1>4. w \in [1 .. 5 -> Int]
  BY <1>1, <1>3
<1>5. /\ w[1] = Counted(p1, category) /\ w[2] = Counted(p2, category) /\ w[3] = Counted(p3, category)
      /\ w[4] = Counted(p4, category) /\ w[5] = Counted(p5, category)
  BY <1>1
<1>6. SumPostings(rows, category) = SumSeq(w)
  BY DEF SumPostings, Counted
<1> HIDE DEF w
<1> QED
  BY <1>4, <1>5, <1>6, SumFive DEF rows

LEMMA OnePosting ==
    ASSUME NEW p, NEW category, Counted(p, category) \in Int
    PROVE  SumPostings(<<p>>, category) = Counted(p, category)
<1> DEFINE rows == <<p>>
           w == [k \in DOMAIN rows |-> Counted(rows[k], category)]
<1>1. DOMAIN rows = 1 .. 1 /\ rows[1] = p
  OBVIOUS
<1> HIDE DEF rows
<1>4. w \in [1 .. 1 -> Int] /\ w[1] = Counted(p, category)
  BY <1>1
<1>6. SumPostings(rows, category) = SumSeq(w)
  BY DEF SumPostings, Counted
<1> HIDE DEF w
<1>7. SumSeq(w) = w[1]
  BY <1>4, SumSingle
<1> QED
  BY <1>4, <1>6, <1>7 DEF rows

\* Entries that are nothing but an expense; capital and income of the others.
Expenses == {"COMMISSION", "FEE", "TAX"}
CapitalOf(e) ==
    CASE e.kind \in {"DEPOSIT", "TRANSFER_IN"} -> e.gross
      [] e.kind \in {"WITHDRAWAL", "TRANSFER_OUT"} -> -e.gross
      [] OTHER -> 0
IncomeOf(e) == IF e.kind \in {"DIVIDEND", "INTEREST"} THEN e.gross ELSE 0

\* A posting counts for its category, its capitalized part for that.
LEMMA CountedIs ==
    ASSUME NEW category, category # "capitalized", NEW amount, NEW capitalized, NEW t
    PROVE  /\ t = "capitalized" => Counted(Posting(category, amount, capitalized), t) = capitalized
           /\ t # "capitalized" /\ t = category =>
                  Counted(Posting(category, amount, capitalized), t) = amount
           /\ t # "capitalized" /\ t # category =>
                  Counted(Posting(category, amount, capitalized), t) = 0
BY DEF Counted, Posting

\* The postings of an entry that is no expense add up to what it books.
LEMMA PostingsBooked ==
    ASSUME NEW e \in Entries, AccountingTypeOK, e.kind \notin Expenses,
           NEW moved, NEW realised, NEW adjusted, NEW delta,
           Booked(delta, e, moved, CapitalOf(e), IncomeOf(e), realised, adjusted)
    PROVE  \A t \in Posted : SumPostings(Postings(e), t) = delta[t]
<1> DEFINE comm == IF e.kind \in Trades /\ policy.commissions THEN e.commission ELSE 0
           fee == IF e.kind \in Trades /\ policy.fees THEN e.fee ELSE 0
           p1 == Posting("external", CapitalOf(e), 0)
           p2 == Posting("income", IncomeOf(e), 0)
           p3 == Posting("fees", e.commission, comm)
           p4 == Posting("fees", e.fee, fee)
           p5 == Posting("taxes", e.tax, 0)
<1>1. Postings(e) = <<p1, p2, p3, p4, p5>>
  BY DEF Postings, Expenses, CapitalOf, IncomeOf
<1>2. e.commission \in Int /\ e.fee \in Int /\ e.tax \in Int /\ CapitalOf(e) \in Int /\ IncomeOf(e) \in Int
  BY EntryIs DEF CapitalOf, IncomeOf
<1>3. comm \in Int /\ fee \in Int
  BY <1>2
<1>4. comm + fee = Capitalized(e)
  <2>1. CASE e.kind \in Trades
    BY <2>1 DEF Capitalized
  <2>2. CASE e.kind \notin Trades
    BY <2>2 DEF Capitalized
  <2> QED
    BY <2>1, <2>2
<1>5. /\ delta["external"] = CapitalOf(e) /\ delta["income"] = IncomeOf(e)
      /\ delta["fees"] = e.fee + e.commission /\ delta["taxes"] = e.tax
      /\ delta["capitalized"] = Capitalized(e)
  BY DEF Booked
<1> HIDE DEF comm, fee
<1>6. SumPostings(<<p1, p2, p3, p4, p5>>, "external") = delta["external"]
  <2>1. /\ Counted(p1, "external") = CapitalOf(e) /\ Counted(p2, "external") = 0
        /\ Counted(p3, "external") = 0 /\ Counted(p4, "external") = 0 /\ Counted(p5, "external") = 0
    BY CountedIs
  <2> HIDE DEF p1, p2, p3, p4, p5
  <2>2. SumPostings(<<p1, p2, p3, p4, p5>>, "external") = CapitalOf(e) + (0 + (0 + (0 + 0)))
    BY <1>2, <2>1, FivePostings
  <2> QED
    BY <1>2, <1>5, <2>2
<1>7. SumPostings(<<p1, p2, p3, p4, p5>>, "income") = delta["income"]
  <2>1. /\ Counted(p1, "income") = 0 /\ Counted(p2, "income") = IncomeOf(e)
        /\ Counted(p3, "income") = 0 /\ Counted(p4, "income") = 0 /\ Counted(p5, "income") = 0
    BY CountedIs
  <2> HIDE DEF p1, p2, p3, p4, p5
  <2>2. SumPostings(<<p1, p2, p3, p4, p5>>, "income") = 0 + (IncomeOf(e) + (0 + (0 + 0)))
    BY <1>2, <2>1, FivePostings
  <2> QED
    BY <1>2, <1>5, <2>2
<1>8. SumPostings(<<p1, p2, p3, p4, p5>>, "fees") = delta["fees"]
  <2>1. /\ Counted(p1, "fees") = 0 /\ Counted(p2, "fees") = 0
        /\ Counted(p3, "fees") = e.commission /\ Counted(p4, "fees") = e.fee
        /\ Counted(p5, "fees") = 0
    BY CountedIs
  <2> HIDE DEF p1, p2, p3, p4, p5
  <2>2. SumPostings(<<p1, p2, p3, p4, p5>>, "fees") = 0 + (0 + (e.commission + (e.fee + 0)))
    BY <1>2, <2>1, FivePostings
  <2> QED
    BY <1>2, <1>5, <2>2
<1>9. SumPostings(<<p1, p2, p3, p4, p5>>, "taxes") = delta["taxes"]
  <2>1. /\ Counted(p1, "taxes") = 0 /\ Counted(p2, "taxes") = 0
        /\ Counted(p3, "taxes") = 0 /\ Counted(p4, "taxes") = 0 /\ Counted(p5, "taxes") = e.tax
    BY CountedIs
  <2> HIDE DEF p1, p2, p3, p4, p5
  <2>2. SumPostings(<<p1, p2, p3, p4, p5>>, "taxes") = 0 + (0 + (0 + (0 + e.tax)))
    BY <1>2, <2>1, FivePostings
  <2> QED
    BY <1>2, <1>5, <2>2
<1>10. SumPostings(<<p1, p2, p3, p4, p5>>, "capitalized") = delta["capitalized"]
  <2>1. /\ Counted(p1, "capitalized") = 0 /\ Counted(p2, "capitalized") = 0
        /\ Counted(p3, "capitalized") = comm /\ Counted(p4, "capitalized") = fee
        /\ Counted(p5, "capitalized") = 0
    BY CountedIs
  <2> HIDE DEF p1, p2, p3, p4, p5
  <2>2. SumPostings(<<p1, p2, p3, p4, p5>>, "capitalized") = 0 + (0 + (comm + (fee + 0)))
    BY <1>3, <2>1, FivePostings
  <2> QED
    BY <1>3, <1>4, <1>5, <2>2
<1> HIDE DEF p1, p2, p3, p4, p5
<1> QED
  BY <1>1, <1>6, <1>7, <1>8, <1>9, <1>10 DEF Posted

\* An expense: one posting, of the amount or of the charges.
LEMMA ExpensePosted ==
    ASSUME NEW e \in Entries, AccountingTypeOK, e.kind \in Expenses, NEW charge \in Int,
           charge = IF e.gross # 0 THEN e.gross ELSE Charges(e)
    PROVE  \A t \in Posted : SumPostings(Postings(e), t) =
               IF t = IF e.kind = "TAX" THEN "taxes" ELSE "fees" THEN charge ELSE 0
<1> DEFINE category == IF e.kind = "TAX" THEN "taxes" ELSE "fees"
           p == Posting(category, charge, 0)
<1>1. Postings(e) = <<p>>
  BY DEF Postings, Expenses
<1>2. category # "capitalized"
  OBVIOUS
<1> HIDE DEF category
<1>3. \A t \in Posted : Counted(p, t) = IF t = category THEN charge ELSE 0
  BY <1>2, CountedIs
<1> HIDE DEF p
<1>4. \A t \in Posted : Counted(p, t) \in Int
  BY <1>3
<1> QED
  BY <1>1, <1>3, <1>4, OnePosting DEF category

\* A session that has taken cash and external flows; its day began as it did.
Takes(s, old, cash, external) ==
    /\ s \in Session /\ s.worth = old.worth /\ s.flows = old.flows
    /\ SumOn(Flow(s), Instruments) + s.other
           = SumOn(Flow(old), Instruments) + old.other + cash - external

\* The cash and the external flow of an entry reach the session, on its instrument or
\* on none.
LEMMA AttributedIs ==
    ASSUME session \in Session, NEW e \in Entries, NEW cash \in Int, NEW external \in Int
    PROVE  /\ Takes(Attributed(e, cash, external), session, cash, external)
           /\ Attributed(e, cash, external).units = session.units
           /\ Attributed(e, cash, external).reference = session.reference
<1> DEFINE s == Attributed(e, cash, external)
           old == SumOn(Flow(session), Instruments)
<1>1. /\ Weights(Flow(session), Instruments) /\ old \in Int
      /\ session.other \in Int
      /\ \A i \in Instruments :
            /\ session.external[i] \in Int /\ session.cash[i] \in Int
            /\ session.opening[i] \in Int /\ session.transfers[i] \in Int
            /\ Flow(session)[i] = session.cash[i] - session.external[i] - session.transfers[i]
                                  - session.opening[i]
  BY FlowIs
<1>2. CASE ~OnPosition(e)
  <2>1. s = [session EXCEPT !.other = @ + cash - external]
    BY <1>2 DEF Attributed
  <2>2. /\ s.other = session.other + cash - external
        /\ s.units = session.units /\ s.reference = session.reference /\ s.worth = session.worth
        /\ s.flows = session.flows /\ s.cash = session.cash /\ s.external = session.external
        /\ s.transfers = session.transfers /\ s.opening = session.opening
    BY <2>1 DEF Session
  <2>3. s \in Session
    BY <1>1, <2>1 DEF Session
  <2>4. Flow(s) = Flow(session)
    BY <2>2 DEF Flow
  <2> HIDE DEF s
  <2>5. SumOn(Flow(s), Instruments) + s.other = old + session.other + cash - external
    <3>1. SumOn(Flow(s), Instruments) = old
      BY <2>4
    <3> HIDE DEF old
    <3> QED
      BY <1>1, <2>2, <3>1
  <2> QED
    BY <2>2, <2>3, <2>5 DEF Takes, s
<1>3. CASE OnPosition(e)
  <2> DEFINE i == e.instrument
  <2>0. i \in Instruments
    BY <1>3, EntryIs DEF OnPosition
  <2>1. s = [session EXCEPT !.cash[i] = @ + cash, !.external[i] = @ + external]
    BY <1>3 DEF Attributed
  <2> HIDE DEF i
  <2>2. /\ s.other = session.other
        /\ s.units = session.units /\ s.reference = session.reference /\ s.worth = session.worth
        /\ s.flows = session.flows
        /\ s.transfers = session.transfers /\ s.opening = session.opening
    BY <2>1 DEF Session
  <2>3. /\ s.cash = [session.cash EXCEPT ![i] = @ + cash]
        /\ s.external = [session.external EXCEPT ![i] = @ + external]
    BY <2>1 DEF Session
  <2>4. s.cash \in PerInstrument /\ s.external \in PerInstrument
    BY <1>1, <2>0, <2>3 DEF Session, PerInstrument
  <2>5. s \in Session
    <3>1. session \in Session /\ s = [session EXCEPT !.cash = s.cash, !.external = s.external]
      BY <2>1, <2>3 DEF Session
    <3> HIDE DEF s
    <3> QED
      BY <2>4, <3>1 DEF Session
  <2>6. /\ s.cash[i] = session.cash[i] + cash /\ s.external[i] = session.external[i] + external
        /\ \A j \in Instruments \ {i} : s.cash[j] = session.cash[j] /\ s.external[j] = session.external[j]
    BY <2>0, <2>3 DEF Session, PerInstrument
  <2> HIDE DEF s
  <2>7. \A j \in Instruments \ {i} : Flow(s)[j] = Flow(session)[j]
    BY <2>2, <2>6 DEF Flow
  <2>8. Flow(s)[i] = Flow(session)[i] + (cash - external)
    <3>1. Flow(s)[i] = s.cash[i] - s.external[i] - s.transfers[i] - s.opening[i]
      BY <2>0 DEF Flow
    <3>2. Flow(s)[i] = (session.cash[i] + cash) - (session.external[i] + external)
                       - session.transfers[i] - session.opening[i]
      BY <2>2, <2>6, <3>1
    <3>3. /\ session.external[i] \in Int /\ session.cash[i] \in Int
          /\ session.opening[i] \in Int /\ session.transfers[i] \in Int
          /\ Flow(session)[i] = session.cash[i] - session.external[i] - session.transfers[i]
                                - session.opening[i]
      BY <1>1, <2>0
    <3> QED
      BY <3>2, <3>3
  <2>9. Weights(Flow(s), Instruments)
    BY <2>5, FlowIs
  <2>10. SumOn(Flow(s), Instruments) = old - Flow(session)[i] + Flow(s)[i] /\ Flow(session)[i] \in Int
    BY <1>1, <2>0, <2>7, <2>9, SumChange DEF Weights
  <2>11. SumOn(Flow(s), Instruments) + s.other = old + session.other + cash - external
    <3> HIDE DEF old
    <3> QED
      BY <1>1, <2>2, <2>8, <2>10
  <2> QED
    BY <2>2, <2>5, <2>11 DEF Takes, s
<1> QED
  BY <1>2, <1>3

\* Units and reference values are given.
Restated(t, s, units, reference) == t = [s EXCEPT !.units = units, !.reference = reference]

\* Units and reference values are not part of what came to a position.
LEMMA UnitsAside ==
    ASSUME NEW s \in Session, NEW units \in PerInstrument, NEW reference \in PerInstrument,
           NEW old, NEW cash, NEW external, Takes(s, old, cash, external),
           NEW t, Restated(t, s, units, reference)
    PROVE  /\ t \in Session /\ t.units = units /\ t.worth = old.worth /\ t.flows = old.flows
           /\ SumOn(Flow(t), Instruments) + t.other
                  = SumOn(Flow(old), Instruments) + old.other + cash - external
<1>1. t \in Session /\ t.units = units /\ t.worth = s.worth /\ t.flows = s.flows /\ t.other = s.other
  BY DEF Session, Restated
<1>2. /\ t.cash = s.cash /\ t.external = s.external /\ t.transfers = s.transfers
      /\ t.opening = s.opening
  BY DEF Session, Restated
<1>3. Flow(t) = Flow(s)
  BY <1>2 DEF Flow
<1> QED
  BY <1>1, <1>3 DEF Takes

\* Reference value that moves between instruments is no flow of the session.
LEMMA TransferredIs ==
    ASSUME NEW s \in Session, NEW e \in Entries, NEW percent \in Int,
           e.instrument # None, e.child \notin {None, e.instrument},
           NEW old, NEW cash, NEW external, Takes(s, old, cash, external)
    PROVE  /\ Takes(Transferred(s, e, percent), old, cash, external)
           /\ Transferred(s, e, percent).units = s.units
<1> DEFINE i == e.instrument
           j == e.child
           value == (s.reference[i] * percent) \div 100
           t == Transferred(s, e, percent)
           reference == [s.reference EXCEPT ![i] = @ - value, ![j] = @ + value]
           transfers == [s.transfers EXCEPT ![i] = @ - value, ![j] = @ + value]
<1>0. i \in Instruments /\ j \in Instruments /\ i # j
  BY EntryIs
<1>1. t = [s EXCEPT !.reference[i] = @ - value, !.reference[j] = @ + value,
                    !.transfers[i] = @ - value, !.transfers[j] = @ + value]
  BY DEF Transferred
<1>2. /\ s.other \in Int /\ s.worth \in Int /\ s.flows \in Int
      /\ Weights(Flow(s), Instruments) /\ SumOn(Flow(s), Instruments) \in Int
      /\ \A k \in Instruments :
            /\ s.opening[k] \in Int /\ s.reference[k] \in Int
            /\ s.transfers[k] \in Int /\ s.external[k] \in Int /\ s.cash[k] \in Int
            /\ Flow(s)[k] = s.cash[k] - s.external[k] - s.transfers[k] - s.opening[k]
  BY FlowIs
<1>3. value \in Int
  <2>1. s.reference[i] * percent \in Int
    BY <1>0, <1>2
  <2> HIDE DEF i
  <2> QED
    BY <2>1, Quotient
<1> HIDE DEF i, j, value
<1>4. reference \in PerInstrument /\ transfers \in PerInstrument
  <2>1. s.reference \in PerInstrument /\ s.transfers \in PerInstrument
    BY DEF Session
  <2> QED
    BY <1>0, <1>2, <1>3, <2>1 DEF PerInstrument
<1>5. t = [s EXCEPT !.reference = reference, !.transfers = transfers]
  BY <1>1 DEF Session
<1>6. /\ transfers[i] = s.transfers[i] - value /\ transfers[j] = s.transfers[j] + value
      /\ \A k \in Instruments \ {i, j} : transfers[k] = s.transfers[k]
  BY <1>0 DEF Session, PerInstrument
<1> HIDE DEF t, reference, transfers
<1>7. /\ t \in Session /\ t.units = s.units /\ t.worth = s.worth /\ t.flows = s.flows /\ t.other = s.other
      /\ t.cash = s.cash /\ t.external = s.external /\ t.transfers = transfers /\ t.opening = s.opening
  BY <1>4, <1>5 DEF Session
<1>8. \A k \in Instruments : Flow(t)[k] = s.cash[k] - s.external[k] - transfers[k] - s.opening[k]
  BY <1>7 DEF Flow
<1>9. Weights(Flow(t), Instruments) /\ SumOn(Flow(t), Instruments) \in Int
  BY <1>7, FlowIs
<1>10. SumOn(Flow(t), Instruments) = SumOn(Flow(s), Instruments)
  <2> DEFINE mid == [Flow(s) EXCEPT ![i] = @ + value]
  <2>0. Flow(s) = [k \in Instruments |-> Flow(s)[k]] /\ \A k \in Instruments : Flow(s)[k] \in Int
    BY <1>2 DEF Flow, Weights
  <2>1. mid[i] = Flow(s)[i] + value /\ \A k \in Instruments \ {i} : mid[k] = Flow(s)[k]
    BY <1>0, <2>0
  <2> HIDE DEF mid
  <2>2. Weights(mid, Instruments)
    <3>1. \A k \in Instruments : mid[k] \in Int
      BY <1>3, <2>0, <2>1
    <3> QED
      BY <3>1, AccountingAssumption DEF Weights
  <2>3. SumOn(mid, Instruments) = SumOn(Flow(s), Instruments) - Flow(s)[i] + mid[i]
    BY <1>0, <1>2, <2>1, <2>2, SumChange
  <2>4. Flow(t)[j] = mid[j] - value
    <3>1. mid[j] = s.cash[j] - s.external[j] - s.transfers[j] - s.opening[j]
      BY <1>0, <1>2, <2>1
    <3>2. Flow(t)[j] = s.cash[j] - s.external[j] - (s.transfers[j] + value) - s.opening[j]
      BY <1>0, <1>6, <1>8
    <3>3. s.cash[j] \in Int /\ s.external[j] \in Int /\ s.transfers[j] \in Int /\ s.opening[j] \in Int
      BY <1>0, <1>2
    <3> QED
      BY <1>3, <3>1, <3>2, <3>3
  <2>5. Flow(t)[i] = mid[i]
    <3>1. mid[i] = (s.cash[i] - s.external[i] - s.transfers[i] - s.opening[i]) + value
      BY <1>0, <1>2, <2>1
    <3>2. Flow(t)[i] = s.cash[i] - s.external[i] - (s.transfers[i] - value) - s.opening[i]
      BY <1>0, <1>6, <1>8
    <3>3. s.cash[i] \in Int /\ s.external[i] \in Int /\ s.transfers[i] \in Int /\ s.opening[i] \in Int
      BY <1>0, <1>2
    <3> QED
      BY <1>3, <3>1, <3>2, <3>3
  <2>6. \A k \in Instruments \ {j} : Flow(t)[k] = mid[k]
    <3> SUFFICES ASSUME NEW k \in Instruments \ {j} PROVE Flow(t)[k] = mid[k]
      OBVIOUS
    <3>1. CASE k = i
      BY <2>5, <3>1
    <3>2. CASE k # i
      BY <1>2, <1>6, <1>8, <2>1, <3>2
    <3> QED
      BY <3>1, <3>2
  <2>7. SumOn(Flow(t), Instruments) = SumOn(mid, Instruments) - mid[j] + Flow(t)[j]
    BY <1>0, <1>9, <2>2, <2>6, SumChange
  <2>8. Flow(s)[i] \in Int /\ mid[i] \in Int /\ mid[j] \in Int /\ Flow(t)[j] \in Int
    BY <1>0, <1>9, <2>0, <2>2 DEF Weights
  <2> QED
    BY <1>2, <1>3, <2>1, <2>3, <2>4, <2>7, <2>8
<1> QED
  BY <1>7, <1>10 DEF Takes, t

-----------------------------------------------------------------------------
(***************************************************************************)
(* Accounting: the entries, one by one                                     *)
(***************************************************************************)
\* The lots of one instrument are replaced.
LEMMA OneChanged ==
    ASSUME NEW lots \in [Instruments -> Seq(Lot)], NEW i \in Instruments, NEW l \in Seq(Lot)
    PROVE  /\ [lots EXCEPT ![i] = l] \in [Instruments -> Seq(Lot)]
           /\ [lots EXCEPT ![i] = l][i] = l
           /\ \A j \in Instruments \ {i} : [lots EXCEPT ![i] = l][j] = lots[j]
           /\ Cost(l) \in Int /\ Cost(lots[i]) \in Int
           /\ SumOn(Costs([lots EXCEPT ![i] = l]), Instruments)
                  = SumOn(Costs(lots), Instruments) + (Cost(l) - Cost(lots[i]))
<1> DEFINE new == [lots EXCEPT ![i] = l]
<1>1. /\ new \in [Instruments -> Seq(Lot)] /\ new[i] = l
      /\ \A j \in Instruments \ {i} : new[j] = lots[j]
  OBVIOUS
<1>2. Cost(l) \in Int /\ Cost(lots[i]) \in Int
  BY UnitsType
<1> HIDE DEF new
<1>3. /\ Weights(Costs(new), Instruments) /\ Weights(Costs(lots), Instruments)
      /\ SumOn(Costs(lots), Instruments) \in Int
  BY <1>1, CostsAre
<1>4. /\ Costs(new)[i] = Cost(l) /\ Costs(lots)[i] = Cost(lots[i])
      /\ \A j \in Instruments \ {i} : Costs(new)[j] = Costs(lots)[j]
  BY <1>1 DEF Costs
<1>5. SumOn(Costs(new), Instruments) = SumOn(Costs(lots), Instruments) - Costs(lots)[i] + Costs(new)[i]
  BY <1>3, <1>4, SumChange
<1>6. SumOn(Costs(new), Instruments) = SumOn(Costs(lots), Instruments) + (Cost(l) - Cost(lots[i]))
  BY <1>2, <1>3, <1>4, <1>5
<1> QED
  BY <1>1, <1>2, <1>6 DEF new

\* What the invariant says of one instrument.
LEMMA BooksTypes ==
    ASSUME BooksInv
    PROVE  /\ AccountingTypeOK /\ session \in Session
           /\ open \in [Instruments -> Seq(Lot)] /\ today \in Nat
           /\ \A i \in Instruments :
                 /\ InOrder(open[i]) /\ OneSided(open[i]) /\ open[i] \in Seq(Lot)
                 /\ session.units[i] = Units(open[i])
           /\ SumOn(Costs(open), Instruments) \in Int
BY CostsAre DEF BooksInv, AccountingTypeOK, LotsInv, UnitsInv, Session

\* An entry that moves no lots.
LEMMA CashReplayed ==
    ASSUME BooksInv, NEW e \in Entries, NEW delta \in [Totals -> Int], Balanced(delta, 0),
           \A t \in Posted : SumPostings(Postings(e), t) = delta[t],
           NEW external, external = delta["external"],
           Replay(e, open, delta, Attributed(e, delta["cash"], external))
    PROVE  BooksInv'
<1> DEFINE s == Attributed(e, delta["cash"], external)
<1>1. delta["cash"] \in Int /\ delta["external"] \in Int
  BY DEF Totals
<1>2. Takes(s, session, delta["cash"], delta["external"]) /\ s.units = session.units
  BY <1>1, BooksTypes, AttributedIs
<1> HIDE DEF s
<1>3. /\ open \in [Instruments -> Seq(Lot)]
      /\ \A i \in Instruments : InOrder(open[i]) /\ OneSided(open[i])
      /\ s \in Session /\ \A i \in Instruments : s.units[i] = Units(open[i])
      /\ s.worth = session.worth /\ s.flows = session.flows
  BY <1>2, BooksTypes DEF Takes
<1>4. SumOn(Costs(open), Instruments) = SumOn(Costs(open), Instruments) + 0
  BY BooksTypes
<1>5. SumOn(Flow(s), Instruments) + s.other =
          SumOn(Flow(session), Instruments) + session.other + delta["cash"] - delta["external"]
  BY <1>2 DEF Takes
<1>6. Replay(e, open, delta, s)
  BY DEF s
<1> QED
  BY <1>3, <1>4, <1>5, <1>6, ReplayKeeps

\* Only trades capitalize charges.
LEMMA NoTrade ==
    ASSUME NEW e \in Entries, e.kind \notin Trades
    PROVE  Capitalized(e) = 0
BY DEF Capitalized

\* Entries that move no lots, one by one.
LEMMA MoveCapitalKeeps ==
    ASSUME BooksInv, NEW e \in Entries, MoveCapital(e)
    PROVE  BooksInv'
<1> DEFINE amount == IF e.kind \in {"DEPOSIT", "TRANSFER_IN"} THEN e.gross ELSE -e.gross
           fields == [cash |-> amount, external |-> amount]
           delta == Plus(Delta(ChargesOf(e)), fields)
<1>1. /\ e.kind \in {"DEPOSIT", "WITHDRAWAL", "TRANSFER_IN", "TRANSFER_OUT"}
      /\ Replay(e, open, delta, Attributed(e, delta["cash"], amount))
  BY DEF MoveCapital, Transfers
<1>2. AccountingTypeOK
  BY BooksTypes
<1>3. amount \in Int /\ CapitalOf(e) = amount /\ IncomeOf(e) = 0
  BY <1>1, EntryIs DEF CapitalOf, IncomeOf
<1>4. Capitalized(e) = 0 /\ e.kind \notin Expenses
  BY <1>1, NoTrade DEF Trades, Expenses
<1> DEFINE K == {"cash", "external"}
<1> HIDE DEF amount
<1>5. fields \in [K -> Int] /\ fields["cash"] = amount /\ fields["external"] = amount
  BY <1>3
<1>6. /\ K \subseteq {"cash", "external", "income", "realised", "adjustments"}
      /\ "cash" \in K /\ "external" \in K /\ "income" \notin K /\ "realised" \notin K
      /\ "adjustments" \notin K
  OBVIOUS
<1> HIDE DEF K, fields
<1>7. Booked(delta, e, amount, amount, 0, 0, 0)
  BY <1>2, <1>5, <1>6, FieldsBooked
<1> HIDE DEF delta
<1>8. \A t \in Posted : SumPostings(Postings(e), t) = delta[t]
  BY <1>2, <1>3, <1>4, <1>7, PostingsBooked
<1>9. amount + 0 = amount + 0 + 0 + 0 + Capitalized(e)
  BY <1>3, <1>4
<1>10. Balanced(delta, 0)
  BY <1>2, <1>3, <1>7, <1>9, BookedBalances
<1>11. delta \in [Totals -> Int] /\ amount = delta["external"]
  BY <1>7 DEF Booked
<1> QED
  BY <1>1, <1>8, <1>10, <1>11, CashReplayed

LEMMA ReceiveIncomeKeeps ==
    ASSUME BooksInv, NEW e \in Entries, ReceiveIncome(e)
    PROVE  BooksInv'
<1> DEFINE fields == [cash |-> e.gross, income |-> e.gross]
           delta == Plus(Delta(ChargesOf(e)), fields)
           K == {"cash", "income"}
<1>1. e.kind \in {"DIVIDEND", "INTEREST"} /\ Replay(e, open, delta, Attributed(e, delta["cash"], 0))
  BY DEF ReceiveIncome
<1>2. AccountingTypeOK
  BY BooksTypes
<1>3. e.gross \in Int /\ CapitalOf(e) = 0 /\ IncomeOf(e) = e.gross
  BY <1>1, EntryIs DEF CapitalOf, IncomeOf
<1>4. Capitalized(e) = 0 /\ e.kind \notin Expenses
  BY <1>1, NoTrade DEF Trades, Expenses
<1>5. fields \in [K -> Int] /\ fields["cash"] = e.gross /\ fields["income"] = e.gross
  BY <1>3
<1>6. /\ K \subseteq {"cash", "external", "income", "realised", "adjustments"}
      /\ "cash" \in K /\ "external" \notin K /\ "income" \in K /\ "realised" \notin K
      /\ "adjustments" \notin K
  OBVIOUS
<1> HIDE DEF K, fields
<1>7. Booked(delta, e, e.gross, 0, e.gross, 0, 0)
  BY <1>2, <1>5, <1>6, FieldsBooked
<1> HIDE DEF delta
<1>8. \A t \in Posted : SumPostings(Postings(e), t) = delta[t]
  BY <1>2, <1>3, <1>4, <1>7, PostingsBooked
<1>9. e.gross + 0 = 0 + e.gross + 0 + 0 + Capitalized(e)
  BY <1>3, <1>4
<1>10. Balanced(delta, 0)
  BY <1>2, <1>3, <1>7, <1>9, BookedBalances
<1>11. delta \in [Totals -> Int] /\ 0 = delta["external"]
  BY <1>7 DEF Booked
<1> QED
  BY <1>1, <1>8, <1>10, <1>11, CashReplayed

LEMMA ConvertCashKeeps ==
    ASSUME BooksInv, NEW e \in Entries, ConvertCash(e)
    PROVE  BooksInv'
<1> DEFINE delta == Delta(ChargesOf(e))
<1>1. e.kind = "FX_CONVERSION" /\ Replay(e, open, delta, Attributed(e, delta["cash"], 0))
  BY DEF ConvertCash
<1>2. AccountingTypeOK
  BY BooksTypes
<1>3. CapitalOf(e) = 0 /\ IncomeOf(e) = 0
  BY <1>1 DEF CapitalOf, IncomeOf
<1>4. Capitalized(e) = 0 /\ e.kind \notin Expenses
  BY <1>1, NoTrade DEF Trades, Expenses
<1>7. Booked(delta, e, 0, 0, 0, 0, 0)
  BY <1>2, ChargesBooked
<1> HIDE DEF delta
<1>8. \A t \in Posted : SumPostings(Postings(e), t) = delta[t]
  BY <1>2, <1>3, <1>4, <1>7, PostingsBooked
<1>9. 0 + 0 = 0 + 0 + 0 + 0 + Capitalized(e)
  BY <1>4
<1>10. Balanced(delta, 0)
  BY <1>2, <1>7, <1>9, BookedBalances
<1>11. delta \in [Totals -> Int] /\ 0 = delta["external"]
  BY <1>7 DEF Booked
<1> QED
  BY <1>1, <1>8, <1>10, <1>11, CashReplayed

LEMMA AdjustKeeps ==
    ASSUME BooksInv, NEW e \in Entries, Adjust(e)
    PROVE  BooksInv'
<1> DEFINE amount == e.cash * e.gross
           fields == [cash |-> amount, adjustments |-> amount]
           delta == Plus(Delta(ChargesOf(e)), fields)
           K == {"cash", "adjustments"}
<1>1. e.kind = "OTHER_ADJUSTMENT" /\ Replay(e, open, delta, Attributed(e, delta["cash"], 0))
  BY DEF Adjust
<1>2. AccountingTypeOK
  BY BooksTypes
<1>3. amount \in Int /\ CapitalOf(e) = 0 /\ IncomeOf(e) = 0
  BY <1>1, EntryIs DEF CapitalOf, IncomeOf
<1>4. Capitalized(e) = 0 /\ e.kind \notin Expenses
  BY <1>1, NoTrade DEF Trades, Expenses
<1> HIDE DEF amount
<1>5. fields \in [K -> Int] /\ fields["cash"] = amount /\ fields["adjustments"] = amount
  BY <1>3
<1>6. /\ K \subseteq {"cash", "external", "income", "realised", "adjustments"}
      /\ "cash" \in K /\ "external" \notin K /\ "income" \notin K /\ "realised" \notin K
      /\ "adjustments" \in K
  OBVIOUS
<1> HIDE DEF K, fields
<1>7. Booked(delta, e, amount, 0, 0, 0, amount)
  BY <1>2, <1>5, <1>6, FieldsBooked
<1> HIDE DEF delta
<1>8. \A t \in Posted : SumPostings(Postings(e), t) = delta[t]
  BY <1>2, <1>3, <1>4, <1>7, PostingsBooked
<1>9. amount + 0 = 0 + 0 + 0 + amount + Capitalized(e)
  BY <1>3, <1>4
<1>10. Balanced(delta, 0)
  BY <1>2, <1>3, <1>7, <1>9, BookedBalances
<1>11. delta \in [Totals -> Int] /\ 0 = delta["external"]
  BY <1>7 DEF Booked
<1> QED
  BY <1>1, <1>8, <1>10, <1>11, CashReplayed

LEMMA PayExpenseKeeps ==
    ASSUME BooksInv, NEW e \in Entries, PayExpense(e)
    PROVE  BooksInv'
<1> DEFINE charge == IF e.gross # 0 THEN e.gross ELSE Charges(e)
           category == IF e.kind = "TAX" THEN "taxes" ELSE "fees"
           paid == [cash |-> -charge]
           fields == IF e.kind = "TAX" THEN [taxes |-> charge] ELSE [fees |-> charge]
           base == Delta(paid)
           delta == Plus(base, fields)
<1>1. e.kind \in Expenses /\ Replay(e, open, delta, Attributed(e, delta["cash"], 0))
  BY DEF PayExpense, Expenses
<1>2. AccountingTypeOK
  BY BooksTypes
<1>3. charge \in Int
  BY <1>2, ChargesAre, EntryIs
<1>4. \A t \in Posted : SumPostings(Postings(e), t) = IF t = category THEN charge ELSE 0
  BY <1>1, <1>2, <1>3, ExpensePosted
<1> HIDE DEF charge
<1>5. paid \in [{"cash"} -> Int] /\ paid["cash"] = -charge
  BY <1>3
<1>6. fields \in [{category} -> Int] /\ fields[category] = charge
  BY <1>3
<1>7. category \in {"taxes", "fees"} /\ {"cash"} \in SUBSET Totals /\ {category} \in SUBSET Totals
  BY DEF Totals
<1> HIDE DEF paid, fields, category
<1>8. /\ base \in [Totals -> Int] /\ base["cash"] = paid["cash"]
      /\ \A t \in Totals \ {"cash"} : base[t] = 0
  BY <1>5, <1>7, NothingBooked
<1> HIDE DEF base
<1>9. /\ delta \in [Totals -> Int] /\ delta[category] = base[category] + fields[category]
      /\ \A t \in Totals \ {category} : delta[t] = base[t]
  BY <1>6, <1>7, <1>8, PlusIs
<1> HIDE DEF delta
<1>10. /\ delta["cash"] = -charge /\ delta["external"] = 0 /\ delta["income"] = 0
       /\ delta["realised"] = 0 /\ delta["adjustments"] = 0 /\ delta["capitalized"] = 0
  BY <1>5, <1>7, <1>8, <1>9 DEF Totals
<1>11. delta["fees"] = (IF category = "fees" THEN charge ELSE 0)
  <2>1. base["fees"] = 0
    BY <1>8 DEF Totals
  <2> QED
    BY <1>3, <1>6, <1>9, <2>1 DEF Totals
<1>12. delta["taxes"] = (IF category = "taxes" THEN charge ELSE 0)
  <2>1. base["taxes"] = 0
    BY <1>8 DEF Totals
  <2> QED
    BY <1>3, <1>6, <1>9, <2>1 DEF Totals
<1>13. \A t \in Posted : SumPostings(Postings(e), t) = delta[t]
  BY <1>4, <1>7, <1>10, <1>11, <1>12 DEF Posted
<1>14. Balanced(delta, 0)
  <2>1. CASE category = "fees"
    BY <1>3, <1>10, <1>11, <1>12, <2>1 DEF Balanced
  <2>2. CASE category = "taxes"
    BY <1>3, <1>10, <1>11, <1>12, <2>2 DEF Balanced
  <2> QED
    BY <1>7, <2>1, <2>2
<1> QED
  BY <1>1, <1>9, <1>10, <1>13, <1>14, CashReplayed

\* An entry that changes the lots of one instrument.
LEMMA LotsReplayed ==
    ASSUME BooksInv, NEW e \in Entries, NEW i \in Instruments, NEW l \in Stack, OneSided(l),
           NEW delta \in [Totals -> Int], Balanced(delta, Cost(l) - Cost(open[i])),
           \A t \in Posted : SumPostings(Postings(e), t) = delta[t],
           NEW s \in Session, s.worth = session.worth, s.flows = session.flows,
           s.units[i] = Units(l), \A j \in Instruments \ {i} : s.units[j] = session.units[j],
           SumOn(Flow(s), Instruments) + s.other =
               SumOn(Flow(session), Instruments) + session.other + delta["cash"] - delta["external"],
           Replay(e, [open EXCEPT ![i] = l], delta, s)
    PROVE  BooksInv'
<1> DEFINE lots == [open EXCEPT ![i] = l]
           c == Cost(l) - Cost(open[i])
<1>1. l \in Seq(Lot) /\ InOrder(l)
  BY DEF Stack
<1>2. /\ lots \in [Instruments -> Seq(Lot)] /\ lots[i] = l
      /\ \A j \in Instruments \ {i} : lots[j] = open[j]
      /\ Cost(l) \in Int /\ Cost(open[i]) \in Int
      /\ SumOn(Costs(lots), Instruments) = SumOn(Costs(open), Instruments) + c
  BY <1>1, BooksTypes, OneChanged
<1>3. c \in Int
  BY <1>2
<1>4. Replay(e, lots, delta, s) /\ Balanced(delta, c)
  OBVIOUS
<1> HIDE DEF lots, c
<1>5. \A j \in Instruments : InOrder(lots[j]) /\ OneSided(lots[j]) /\ s.units[j] = Units(lots[j])
  <2> SUFFICES ASSUME NEW j \in Instruments
               PROVE  InOrder(lots[j]) /\ OneSided(lots[j]) /\ s.units[j] = Units(lots[j])
    OBVIOUS
  <2>1. CASE j = i
    BY <1>1, <1>2, <2>1
  <2>2. CASE j # i
    BY <1>2, <2>2, BooksTypes
  <2> QED
    BY <2>1, <2>2
<1> QED
  BY <1>2, <1>3, <1>4, <1>5, ReplayKeeps

\* What a lot of either direction counts.
LEMMA LotSigned ==
    ASSUME NEW p \in Parcel
    PROVE  /\ p.direction = "LONG" =>
                  SignedQuantity[p] = p.quantity /\ SignedBasis[p] = p.basis
           /\ p.direction = "SHORT" =>
                  SignedQuantity[p] = -p.quantity /\ SignedBasis[p] = -p.basis
BY SignedType

\* A new lot: its cost is what is paid for it, with the capitalized charges.
LEMMA OpenPositionKeeps ==
    ASSUME BooksInv, NEW e \in Entries, OpenPosition(e)
    PROVE  BooksInv'
<1> DEFINE i == e.instrument
           direction == IF e.kind = "SHORT" THEN "SHORT" ELSE "LONG"
           sign == IF e.kind = "SHORT" THEN -1 ELSE 1
           moved == IF e.kind = "TRANSFER_IN" THEN 0 ELSE -sign * e.gross
           external == IF e.kind = "TRANSFER_IN" THEN e.gross ELSE 0
           fields == [cash |-> moved, external |-> external]
           delta == Plus(Delta(ChargesOf(e)), fields)
           seen == Attributed(e, delta["cash"], external)
           lot == [opened |-> today, direction |-> direction, quantity |-> e.quantity,
                   basis |-> e.gross + sign * Capitalized(e)]
           l == Insert(open[i], lot)
           units == [seen.units EXCEPT ![i] = @ + sign * e.quantity]
           reference == [seen.reference EXCEPT ![i] = @ + sign * e.gross]
           s == [seen EXCEPT !.units[i] = @ + sign * e.quantity,
                             !.reference[i] = @ + sign * e.gross]
           K == {"cash", "external"}
<1>1. /\ e.kind \in {"BUY", "SHORT", "TRANSFER_IN"} /\ e.instrument # None
      /\ e.quantity > 0 /\ e.gross > 0
      /\ \A k \in DOMAIN open[i] : open[i][k].direction = direction
      /\ Replay(e, [open EXCEPT ![i] = l], delta, s)
  BY DEF OpenPosition
<1>2. AccountingTypeOK /\ session \in Session /\ today \in Nat
  BY BooksTypes
<1>3. i \in Instruments /\ e.gross \in Nat \ {0} /\ e.quantity \in Nat \ {0} /\ Capitalized(e) \in Nat
  BY <1>1, <1>2, EntryIs, ChargesAre
<1>4. open[i] \in Stack /\ open[i] \in Seq(Lot) /\ session.units[i] = Units(open[i])
  BY <1>3, BooksTypes DEF Stack
<1>5. (sign = 1 /\ direction = "LONG") \/ (sign = -1 /\ direction = "SHORT")
  OBVIOUS
<1>6. /\ (e.kind = "BUY" /\ sign = 1 /\ moved = -1 * e.gross /\ external = 0)
         \/ (e.kind = "SHORT" /\ sign = -1 /\ moved = -(-1) * e.gross /\ external = 0)
         \/ (e.kind = "TRANSFER_IN" /\ sign = 1 /\ moved = 0 /\ external = e.gross)
  BY <1>1
<1>7. external = CapitalOf(e) /\ IncomeOf(e) = 0 /\ e.kind \notin Expenses
  BY <1>1 DEF CapitalOf, IncomeOf, Expenses
<1>8. e.kind = "TRANSFER_IN" => Capitalized(e) = 0
  BY NoTrade DEF Trades
<1>9. lot \in Lot /\ lot \in Parcel /\ lot.direction = direction /\ lot.quantity = e.quantity
        /\ lot.basis = e.gross + sign * Capitalized(e)
  <2>1. e.gross + sign * Capitalized(e) \in Int /\ direction \in Directions
    BY <1>3, <1>5 DEF Directions
  <2>2. lot \in Lot
    BY <1>2, <1>3, <2>1 DEF Lot
  <2> QED
    BY <2>2, LotIsParcel
<1> HIDE DEF i, direction, sign, moved, external, lot
<1>10. /\ l \in Stack /\ Units(l) = Units(open[i]) + SignedQuantity[lot]
       /\ Cost(l) = Cost(open[i]) + SignedBasis[lot]
       /\ \A k \in DOMAIN l : l[k] = lot \/ \E m \in DOMAIN open[i] : l[k] = open[i][m]
  BY <1>4, <1>9, SignedType, InsertIs DEF Units, Cost
<1>11. /\ SignedQuantity[lot] = sign * e.quantity
       /\ SignedBasis[lot] = sign * e.gross + Capitalized(e)
  <2>1. CASE sign = 1 /\ direction = "LONG"
    <3>1. SignedQuantity[lot] = e.quantity /\ SignedBasis[lot] = e.gross + 1 * Capitalized(e)
      BY <1>9, <2>1, LotSigned
    <3> QED
      BY <1>3, <2>1, <3>1
  <2>2. CASE sign = -1 /\ direction = "SHORT"
    <3>1. SignedQuantity[lot] = -e.quantity /\ SignedBasis[lot] = -(e.gross + (-1) * Capitalized(e))
      BY <1>9, <2>2, LotSigned
    <3> QED
      BY <1>3, <2>2, <3>1
  <2> QED
    BY <1>5, <2>1, <2>2
<1> HIDE DEF l
<1>12. OneSided(l)
  <2>1. \A k \in DOMAIN l : l[k].direction = direction
    BY <1>1, <1>9, <1>10
  <2> QED
    BY <2>1 DEF OneSided
<1>13. moved \in Int /\ external \in Int /\ sign \in Int
  BY <1>3, <1>6
<1>14. fields \in [K -> Int] /\ fields["cash"] = moved /\ fields["external"] = external
  BY <1>13
<1>15. /\ K \subseteq {"cash", "external", "income", "realised", "adjustments"}
       /\ "cash" \in K /\ "external" \in K /\ "income" \notin K /\ "realised" \notin K
       /\ "adjustments" \notin K
  OBVIOUS
<1> HIDE DEF K, fields
<1>16. Booked(delta, e, moved, external, 0, 0, 0)
  BY <1>2, <1>14, <1>15, FieldsBooked
<1> HIDE DEF delta
<1>17. \A t \in Posted : SumPostings(Postings(e), t) = delta[t]
  BY <1>2, <1>7, <1>16, PostingsBooked
<1> DEFINE c == Cost(l) - Cost(open[i])
<1>18. c = sign * e.gross + Capitalized(e) /\ c \in Int
  <2>1. Cost(open[i]) \in Int
    BY <1>4, UnitsType
  <2>2. sign * e.gross + Capitalized(e) \in Int
    BY <1>3, <1>13
  <2> QED
    BY <1>10, <1>11, <2>1, <2>2
<1> HIDE DEF c
<1>19. moved + c = external + 0 + 0 + 0 + Capitalized(e)
  <2>1. CASE e.kind = "BUY" /\ sign = 1 /\ moved = -1 * e.gross /\ external = 0
    BY <1>3, <1>18, <2>1
  <2>2. CASE e.kind = "SHORT" /\ sign = -1 /\ moved = -(-1) * e.gross /\ external = 0
    BY <1>3, <1>18, <2>2
  <2>3. CASE e.kind = "TRANSFER_IN" /\ sign = 1 /\ moved = 0 /\ external = e.gross
    BY <1>3, <1>8, <1>18, <2>3
  <2> QED
    BY <1>6, <2>1, <2>2, <2>3
<1>20. Balanced(delta, c)
  BY <1>2, <1>13, <1>16, <1>18, <1>19, BookedBalances
<1>21. delta \in [Totals -> Int] /\ delta["cash"] \in Int /\ delta["external"] = external
  BY <1>16 DEF Booked, Totals
<1>22. /\ Takes(seen, session, delta["cash"], external)
       /\ seen.units = session.units /\ seen.reference = session.reference
  BY <1>2, <1>13, <1>21, AttributedIs
<1> HIDE DEF seen
<1>23. /\ seen \in Session /\ seen.units = session.units /\ seen.reference = session.reference
       /\ session.units \in PerInstrument /\ session.reference \in PerInstrument
  BY <1>2, <1>22 DEF Takes, Session
<1>24. units \in PerInstrument /\ reference \in PerInstrument
  <2>1. sign * e.quantity \in Int /\ sign * e.gross \in Int
    BY <1>3, <1>13
  <2> QED
    BY <1>3, <1>23, <2>1 DEF PerInstrument
<1>25. /\ units[i] = session.units[i] + sign * e.quantity
       /\ \A j \in Instruments \ {i} : units[j] = session.units[j]
  BY <1>3, <1>23 DEF PerInstrument
<1>26. Restated(s, seen, units, reference)
  BY <1>23 DEF Session, Restated
<1> HIDE DEF units, reference, s
<1>27. /\ s \in Session /\ s.units = units /\ s.worth = session.worth /\ s.flows = session.flows
       /\ SumOn(Flow(s), Instruments) + s.other
              = SumOn(Flow(session), Instruments) + session.other + delta["cash"] - delta["external"]
  <2>1. /\ s \in Session /\ s.units = units /\ s.worth = session.worth /\ s.flows = session.flows
        /\ SumOn(Flow(s), Instruments) + s.other
               = SumOn(Flow(session), Instruments) + session.other + delta["cash"] - external
    BY ONLY <1>22, <1>23, <1>24, <1>26, UnitsAside
  <2> QED
    BY <1>21, <2>1
<1>28. s.units[i] = Units(l) /\ \A j \in Instruments \ {i} : s.units[j] = session.units[j]
  BY <1>4, <1>10, <1>11, <1>25, <1>27
<1> QED
  BY <1>1, <1>3, <1>10, <1>12, <1>17, <1>20, <1>21, <1>27, <1>28, LotsReplayed DEF c

\* A sequence of lots.
LEMMA LotsAre ==
    ASSUME NEW lots \in Seq(Lot)
    PROVE  /\ Len(lots) \in Nat /\ DOMAIN lots = 1 .. Len(lots) /\ lots \in [1 .. Len(lots) -> Lot]
           /\ \A k \in DOMAIN lots :
                 /\ lots[k] \in Lot /\ lots[k] \in Parcel /\ lots[k].quantity \in Nat \ {0}
                 /\ lots[k].basis \in Int /\ lots[k].opened \in Nat
                 /\ lots[k].direction \in Directions
           /\ \A l \in [1 .. Len(lots) -> Lot] :
                 l \in Seq(Lot) /\ l \in Seq(Parcel) /\ DOMAIN l = DOMAIN lots
<1>1. Len(lots) \in Nat /\ DOMAIN lots = 1 .. Len(lots) /\ lots \in [1 .. Len(lots) -> Lot]
  OBVIOUS
<1>2. \A k \in DOMAIN lots : lots[k] \in Lot
  BY <1>1
<1>3. \A l \in [1 .. Len(lots) -> Lot] :
          l \in Seq(Lot) /\ l \in Seq(Parcel) /\ DOMAIN l = DOMAIN lots
  BY <1>1, LotIsParcel
<1>4. \A lot \in Lot : /\ lot \in Parcel /\ lot.quantity \in Nat \ {0} /\ lot.basis \in Int
                       /\ lot.opened \in Nat /\ lot.direction \in Directions
  <2>1. \A lot \in Lot : /\ lot.quantity \in Nat \ {0} /\ lot.basis \in Int
                         /\ lot.opened \in Nat /\ lot.direction \in Directions
    BY DEF Lot
  <2> QED
    BY <2>1, LotIsParcel
<1> QED
  BY <1>1, <1>2, <1>3, <1>4

\* Exact quotients.
LEMMA Exact ==
    ASSUME NEW a \in Int, NEW b \in Int, NEW c \in Nat \ {0}, c * b = a
    PROVE  a \div c = b
<1> DEFINE q == a \div c
           r == a % c
<1>1. q \in Int /\ r \in Int /\ a = c * q + r /\ 0 <= r /\ r < c
  OBVIOUS
<1> HIDE DEF q, r
<1> DEFINE d == b - q
<1>2. d \in Int /\ c * d = r
  BY <1>1
<1> HIDE DEF d
<1>3. d >= 1 => c * d >= c
  BY <1>2
<1>4. d <= -1 => c * d < 0
  BY <1>2
<1>5. d = 0
  BY <1>1, <1>2, <1>3, <1>4
<1> QED
  BY <1>1, <1>5 DEF d, q

LEMMA RatioIs ==
    ASSUME NEW q \in Nat \ {0}, NEW up \in Nat \ {0}, NEW down \in Nat \ {0}, (q * up) % down = 0
    PROVE  (q * up) \div down \in Nat \ {0} /\ down * ((q * up) \div down) = up * q
<1> DEFINE x == (q * up) \div down
<1>1. q * up \in Int /\ q * up = up * q
  OBVIOUS
<1>2. x \in Int /\ down * x = q * up
  BY <1>1, Quotient
<1> HIDE DEF x
<1>3. q * up > 0
  OBVIOUS
<1>4. ASSUME x <= 0 PROVE FALSE
  <2>1. down * x <= 0
    BY <1>2, <1>4
  <2> QED
    BY <1>2, <1>3, <2>1
<1> QED
  BY <1>1, <1>2, <1>4 DEF x

\* The sign of a product.
LEMMA TimesMinus ==
    ASSUME NEW a \in Int, NEW b \in Int
    PROVE  a * (-b) = -(a * b)
OBVIOUS

\* Lots whose quantities change in one ratio: so does the position.
LEMMA UnitsInRatio ==
    ASSUME NEW lots \in Seq(Lot), NEW l \in [1 .. Len(lots) -> Lot],
           NEW up \in Nat \ {0}, NEW down \in Nat \ {0},
           \A k \in DOMAIN lots : /\ l[k].direction = lots[k].direction
                                  /\ down * l[k].quantity = up * lots[k].quantity
    PROVE  Units(l) = (Units(lots) * up) \div down
<1>1. /\ DOMAIN lots = 1 .. Len(lots) /\ l \in Seq(Parcel) /\ l \in Seq(Lot) /\ lots \in Seq(Parcel)
      /\ DOMAIN l = DOMAIN lots
      /\ \A k \in DOMAIN lots : lots[k] \in Parcel /\ l[k] \in Parcel
  <2>1. \A k \in DOMAIN lots : l[k] \in Lot
    BY LotsAre
  <2> QED
    BY <2>1, LotsAre, LotIsParcel
<1> DEFINE D == DOMAIN lots
           w == Each(SignedQuantity, lots)
           v == Each(SignedQuantity, l)
           both == [k \in D |-> up * w[k]]
<1>2. /\ Weights(w, D) /\ Weights(v, D)
      /\ \A k \in D : w[k] = SignedQuantity[lots[k]] /\ v[k] = SignedQuantity[l[k]]
      /\ Units(lots) = SumOn(w, D) /\ Units(l) = SumOn(v, D)
      /\ Units(lots) \in Int /\ Units(l) \in Int
  <2>1. SignedQuantity \in [Parcel -> Int]
    BY SignedType
  <2>2. /\ Weights(w, DOMAIN lots) /\ Total(SignedQuantity, lots) \in Int
        /\ \A k \in DOMAIN lots : w[k] = SignedQuantity[lots[k]]
    BY <1>1, <2>1, EachIs
  <2>3. /\ Weights(v, DOMAIN l) /\ Total(SignedQuantity, l) \in Int
        /\ \A k \in DOMAIN l : v[k] = SignedQuantity[l[k]]
    BY <1>1, <2>1, EachIs
  <2>4. Units(lots) = SumOn(w, DOMAIN lots) /\ Units(l) = SumOn(v, DOMAIN l)
    BY DEF Units, Total
  <2> HIDE DEF w, v
  <2> QED
    BY <1>1, <2>2, <2>3, <2>4 DEF Units
<1>3. \A k \in D : down * v[k] = up * w[k]
  <2> SUFFICES ASSUME NEW k \in D PROVE down * v[k] = up * w[k]
    OBVIOUS
  <2>1. /\ lots[k].direction = l[k].direction /\ down * l[k].quantity = up * lots[k].quantity
        /\ l[k].quantity \in Nat /\ lots[k].quantity \in Nat
        /\ w[k] = (IF lots[k].direction = "LONG" THEN lots[k].quantity ELSE -lots[k].quantity)
        /\ v[k] = (IF l[k].direction = "LONG" THEN l[k].quantity ELSE -l[k].quantity)
    BY <1>1, <1>2, SignedType
  <2> HIDE DEF w, v
  <2>2. CASE l[k].direction = "LONG"
    BY <2>1, <2>2
  <2>3. CASE l[k].direction # "LONG"
    <3>1. w[k] = -lots[k].quantity /\ v[k] = -l[k].quantity
      BY <2>1, <2>3
    <3>2. down * (-l[k].quantity) = -(down * l[k].quantity)
          /\ up * (-lots[k].quantity) = -(up * lots[k].quantity)
      BY <2>1, TimesMinus
    <3> QED
      BY <2>1, <3>1, <3>2
  <2> QED
    BY <2>2, <2>3
<1> HIDE DEF D, w, v
<1>4. Weights(both, D) /\ SumOn(both, D) = up * SumOn(w, D)
  <2>1. \A k \in D : both[k] = up * w[k]
    OBVIOUS
  <2> HIDE DEF both
  <2> QED
    BY <1>2, <2>1, SumTimes
<1>5. SumOn(both, D) = down * SumOn(v, D)
  <2>1. \A k \in D : both[k] = down * v[k]
    BY <1>3
  <2>2. Weights(v, D) /\ down \in Int
    BY <1>2
  <2> HIDE DEF both
  <2> QED
    BY ONLY <2>1, <2>2, SumTimes
<1>6. down * Units(l) = Units(lots) * up
  BY <1>2, <1>4, <1>5
<1>7. Units(lots) * up \in Int
  BY <1>2
<1> QED
  BY <1>2, <1>6, <1>7, Exact

\* Lots that keep their direction and their basis cost the same.
LEMMA CostSame ==
    ASSUME NEW lots \in Seq(Lot), NEW l \in [1 .. Len(lots) -> Lot],
           \A k \in DOMAIN lots : l[k].direction = lots[k].direction /\ l[k].basis = lots[k].basis
    PROVE  Cost(l) = Cost(lots)
<1>1. /\ DOMAIN lots = 1 .. Len(lots) /\ l \in Seq(Parcel) /\ l \in Seq(Lot) /\ lots \in Seq(Parcel)
      /\ DOMAIN l = DOMAIN lots
      /\ \A k \in DOMAIN lots : lots[k] \in Parcel /\ l[k] \in Parcel
  <2>1. \A k \in DOMAIN lots : l[k] \in Lot
    BY LotsAre
  <2> QED
    BY <2>1, LotsAre, LotIsParcel
<1> DEFINE D == DOMAIN lots
           w == Each(SignedBasis, lots)
           v == Each(SignedBasis, l)
<1>2. /\ Weights(w, D)
      /\ \A k \in D : w[k] = SignedBasis[lots[k]] /\ v[k] = SignedBasis[l[k]]
      /\ Cost(lots) = SumOn(w, D) /\ Cost(l) = SumOn(v, D)
  <2>1. SignedBasis \in [Parcel -> Int]
    BY SignedType
  <2>2. Weights(w, DOMAIN lots) /\ \A k \in DOMAIN lots : w[k] = SignedBasis[lots[k]]
    BY <1>1, <2>1, EachIs
  <2>3. \A k \in DOMAIN l : v[k] = SignedBasis[l[k]]
    BY <1>1, <2>1, EachIs
  <2>4. Cost(lots) = SumOn(w, DOMAIN lots) /\ Cost(l) = SumOn(v, DOMAIN l)
    BY DEF Cost, Total
  <2> HIDE DEF w, v
  <2> QED
    BY <1>1, <2>2, <2>3, <2>4
<1>3. \A k \in D : v[k] = w[k]
  <2> SUFFICES ASSUME NEW k \in D PROVE v[k] = w[k]
    OBVIOUS
  <2>1. v[k] = SignedBasis[l[k]] /\ w[k] = SignedBasis[lots[k]]
    BY <1>2
  <2>2. SignedBasis[l[k]] = IF l[k].direction = "LONG" THEN l[k].basis ELSE -l[k].basis
    BY <1>1, SignedType
  <2>3. SignedBasis[lots[k]] = IF lots[k].direction = "LONG" THEN lots[k].basis ELSE -lots[k].basis
    BY <1>1, SignedType
  <2> HIDE DEF v, w
  <2> QED
    BY <2>1, <2>2, <2>3
<1> HIDE DEF w, v, D
<1> QED
  BY <1>2, <1>3, SumSame

\* Lots that keep their dates and directions stay in order and one-sided.
LEMMA InOrderSame ==
    ASSUME NEW lots \in Seq(Lot), InOrder(lots), NEW l \in [1 .. Len(lots) -> Lot],
           \A k \in DOMAIN lots : l[k].direction = lots[k].direction /\ l[k].opened = lots[k].opened
    PROVE  l \in Stack /\ (OneSided(lots) => OneSided(l))
<1>1. l \in Seq(Lot) /\ DOMAIN l = DOMAIN lots
  BY LotsAre
<1>2. InOrder(l)
  BY <1>1 DEF InOrder
<1>3. OneSided(lots) => OneSided(l)
  BY <1>1 DEF OneSided
<1> QED
  BY <1>1, <1>2, <1>3 DEF Stack

\* A split turns every lot in one ratio, and the units of the session in the same.
LEMMA SplitKeeps ==
    ASSUME BooksInv, NEW e \in Entries, Split(e)
    PROVE  BooksInv'
<1> DEFINE i == e.instrument
           delta == Delta(ChargesOf(e))
           lots == open[i]
           l == [k \in DOMAIN lots |-> [lots[k] EXCEPT !.quantity = (@ * e.up) \div e.down]]
           seen == Attributed(e, delta["cash"], 0)
           units == [seen.units EXCEPT ![i] = (@ * e.up) \div e.down]
           s == [seen EXCEPT !.units[i] = (@ * e.up) \div e.down]
<1>1. /\ e.kind \in {"SPLIT", "REVERSE_SPLIT"} /\ e.instrument # None
      /\ \A k \in DOMAIN lots : (lots[k].quantity * e.up) % e.down = 0
      /\ Replay(e, [open EXCEPT ![i] = l], delta, s)
  <2>1. e.kind \in {"SPLIT", "REVERSE_SPLIT"} /\ e.instrument # None
    BY DEF Split
  <2>2. /\ \A k \in DOMAIN lots : (lots[k].quantity * e.up) % e.down = 0
        /\ Replay(e, [open EXCEPT ![i] = l], delta, s)
    BY DEF Split
  <2> QED
    BY <2>1, <2>2
<1>2. AccountingTypeOK /\ session \in Session
  BY BooksTypes
<1>3. i \in Instruments /\ e.up \in Nat \ {0} /\ e.down \in Nat \ {0}
  BY <1>1, EntryIs
<1>4. lots \in Seq(Lot) /\ InOrder(lots) /\ OneSided(lots) /\ session.units[i] = Units(lots)
  BY <1>3, BooksTypes
<1>5. CapitalOf(e) = 0 /\ IncomeOf(e) = 0 /\ e.kind \notin Expenses /\ Capitalized(e) = 0
  BY <1>1, NoTrade DEF CapitalOf, IncomeOf, Expenses, Trades
<1>6. Booked(delta, e, 0, 0, 0, 0, 0)
  BY <1>2, ChargesBooked
<1> HIDE DEF delta
<1>7. \A t \in Posted : SumPostings(Postings(e), t) = delta[t]
  BY <1>2, <1>5, <1>6, PostingsBooked
<1>8. 0 + 0 = 0 + 0 + 0 + 0 + Capitalized(e)
  BY <1>5
<1>9. Balanced(delta, 0)
  BY <1>2, <1>6, <1>8, BookedBalances
<1> HIDE DEF i, lots
<1>10. \A k \in DOMAIN lots :
          /\ l[k] \in Lot /\ l[k].direction = lots[k].direction /\ l[k].basis = lots[k].basis
          /\ l[k].opened = lots[k].opened /\ e.down * l[k].quantity = e.up * lots[k].quantity
  <2> SUFFICES ASSUME NEW k \in DOMAIN lots
               PROVE  /\ l[k] \in Lot /\ l[k].direction = lots[k].direction
                      /\ l[k].basis = lots[k].basis /\ l[k].opened = lots[k].opened
                      /\ e.down * l[k].quantity = e.up * lots[k].quantity
    OBVIOUS
  <2>1. lots[k] \in Lot /\ lots[k].quantity \in Nat \ {0}
    BY <1>4, LotsAre
  <2>2. /\ (lots[k].quantity * e.up) \div e.down \in Nat \ {0}
        /\ e.down * ((lots[k].quantity * e.up) \div e.down) = e.up * lots[k].quantity
    BY <1>1, <1>3, <2>1, RatioIs
  <2> DEFINE q == (lots[k].quantity * e.up) \div e.down
  <2>3. l[k] = [lots[k] EXCEPT !.quantity = q]
    OBVIOUS
  <2>4. q \in Nat \ {0} /\ e.down * q = e.up * lots[k].quantity
    BY <2>2
  <2> HIDE DEF q, l
  <2> QED
    BY <2>1, <2>3, <2>4 DEF Lot
<1>11. l \in [1 .. Len(lots) -> Lot]
  <2>1. DOMAIN lots = 1 .. Len(lots)
    BY <1>4
  <2>2. l = [k \in DOMAIN lots |-> l[k]]
    OBVIOUS
  <2> HIDE DEF l
  <2> QED
    BY <1>10, <2>1, <2>2
<1> HIDE DEF l
<1>12. l \in Stack /\ OneSided(l)
  BY <1>4, <1>10, <1>11, InOrderSame
<1>13. Cost(l) = Cost(lots)
  BY <1>4, <1>10, <1>11, CostSame
<1>14. Units(l) = (Units(lots) * e.up) \div e.down
  <2>1. \A k \in DOMAIN lots :
           l[k].direction = lots[k].direction /\ e.down * l[k].quantity = e.up * lots[k].quantity
    BY <1>10
  <2> QED
    BY ONLY <1>3, <1>4, <1>11, <2>1, UnitsInRatio
<1>15. Units(l) \in Int /\ Cost(lots) \in Int
  BY <1>4, <1>12, UnitsType DEF Stack
<1>16. Cost(l) - Cost(lots) = 0
  BY <1>13, <1>15
<1>17. delta \in [Totals -> Int] /\ delta["cash"] \in Int /\ delta["external"] = 0
  BY <1>6 DEF Booked, Totals
<1>18. /\ Takes(seen, session, delta["cash"], 0)
       /\ seen.units = session.units /\ seen.reference = session.reference
  BY <1>2, <1>17, AttributedIs
<1> HIDE DEF seen
<1>19. /\ seen \in Session /\ seen.units = session.units /\ seen.reference \in PerInstrument
       /\ session.units \in PerInstrument
  BY <1>2, <1>18 DEF Takes, Session
<1>20. /\ units \in PerInstrument /\ units[i] = Units(l)
       /\ \A j \in Instruments \ {i} : units[j] = session.units[j]
  <2>1. (seen.units[i] * e.up) \div e.down = Units(l)
    BY <1>4, <1>14, <1>19
  <2>2. units = [session.units EXCEPT ![i] = Units(l)]
    BY <1>19, <2>1
  <2> HIDE DEF units
  <2> QED
    BY <1>3, <1>15, <1>19, <2>2 DEF PerInstrument
<1>21. Restated(s, seen, units, seen.reference)
  BY <1>19 DEF Session, Restated
<1> HIDE DEF units, s
<1>22. /\ s \in Session /\ s.units = units /\ s.worth = session.worth /\ s.flows = session.flows
       /\ SumOn(Flow(s), Instruments) + s.other
              = SumOn(Flow(session), Instruments) + session.other + delta["cash"] - delta["external"]
  BY <1>17, <1>18, <1>19, <1>20, <1>21, UnitsAside
<1>23. Balanced(delta, Cost(l) - Cost(open[i]))
  BY <1>9, <1>16 DEF lots
<1> QED
  BY <1>1, <1>3, <1>7, <1>12, <1>17, <1>20, <1>22, <1>23, LotsReplayed

\* Values of lots change by a multiple of given amounts.
Changes(val, n, lots, left, m, w) == \A k \in 1 .. n : val[left[k]] = val[lots[k]] + m * w[k]

\* Lots whose values change by a multiple of given amounts.
LEMMA TotalChanges ==
    ASSUME NEW n \in Nat, NEW lots \in [1 .. n -> Parcel], NEW left \in [1 .. n -> Parcel],
           NEW val \in [Parcel -> Int], NEW m \in Int, NEW w \in [1 .. n -> Int],
           Changes(val, n, lots, left, m, w)
    PROVE  /\ Total(val, left) = Total(val, lots) + m * SumSeq(w)
           /\ Total(val, lots) \in Int /\ SumSeq(w) \in Int
<1> DEFINE D == 1 .. n
           a == Each(val, lots)
           b == Each(val, left)
           v == [k \in D |-> m * w[k]]
<1>1. lots \in Seq(Parcel) /\ left \in Seq(Parcel) /\ DOMAIN lots = D /\ DOMAIN left = D /\ DOMAIN w = D
  OBVIOUS
<1>2. /\ Weights(a, DOMAIN lots) /\ Total(val, lots) \in Int
      /\ \A k \in DOMAIN lots : a[k] = val[lots[k]]
  BY <1>1, EachIs
<1>3. /\ Weights(b, DOMAIN left)
      /\ \A k \in DOMAIN left : b[k] = val[left[k]]
  BY <1>1, EachIs
<1>4. Total(val, lots) = SumOn(a, DOMAIN lots) /\ Total(val, left) = SumOn(b, DOMAIN left)
  BY DEF Total
<1>5. SumSeq(w) = SumOn(w, D)
  BY <1>1, SumSeqIs
<1>6. Weights(w, D)
  BY Finite DEF Weights
<1>7. \A k \in D : v[k] = m * w[k]
  OBVIOUS
<1>8. \A k \in D : b[k] = a[k] + v[k]
  BY <1>1, <1>2, <1>3, <1>7 DEF Changes
<1> HIDE DEF D, a, b, v
<1>9. Weights(v, D) /\ SumOn(v, D) = m * SumOn(w, D)
  BY ONLY <1>6, <1>7, m \in Int, SumTimes
<1>10. SumOn(b, D) = SumOn(a, D) + SumOn(v, D)
  <2>1. Weights(a, D)
    BY <1>1, <1>2
  <2> QED
    BY ONLY <1>8, <1>9, <2>1, SumAdds
<1>11. SumSeq(w) \in Int
  BY <1>5, <1>6, SumType
<1> QED
  BY <1>1, <1>2, <1>4, <1>5, <1>9, <1>10, <1>11

\* Lots that all face one way.
Face(lots, direction, sign) ==
    /\ direction \in Directions /\ sign \in Int /\ sign = IF direction = "LONG" THEN 1 ELSE -1
    /\ \A k \in DOMAIN lots : lots[k].direction = direction

\* A position has the quantities of its lots, with its sign.
LEMMA UnitsAre ==
    ASSUME NEW lots \in Seq(Lot), NEW sign, NEW direction, Face(lots, direction, sign)
    PROVE  Units(lots) = sign * SumSeq(Quantities(lots))
<1> DEFINE n == Len(lots)
           D == 1 .. n
           w == Each(SignedQuantity, lots)
           q == Quantities(lots)
<1>0. /\ direction \in Directions /\ sign \in Int /\ sign = IF direction = "LONG" THEN 1 ELSE -1
      /\ \A k \in DOMAIN lots : lots[k].direction = direction
  BY DEF Face
<1>1. n \in Nat /\ lots \in [1 .. n -> Lot] /\ DOMAIN lots = D /\ lots \in Seq(Parcel)
  BY LotIsParcel
<1>2. /\ Weights(q, 1 .. n) /\ SumSeq(q) = SumOn(q, 1 .. n)
      /\ \A k \in 1 .. n : q[k] = lots[k].quantity
  BY <1>1, QuantitiesAre
<1>3. /\ Weights(w, DOMAIN lots) /\ \A k \in DOMAIN lots : w[k] = SignedQuantity[lots[k]]
  BY <1>1, SignedType, EachIs
<1>4. Units(lots) = SumOn(w, DOMAIN lots)
  BY DEF Units, Total
<1>5. \A k \in D : w[k] = sign * q[k]
  <2> SUFFICES ASSUME NEW k \in D PROVE w[k] = sign * q[k]
    OBVIOUS
  <2>1. lots[k] \in Parcel /\ lots[k].quantity \in Nat /\ lots[k].direction = direction
    BY <1>0, <1>1, LotsAre
  <2>2. w[k] = IF direction = "LONG" THEN lots[k].quantity ELSE -lots[k].quantity
    BY <1>1, <1>3, <2>1, SignedType
  <2>3. q[k] = lots[k].quantity
    BY <1>2
  <2> HIDE DEF w, q
  <2> QED
    BY <1>0, <2>1, <2>2, <2>3
<1> HIDE DEF w, q
<1>6. SumOn(w, D) = sign * SumOn(q, D)
  BY ONLY <1>0, <1>2, <1>5, SumTimes
<1>7. SumOn(w, DOMAIN lots) = SumOn(w, D)
  BY <1>1
<1> QED
  BY <1>2, <1>4, <1>6, <1>7 DEF q

\* A lot that is matched whole gives up all its cost.
LEMMA CostMatchedIs ==
    ASSUME NEW lot \in Lot, NEW amount \in Nat
    PROVE  /\ CostMatched(lot, amount) \in Int
           /\ amount = lot.quantity => CostMatched(lot, amount) = lot.basis
<1>1. lot.basis \in Int /\ lot.quantity \in Nat \ {0}
  BY DEF Lot
<1>2. lot.basis * amount \in Int
  BY <1>1
<1>3. (lot.basis * amount) \div lot.quantity \in Int
  BY <1>1, <1>2, Quotient
<1> QED
  BY <1>1, <1>3 DEF CostMatched

\* What is left of the lots, when amounts of them and what these cost are gone.
Leaves(lots, amounts, cost, left, n) ==
    /\ n \in Nat /\ lots \in [1 .. n -> Lot] /\ amounts \in [1 .. n -> Nat] /\ cost \in [1 .. n -> Int]
    /\ \A k \in 1 .. n :
          /\ amounts[k] <= lots[k].quantity
          /\ amounts[k] = lots[k].quantity => cost[k] = lots[k].basis
    /\ left = [k \in 1 .. n |-> [lots[k] EXCEPT !.quantity = @ - amounts[k], !.basis = @ - cost[k]]]

\* What is left of a lot: its date, its direction and the difference.
LEMMA LeftIs ==
    ASSUME NEW n, NEW lots, NEW amounts, NEW cost, NEW left, Leaves(lots, amounts, cost, left, n)
    PROVE  /\ left \in [1 .. n -> Parcel]
           /\ \A k \in 1 .. n :
                 /\ left[k].opened = lots[k].opened /\ left[k].direction = lots[k].direction
                 /\ left[k].quantity = lots[k].quantity - amounts[k]
                 /\ left[k].basis = lots[k].basis - cost[k]
<1> SUFFICES ASSUME NEW k \in 1 .. n
             PROVE  /\ [lots[k] EXCEPT !.quantity = @ - amounts[k], !.basis = @ - cost[k]] \in Parcel
                    /\ left[k].opened = lots[k].opened /\ left[k].direction = lots[k].direction
                    /\ left[k].quantity = lots[k].quantity - amounts[k]
                    /\ left[k].basis = lots[k].basis - cost[k]
  BY DEF Leaves
<1>1. lots[k] \in Lot /\ amounts[k] \in Nat /\ cost[k] \in Int /\ amounts[k] <= lots[k].quantity
  <2>1. lots[k] \in Lot /\ amounts[k] \in Nat /\ cost[k] \in Int
    BY DEF Leaves
  <2>2. amounts[k] <= lots[k].quantity
    BY DEF Leaves
  <2> QED
    BY <2>1, <2>2
<1>2. lots[k].quantity \in Nat /\ lots[k].basis \in Int
  BY <1>1 DEF Lot
<1>3. left[k] = [lots[k] EXCEPT !.quantity = @ - amounts[k], !.basis = @ - cost[k]]
  BY DEF Leaves
<1>4. lots[k].quantity - amounts[k] \in Nat /\ lots[k].basis - cost[k] \in Int
  BY <1>1, <1>2
<1> QED
  BY <1>1, <1>3, <1>4 DEF Lot, Parcel

\* What is left of lots that face one way, and are in order.
LEMMA LotsClosed ==
    ASSUME NEW lots \in Stack, NEW sign, NEW direction, Face(lots, direction, sign),
           NEW n, NEW amounts, NEW cost, NEW left, Leaves(lots, amounts, cost, left, n)
    PROVE  /\ StillOpen(left) \in Stack /\ OneSided(StillOpen(left))
           /\ Units(StillOpen(left)) = Units(lots) - sign * SumSeq(amounts)
           /\ Cost(StillOpen(left)) = Cost(lots) - sign * SumSeq(cost)
           /\ SumSeq(amounts) \in Int /\ SumSeq(cost) \in Int
           /\ Units(lots) \in Int /\ Cost(lots) \in Int
<1>0. /\ direction \in Directions /\ sign \in Int /\ sign = IF direction = "LONG" THEN 1 ELSE -1
      /\ \A k \in DOMAIN lots : lots[k].direction = direction
  BY DEF Face
<1>1. /\ lots \in Seq(Lot) /\ InOrder(lots) /\ n \in Nat /\ lots \in [1 .. n -> Lot]
      /\ DOMAIN lots = 1 .. n
      /\ amounts \in [1 .. n -> Nat] /\ cost \in [1 .. n -> Int]
  BY DEF Stack, Leaves
<1>2. lots \in [1 .. n -> Parcel]
  BY <1>1, LotIsParcel
<1>3. /\ left \in [1 .. n -> Parcel]
      /\ \A k \in 1 .. n :
            /\ left[k].opened = lots[k].opened /\ left[k].direction = lots[k].direction
            /\ left[k].quantity = lots[k].quantity - amounts[k]
            /\ left[k].basis = lots[k].basis - cost[k]
  BY LeftIs
<1>4. \A j, k \in 1 .. n : j < k => left[j].opened <= left[k].opened
  BY <1>1, <1>3 DEF InOrder
<1>5. SignedQuantity \in [Parcel -> Int] /\ SignedBasis \in [Parcel -> Int]
  BY SignedType
<1>6. \A k \in 1 .. n :
         /\ lots[k] \in Parcel /\ lots[k].quantity \in Nat /\ lots[k].basis \in Int
         /\ lots[k].direction = direction
         /\ left[k] \in Parcel /\ left[k].direction = direction
         /\ amounts[k] \in Nat /\ cost[k] \in Int
  BY <1>0, <1>1, <1>2, <1>3, LotsAre
<1>7. \A k \in 1 .. n : left[k].quantity = 0 => SignedQuantity[left[k]] = 0 /\ SignedBasis[left[k]] = 0
  <2> SUFFICES ASSUME NEW k \in 1 .. n, left[k].quantity = 0
               PROVE  SignedQuantity[left[k]] = 0 /\ SignedBasis[left[k]] = 0
    OBVIOUS
  <2>0. /\ left[k].quantity = lots[k].quantity - amounts[k] /\ left[k].basis = lots[k].basis - cost[k]
        /\ lots[k].quantity \in Nat /\ amounts[k] \in Nat /\ lots[k].basis \in Int /\ cost[k] \in Int
    BY <1>3, <1>6
  <2>1. amounts[k] = lots[k].quantity
    <3>1. lots[k].quantity - amounts[k] = 0
      BY <2>0
    <3> DEFINE a == lots[k].quantity
               b == amounts[k]
    <3>2. a \in Int /\ b \in Int /\ a - b = 0
      BY <2>0, <3>1
    <3> HIDE DEF a, b
    <3>3. a = b
      BY <3>2
    <3> QED
      BY <3>3 DEF a, b
  <2>2. left[k].basis = 0
    <3>1. cost[k] = lots[k].basis
      BY <2>1 DEF Leaves
    <3> QED
      BY <2>0, <3>1
  <2> QED
    BY <1>6, <2>2, SignedType
<1> DEFINE l == StillOpen(left)
<1>a. /\ \A k \in 1 .. n : left[k].quantity = 0 => SignedQuantity[left[k]] = 0
      /\ \A k \in 1 .. n : left[k].quantity = 0 => SignedBasis[left[k]] = 0
      /\ n \in Nat /\ left \in [1 .. n -> Parcel]
  BY <1>1, <1>3, <1>7
<1>8. /\ l \in Stack /\ \A i \in DOMAIN l : \E k \in 1 .. n : l[i] = left[k]
      /\ Total(SignedQuantity, l) = Total(SignedQuantity, left)
  BY ONLY <1>4, <1>5, <1>a, StillOpenIs
<1>9. Total(SignedBasis, l) = Total(SignedBasis, left)
  BY ONLY <1>4, <1>5, <1>a, StillOpenIs
<1> HIDE DEF l
<1>10. OneSided(l)
  BY <1>6, <1>8 DEF OneSided
<1> DEFINE m == 0 - sign
<1>11. m \in Int /\ ((direction = "LONG" /\ sign = 1 /\ m = -1) \/ (direction = "SHORT" /\ sign = -1 /\ m = 1))
  <2>1. CASE direction = "LONG"
    BY <1>0, <2>1
  <2>2. CASE direction = "SHORT"
    <3>1. sign = -1
      BY <1>0, <2>2
    <3>3. m = 1
      BY <3>1
    <3> HIDE DEF m
    <3> QED
      BY <2>2, <3>1, <3>3
  <2> QED
    BY <1>0, <2>1, <2>2 DEF Directions
<1> HIDE DEF m
<1>12. \A k \in 1 .. n : /\ SignedQuantity[left[k]] = SignedQuantity[lots[k]] + m * amounts[k]
                         /\ SignedBasis[left[k]] = SignedBasis[lots[k]] + m * cost[k]
  <2> SUFFICES ASSUME NEW k \in 1 .. n
               PROVE  /\ SignedQuantity[left[k]] = SignedQuantity[lots[k]] + m * amounts[k]
                      /\ SignedBasis[left[k]] = SignedBasis[lots[k]] + m * cost[k]
    OBVIOUS
  <2>1. CASE direction = "LONG" /\ m = -1
    <3>1. /\ SignedQuantity[left[k]] = lots[k].quantity - amounts[k]
          /\ SignedBasis[left[k]] = lots[k].basis - cost[k]
          /\ SignedQuantity[lots[k]] = lots[k].quantity /\ SignedBasis[lots[k]] = lots[k].basis
      BY <1>3, <1>6, <2>1, LotSigned
    <3> QED
      BY <1>6, <2>1, <3>1
  <2>2. CASE direction = "SHORT" /\ m = 1
    <3>1. /\ SignedQuantity[left[k]] = -(lots[k].quantity - amounts[k])
          /\ SignedBasis[left[k]] = -(lots[k].basis - cost[k])
          /\ SignedQuantity[lots[k]] = -lots[k].quantity /\ SignedBasis[lots[k]] = -lots[k].basis
      BY <1>3, <1>6, <2>2, LotSigned
    <3> QED
      BY <1>6, <2>2, <3>1
  <2> QED
    BY <1>11, <2>1, <2>2
<1>13. /\ Total(SignedQuantity, left) = Total(SignedQuantity, lots) + m * SumSeq(amounts)
       /\ Total(SignedQuantity, lots) \in Int /\ SumSeq(amounts) \in Int
  <2>1. Changes(SignedQuantity, n, lots, left, m, amounts)
    BY <1>12 DEF Changes
  <2>2. amounts \in [1 .. n -> Int] /\ m \in Int /\ SignedQuantity \in [Parcel -> Int]
    BY <1>1, <1>5, <1>11
  <2> QED
    BY ONLY <1>2, <1>a, <2>1, <2>2, TotalChanges
<1>14. /\ Total(SignedBasis, left) = Total(SignedBasis, lots) + m * SumSeq(cost)
       /\ Total(SignedBasis, lots) \in Int /\ SumSeq(cost) \in Int
  <2>1. Changes(SignedBasis, n, lots, left, m, cost)
    BY <1>12 DEF Changes
  <2>2. m \in Int /\ SignedBasis \in [Parcel -> Int]
    BY <1>5, <1>11
  <2> QED
    BY ONLY <1>1, <1>2, <1>a, <2>1, <2>2, TotalChanges
<1>15. Units(l) = Units(lots) - sign * SumSeq(amounts) /\ Units(lots) \in Int
  <2>1. Units(l) = Units(lots) + m * SumSeq(amounts) /\ Units(lots) \in Int
    BY <1>8, <1>13 DEF Units
  <2> QED
    BY <1>11, <1>13, <2>1 DEF m
<1>16. Cost(l) = Cost(lots) - sign * SumSeq(cost) /\ Cost(lots) \in Int
  <2>1. Cost(l) = Cost(lots) + m * SumSeq(cost) /\ Cost(lots) \in Int
    BY <1>9, <1>14 DEF Cost
  <2> QED
    BY <1>11, <1>14, <2>1 DEF m
<1> QED
  BY <1>8, <1>10, <1>13, <1>14, <1>15, <1>16 DEF l

\* Lots are matched: what is realised is the proceeds less the cost that leaves.
LEMMA ClosePositionKeeps ==
    ASSUME BooksInv, NEW e \in Entries, ClosePosition(e)
    PROVE  BooksInv'
<1> DEFINE i == e.instrument
           direction == IF e.kind = "COVER" THEN "SHORT" ELSE "LONG"
           sign == IF e.kind = "COVER" THEN -1 ELSE 1
           lots == open[i]
           n == Len(lots)
           amounts == Matched(lots, e.quantity)
           proceeds == Allocate(e.gross - sign * Capitalized(e), amounts)
           cost == [k \in DOMAIN lots |-> CostMatched(lots[k], amounts[k])]
           left == [k \in DOMAIN lots |-> [lots[k] EXCEPT !.quantity = @ - amounts[k],
                                                          !.basis = @ - cost[k]]]
           moved == IF e.kind = "TRANSFER_OUT" THEN 0 ELSE sign * e.gross
           external == IF e.kind = "TRANSFER_OUT" THEN -e.gross ELSE 0
           realised == sign * (SumSeq(proceeds) - SumSeq(cost))
           fields == [cash |-> moved, external |-> external, realised |-> realised]
           delta == Plus(Delta(ChargesOf(e)), fields)
           seen == Attributed(e, delta["cash"], external)
           held == session.units[i]
           abs == IF held < 0 THEN -held ELSE held
           l == StillOpen(left)
           units == [seen.units EXCEPT ![i] = @ - sign * e.quantity]
           reference == [seen.reference EXCEPT ![i] = (@ * (abs - e.quantity)) \div abs]
           s == [seen EXCEPT !.units[i] = @ - sign * e.quantity,
                             !.reference[i] = (@ * (abs - e.quantity)) \div abs]
           K == {"cash", "external", "realised"}
<1>1. /\ e.kind \in {"SELL", "COVER", "TRANSFER_OUT"} /\ e.instrument # None
      /\ e.quantity > 0 /\ e.gross > 0
  BY DEF ClosePosition
<1>2. /\ \A k \in DOMAIN lots : lots[k].direction = direction
      /\ e.quantity <= SumSeq(Quantities(lots))
      /\ Whole(lots, e.quantity)
      /\ Replay(e, [open EXCEPT ![i] = l], delta, s)
  BY DEF ClosePosition
<1>3. AccountingTypeOK /\ session \in Session /\ policy.method \in {"AVERAGE", "FIFO"}
  BY BooksTypes DEF AccountingTypeOK
<1>4. i \in Instruments /\ e.gross \in Nat \ {0} /\ e.quantity \in Nat \ {0} /\ Capitalized(e) \in Nat
  BY <1>1, <1>3, EntryIs, ChargesAre
<1>5. lots \in Stack /\ lots \in Seq(Lot) /\ session.units[i] = Units(lots)
  BY <1>4, BooksTypes DEF Stack
<1>6. (sign = 1 /\ direction = "LONG") \/ (sign = -1 /\ direction = "SHORT")
  OBVIOUS
<1>7. \/ e.kind = "SELL" /\ sign = 1 /\ moved = 1 * e.gross /\ external = 0
      \/ e.kind = "COVER" /\ sign = -1 /\ moved = (-1) * e.gross /\ external = 0
      \/ e.kind = "TRANSFER_OUT" /\ sign = 1 /\ moved = 0 /\ external = -e.gross
  BY <1>1
<1>8. external = CapitalOf(e) /\ IncomeOf(e) = 0 /\ e.kind \notin Expenses
  BY <1>1 DEF CapitalOf, IncomeOf, Expenses
<1>9. e.kind = "TRANSFER_OUT" => Capitalized(e) = 0
  BY NoTrade DEF Trades
<1>10. direction \in Directions /\ sign \in Int /\ sign = IF direction = "LONG" THEN 1 ELSE -1
  BY <1>6 DEF Directions
<1>11. n \in Nat /\ lots \in [1 .. n -> Lot] /\ DOMAIN lots = 1 .. n
  BY <1>5, LotsAre
<1>12. Replay(e, [open EXCEPT ![i] = l], delta, s)
  BY <1>2
<1> HIDE DEF i, direction, sign, moved, external, lots, n
<1>13. /\ amounts \in [1 .. n -> Nat] /\ SumSeq(amounts) = e.quantity
       /\ \A k \in 1 .. n : amounts[k] <= lots[k].quantity
  <2>1. e.quantity <= SumSeq(Quantities(lots)) /\ Whole(lots, e.quantity)
    BY <1>2
  <2> HIDE DEF Whole
  <2> QED
    BY ONLY <1>3, <1>4, <1>11, <2>1, MatchedIs
<1> HIDE DEF amounts
<1>14. SumSeq(proceeds) = e.gross - sign * Capitalized(e)
  <2>1. SumSeq(amounts) > 0
    BY <1>4, <1>13
  <2>2. e.gross - sign * Capitalized(e) \in Int
    BY <1>4, <1>10
  <2> QED
    BY <1>11, <1>13, <2>1, <2>2, AllocateIs
<1>15. /\ cost \in [1 .. n -> Int]
       /\ \A k \in 1 .. n : amounts[k] = lots[k].quantity => cost[k] = lots[k].basis
  BY <1>11, <1>13, CostMatchedIs
<1>16. Leaves(lots, amounts, cost, left, n)
  <2> HIDE DEF cost
  <2> QED
    BY <1>11, <1>13, <1>15 DEF Leaves
<1> HIDE DEF cost, left, proceeds
<1>17. /\ l \in Stack /\ OneSided(l)
       /\ Units(l) = Units(lots) - sign * SumSeq(amounts)
       /\ Cost(l) = Cost(lots) - sign * SumSeq(cost)
       /\ SumSeq(cost) \in Int
       /\ Units(lots) \in Int /\ Cost(lots) \in Int
  <2>1. Face(lots, direction, sign)
    BY <1>2, <1>10 DEF Face
  <2> QED
    BY <1>5, <1>16, <2>1, LotsClosed
<1> HIDE DEF l
<1>18. realised = sign * e.gross - Capitalized(e) - sign * SumSeq(cost) /\ realised \in Int
  <2> DEFINE k == SumSeq(cost)
  <2>1. k \in Int /\ realised = sign * ((e.gross - sign * Capitalized(e)) - k)
    BY <1>14, <1>17
  <2> HIDE DEF k, realised
  <2>2. realised = sign * e.gross - Capitalized(e) - sign * k /\ realised \in Int
    <3>1. CASE sign = 1
      BY <1>4, <2>1, <3>1
    <3>2. CASE sign = -1
      BY <1>4, <2>1, <3>2
    <3> QED
      BY <1>6, <3>1, <3>2
  <2> QED
    BY <2>2 DEF k
<1> HIDE DEF realised
<1>19. moved \in Int /\ external \in Int
  BY <1>4, <1>7
<1>20. /\ fields \in [K -> Int] /\ fields["cash"] = moved /\ fields["external"] = external
       /\ fields["realised"] = realised
  BY <1>18, <1>19
<1>21. /\ K \subseteq {"cash", "external", "income", "realised", "adjustments"}
       /\ "cash" \in K /\ "external" \in K /\ "income" \notin K /\ "realised" \in K
       /\ "adjustments" \notin K
  OBVIOUS
<1> HIDE DEF K, fields
<1>22. Booked(delta, e, moved, external, 0, realised, 0)
  BY <1>3, <1>20, <1>21, FieldsBooked
<1> HIDE DEF delta
<1>23. \A t \in Posted : SumPostings(Postings(e), t) = delta[t]
  BY <1>3, <1>8, <1>22, PostingsBooked
<1> DEFINE c == Cost(l) - Cost(lots)
           spent == sign * SumSeq(cost)
<1>24. c = -spent /\ c \in Int /\ spent \in Int /\ realised = sign * e.gross - Capitalized(e) - spent
  <2>1. spent \in Int
    BY <1>10, <1>17
  <2>2. Cost(l) = Cost(lots) - spent /\ Cost(lots) \in Int
    BY <1>17
  <2>3. realised = sign * e.gross - Capitalized(e) - spent
    BY <1>18
  <2> HIDE DEF spent
  <2> QED
    BY <2>1, <2>2, <2>3
<1> HIDE DEF c, spent
<1>25. moved + c = external + 0 + realised + 0 + Capitalized(e)
  <2>1. CASE e.kind = "SELL" /\ sign = 1 /\ moved = 1 * e.gross /\ external = 0
    BY <1>4, <1>24, <2>1
  <2>2. CASE e.kind = "COVER" /\ sign = -1 /\ moved = (-1) * e.gross /\ external = 0
    BY <1>4, <1>24, <2>2
  <2>3. CASE e.kind = "TRANSFER_OUT" /\ sign = 1 /\ moved = 0 /\ external = -e.gross
    BY <1>4, <1>9, <1>24, <2>3
  <2> QED
    BY <1>7, <2>1, <2>2, <2>3
<1>26. Balanced(delta, c)
  BY <1>3, <1>18, <1>19, <1>22, <1>24, <1>25, BookedBalances
<1>27. delta \in [Totals -> Int] /\ delta["cash"] \in Int /\ delta["external"] = external
  BY <1>22 DEF Booked, Totals
<1>28. /\ Takes(seen, session, delta["cash"], external)
       /\ seen.units = session.units /\ seen.reference = session.reference
  BY <1>3, <1>19, <1>27, AttributedIs
<1> HIDE DEF seen
<1>29. /\ seen \in Session /\ seen.units = session.units /\ seen.reference = session.reference
       /\ session.units \in PerInstrument /\ session.reference \in PerInstrument
  BY <1>3, <1>28 DEF Takes, Session
<1>30. abs \in Nat \ {0}
  <2>1. Units(lots) = sign * SumSeq(Quantities(lots))
    <3>1. Face(lots, direction, sign)
      BY <1>2, <1>10 DEF Face
    <3> QED
      BY <1>5, <3>1, UnitsAre
  <2>2. SumSeq(Quantities(lots)) \in Nat \ {0}
    <3>1. SumSeq(Quantities(lots)) \in Nat
      BY <1>11, QuantitiesAre
    <3> QED
      BY <1>2, <1>4, <3>1
  <2>3. held \in Int /\ held # 0
    BY <1>5, <1>6, <2>1, <2>2
  <2> HIDE DEF held
  <2> QED
    BY <2>3
<1> HIDE DEF abs, held
<1>31. units \in PerInstrument /\ reference \in PerInstrument
  <2>1. sign * e.quantity \in Int
    BY <1>4, <1>10
  <2>2. (seen.reference[i] * (abs - e.quantity)) \div abs \in Int
    <3>1. seen.reference[i] \in Int /\ abs - e.quantity \in Int
      BY <1>4, <1>29, <1>30 DEF PerInstrument
    <3>2. seen.reference[i] * (abs - e.quantity) \in Int
      BY <3>1
    <3> QED
      BY <1>30, <3>2, Quotient
  <2>3. seen.units[i] - sign * e.quantity \in Int
    BY <1>4, <1>29, <2>1 DEF PerInstrument
  <2>4. seen.units \in PerInstrument /\ seen.reference \in PerInstrument
    BY <1>29
  <2> QED
    BY <1>4, <2>2, <2>3, <2>4 DEF PerInstrument
<1>32. /\ units[i] = session.units[i] - sign * e.quantity
       /\ \A j \in Instruments \ {i} : units[j] = session.units[j]
  BY <1>4, <1>29 DEF PerInstrument
<1>33. Restated(s, seen, units, reference)
  BY <1>29 DEF Session, Restated
<1> HIDE DEF units, reference, s
<1>34. /\ s \in Session /\ s.units = units /\ s.worth = session.worth /\ s.flows = session.flows
       /\ SumOn(Flow(s), Instruments) + s.other
              = SumOn(Flow(session), Instruments) + session.other + delta["cash"] - delta["external"]
  <2>1. /\ s \in Session /\ s.units = units /\ s.worth = session.worth /\ s.flows = session.flows
        /\ SumOn(Flow(s), Instruments) + s.other
               = SumOn(Flow(session), Instruments) + session.other + delta["cash"] - external
    BY ONLY <1>28, <1>29, <1>31, <1>33, UnitsAside
  <2> QED
    BY <1>27, <2>1
<1>35. s.units[i] = Units(l) /\ \A j \in Instruments \ {i} : s.units[j] = session.units[j]
  BY <1>5, <1>13, <1>17, <1>32, <1>34
<1>36. Balanced(delta, Cost(l) - Cost(open[i]))
  BY <1>26 DEF c, lots
<1> QED
  BY <1>4, <1>12, <1>17, <1>23, <1>27, <1>34, <1>35, <1>36, LotsReplayed

\* The lots of two instruments are replaced.
LEMMA TwoLotsReplayed ==
    ASSUME BooksInv, NEW e \in Entries, NEW i \in Instruments, NEW j \in Instruments, i # j,
           NEW l \in Stack, OneSided(l), NEW m \in Stack, OneSided(m),
           NEW delta \in [Totals -> Int],
           NEW c \in Int, c = (Cost(l) - Cost(open[i])) + (Cost(m) - Cost(open[j])), Balanced(delta, c),
           \A t \in Posted : SumPostings(Postings(e), t) = delta[t],
           NEW s \in Session, s.worth = session.worth, s.flows = session.flows,
           s.units[i] = Units(l), s.units[j] = Units(m),
           \A k \in Instruments \ {i, j} : s.units[k] = session.units[k],
           SumOn(Flow(s), Instruments) + s.other =
               SumOn(Flow(session), Instruments) + session.other + delta["cash"] - delta["external"],
           Replay(e, [open EXCEPT ![i] = l, ![j] = m], delta, s)
    PROVE  BooksInv'
<1> DEFINE mid == [open EXCEPT ![i] = l]
           lots == [mid EXCEPT ![j] = m]
<1>1. l \in Seq(Lot) /\ InOrder(l) /\ m \in Seq(Lot) /\ InOrder(m)
  BY DEF Stack
<1>2. /\ mid \in [Instruments -> Seq(Lot)] /\ mid[i] = l
      /\ \A k \in Instruments \ {i} : mid[k] = open[k]
      /\ Cost(l) \in Int /\ Cost(open[i]) \in Int
      /\ SumOn(Costs(mid), Instruments) = SumOn(Costs(open), Instruments) + (Cost(l) - Cost(open[i]))
  BY <1>1, BooksTypes, OneChanged
<1>3. Replay(e, lots, delta, s)
  <2>1. open \in [Instruments -> Seq(Lot)]
    BY BooksTypes
  <2>2. lots = [open EXCEPT ![i] = l, ![j] = m]
    BY <2>1
  <2> QED
    BY <2>2
<1> HIDE DEF mid
<1>4. /\ lots \in [Instruments -> Seq(Lot)] /\ lots[j] = m
      /\ \A k \in Instruments \ {j} : lots[k] = mid[k]
      /\ Cost(m) \in Int /\ Cost(mid[j]) \in Int
      /\ SumOn(Costs(lots), Instruments) = SumOn(Costs(mid), Instruments) + (Cost(m) - Cost(mid[j]))
  <2>1. mid \in [Instruments -> Seq(Lot)] /\ m \in Seq(Lot) /\ j \in Instruments
    BY <1>1, <1>2
  <2> QED
    BY ONLY <2>1, OneChanged
<1> HIDE DEF lots
<1>5. mid[j] = open[j]
  BY <1>2
<1>6. SumOn(Costs(lots), Instruments) = SumOn(Costs(open), Instruments) + c
  <2> DEFINE a == Cost(l) - Cost(open[i])
             b == Cost(m) - Cost(open[j])
             x == SumOn(Costs(open), Instruments)
             y == SumOn(Costs(mid), Instruments)
  <2>1. /\ a \in Int /\ b \in Int /\ x \in Int /\ y = x + a /\ c = a + b
        /\ SumOn(Costs(lots), Instruments) = y + b
    <3>1. a \in Int /\ y = x + a
      BY <1>2
    <3>2. b \in Int
      BY <1>4, <1>5
    <3>3. x \in Int
      BY BooksTypes
    <3>4. c = a + b
      OBVIOUS
    <3>5. SumOn(Costs(lots), Instruments) = y + b
      BY <1>4, <1>5
    <3> QED
      BY <3>1, <3>2, <3>3, <3>4, <3>5
  <2> HIDE DEF a, b, x, y
  <2>2. SumOn(Costs(lots), Instruments) = x + c
    BY <2>1
  <2> QED
    BY <2>2 DEF x
<1>7. \A k \in Instruments : InOrder(lots[k]) /\ OneSided(lots[k]) /\ s.units[k] = Units(lots[k])
  <2> SUFFICES ASSUME NEW k \in Instruments
               PROVE  InOrder(lots[k]) /\ OneSided(lots[k]) /\ s.units[k] = Units(lots[k])
    OBVIOUS
  <2>1. CASE k = i
    BY <1>1, <1>2, <1>4, <2>1
  <2>2. CASE k = j
    BY <1>1, <1>4, <2>2
  <2>3. CASE k \notin {i, j}
    BY <1>2, <1>4, <2>3, BooksTypes
  <2> QED
    BY <2>1, <2>2, <2>3
<1> QED
  BY <1>3, <1>4, <1>6, <1>7, ReplayKeeps

\* The values of lots are given.
LotValues(val, n, lots, w) == \A k \in 1 .. n : val[lots[k]] = w[k]

LEMMA TotalIs ==
    ASSUME NEW n \in Nat, NEW lots \in [1 .. n -> Parcel], NEW val \in [Parcel -> Int],
           NEW w \in [1 .. n -> Int], LotValues(val, n, lots, w)
    PROVE  Total(val, lots) = SumSeq(w)
<1> DEFINE D == 1 .. n
           a == Each(val, lots)
<1>1. lots \in Seq(Parcel) /\ DOMAIN lots = D /\ DOMAIN w = D
  OBVIOUS
<1>2. Weights(a, DOMAIN lots) /\ \A k \in DOMAIN lots : a[k] = val[lots[k]]
  BY <1>1, EachIs
<1>3. Total(val, lots) = SumOn(a, DOMAIN lots)
  BY DEF Total
<1>4. \A k \in D : w[k] = a[k]
  BY <1>1, <1>2 DEF LotValues
<1>5. SumSeq(w) = SumOn(w, D)
  BY <1>1, SumSeqIs
<1> HIDE DEF a, D
<1>6. Weights(a, D)
  BY <1>1, <1>2
<1>7. SumOn(w, D) = SumOn(a, D)
  BY <1>4, <1>6, SumSame
<1>8. Total(val, lots) = SumOn(a, D)
  BY <1>1, <1>3
<1> QED
  BY <1>5, <1>7, <1>8

\* Part of the cost of every lot: a share of it in percent.
PartOf(lots, percent) == [k \in DOMAIN lots |-> (lots[k].basis * percent) \div 100]

\* Parts of the cost are integers; giving one up reduces the cost by it.
LEMMA PartIs ==
    ASSUME NEW lots \in Seq(Lot), NEW percent \in Int
    PROVE  PartOf(lots, percent) \in [1 .. Len(lots) -> Int]
<1>1. DOMAIN lots = 1 .. Len(lots) /\ \A k \in DOMAIN lots : lots[k].basis \in Int
  BY LotsAre
<1>2. \A k \in DOMAIN lots : (lots[k].basis * percent) \div 100 \in Int
  <2> SUFFICES ASSUME NEW k \in DOMAIN lots PROVE (lots[k].basis * percent) \div 100 \in Int
    OBVIOUS
  <2>1. lots[k].basis * percent \in Int /\ 100 \in Nat \ {0}
    BY <1>1
  <2> QED
    BY <2>1, Quotient
<1> QED
  BY <1>1, <1>2 DEF PartOf

\* Long lots that give up a part of their cost.
Reduced(lots, left, part) ==
    /\ left \in [1 .. Len(lots) -> Lot] /\ part \in [1 .. Len(lots) -> Int]
    /\ \A k \in DOMAIN lots : /\ lots[k].direction = "LONG"
                              /\ left[k].direction = lots[k].direction
                              /\ left[k].basis = lots[k].basis - part[k]

LEMMA CostReduced ==
    ASSUME NEW lots \in Seq(Lot), NEW left, NEW part, Reduced(lots, left, part)
    PROVE  Cost(left) = Cost(lots) - SumSeq(part) /\ Cost(lots) \in Int /\ SumSeq(part) \in Int
<1> DEFINE n == Len(lots)
           m == 0 - 1
<1>1. /\ n \in Nat /\ lots \in [1 .. n -> Parcel] /\ DOMAIN lots = 1 .. n
      /\ left \in [1 .. n -> Lot] /\ part \in [1 .. n -> Int]
  BY LotIsParcel DEF Reduced
<1>2. left \in [1 .. n -> Parcel]
  BY <1>1, LotIsParcel
<1>3. m \in Int /\ m = -1
  OBVIOUS
<1> HIDE DEF m
<1>4. Changes(SignedBasis, n, lots, left, m, part)
  <2> SUFFICES ASSUME NEW k \in 1 .. n
               PROVE  SignedBasis[left[k]] = SignedBasis[lots[k]] + m * part[k]
    BY DEF Changes
  <2>1. /\ lots[k] \in Parcel /\ left[k] \in Parcel /\ lots[k].direction = "LONG"
        /\ left[k].direction = "LONG" /\ left[k].basis = lots[k].basis - part[k]
    BY <1>1, <1>2 DEF Reduced
  <2>2. SignedBasis[left[k]] = left[k].basis /\ SignedBasis[lots[k]] = lots[k].basis
    BY <2>1, LotSigned
  <2>3. lots[k].basis \in Int /\ part[k] \in Int
    BY <1>1, LotsAre
  <2> QED
    BY <1>3, <2>1, <2>2, <2>3
<1> HIDE DEF n
<1>5. SignedBasis \in [Parcel -> Int]
  BY SignedType
<1>6. /\ Total(SignedBasis, left) = Total(SignedBasis, lots) + m * SumSeq(part)
      /\ Total(SignedBasis, lots) \in Int /\ SumSeq(part) \in Int
  BY ONLY <1>1, <1>2, <1>3, <1>4, <1>5, TotalChanges
<1> QED
  BY <1>3, <1>6 DEF Cost

\* Long lots that join the lots of another instrument.
LEMMA JoinedIs ==
    ASSUME NEW lots \in Seq(Lot), InOrder(lots), LongOnly(lots),
           NEW n \in Nat, NEW more \in [1 .. n -> Lot], \A k \in 1 .. n : more[k].direction = "LONG"
    PROVE  /\ InsertAll(lots, more) \in Stack /\ OneSided(InsertAll(lots, more))
           /\ Units(InsertAll(lots, more)) = Units(lots) + Total(SignedQuantity, more)
           /\ Cost(InsertAll(lots, more)) = Cost(lots) + Cost(more)
<1> DEFINE l == InsertAll(lots, more)
<1>1. lots \in Longs
  BY DEF Longs, Stack
<1>2. /\ l \in Longs
      /\ Total(SignedQuantity, l) = Total(SignedQuantity, lots) + Total(SignedQuantity, more)
  BY <1>1, SignedType, InsertAllIs
<1>3. Total(SignedBasis, l) = Total(SignedBasis, lots) + Total(SignedBasis, more)
  BY <1>1, SignedType, InsertAllIs
<1> HIDE DEF l
<1>4. l \in Stack /\ OneSided(l)
  BY <1>2 DEF Longs, LongOnly, OneSided
<1> QED
  BY <1>2, <1>3, <1>4 DEF Units, Cost, l

\* A spinoff: the child's units are shared out over the parent's lots, cost moves with
\* them, none is lost.
LEMMA SpinoffKeeps ==
    ASSUME BooksInv, NEW e \in Entries, Spinoff(e)
    PROVE  BooksInv'
<1> DEFINE i == e.instrument
           j == e.child
           parent == open[i]
           n == Len(parent)
           shares == Allocate(e.quantity, Quantities(parent))
           part == [k \in DOMAIN parent |-> (parent[k].basis * e.percent) \div 100]
           spun == [k \in DOMAIN parent |-> [parent[k] EXCEPT !.quantity = shares[k],
                                                              !.basis = part[k]]]
           kept == [k \in DOMAIN parent |-> [parent[k] EXCEPT !.basis = @ - part[k]]]
           delta == Delta(ChargesOf(e))
           base == Attributed(e, delta["cash"], 0)
           seen == Transferred(base, e, e.percent)
           more == InsertAll(open[j], spun)
           units == [seen.units EXCEPT ![j] = @ + e.quantity]
           s == [seen EXCEPT !.units[j] = @ + e.quantity]
<1>1. /\ e.kind = "SPINOFF" /\ e.instrument # None /\ e.child \notin {None, e.instrument}
      /\ e.quantity > 0
  BY DEF Spinoff
<1>2. /\ parent # <<>> /\ LongOnly(parent) /\ LongOnly(open[j])
      /\ \A k \in DOMAIN parent : (e.quantity * parent[k].quantity) % SumSeq(Quantities(parent)) = 0
      /\ Replay(e, [open EXCEPT ![i] = kept, ![j] = more], delta, s)
  <2>1. /\ parent # <<>> /\ LongOnly(parent) /\ LongOnly(open[j])
        /\ \A k \in DOMAIN parent : (e.quantity * parent[k].quantity) % SumSeq(Quantities(parent)) = 0
    BY DEF Spinoff
  <2>2. Replay(e, [open EXCEPT ![i] = kept, ![j] = more], delta, s)
    <3>1. Replay(e, [open EXCEPT ![i] = kept, ![j] = InsertAll(open[j], spun)], delta,
                 [seen EXCEPT !.units[j] = @ + e.quantity])
      BY DEF Spinoff
    <3> QED
      BY <3>1
  <2> QED
    BY <2>1, <2>2
<1>3. AccountingTypeOK /\ session \in Session
  BY BooksTypes
<1>4. /\ i \in Instruments /\ j \in Instruments /\ i # j /\ e.quantity \in Nat \ {0}
      /\ e.percent \in Int
  BY <1>1, EntryIs
<1>5. /\ parent \in Seq(Lot) /\ InOrder(parent) /\ OneSided(parent) /\ session.units[i] = Units(parent)
      /\ open[j] \in Seq(Lot) /\ InOrder(open[j]) /\ session.units[j] = Units(open[j])
  BY <1>4, BooksTypes
<1>6. CapitalOf(e) = 0 /\ IncomeOf(e) = 0 /\ e.kind \notin Expenses /\ Capitalized(e) = 0
  BY <1>1, NoTrade DEF CapitalOf, IncomeOf, Expenses, Trades
<1>7. Booked(delta, e, 0, 0, 0, 0, 0)
  BY <1>3, ChargesBooked
<1> HIDE DEF delta
<1>8. \A t \in Posted : SumPostings(Postings(e), t) = delta[t]
  BY <1>3, <1>6, <1>7, PostingsBooked
<1>9. Balanced(delta, 0)
  <2>1. 0 + 0 = 0 + 0 + 0 + 0 + Capitalized(e)
    BY <1>6
  <2> QED
    BY <1>3, <1>7, <2>1, BookedBalances
<1>10. delta \in [Totals -> Int] /\ delta["cash"] \in Int /\ delta["external"] = 0
  BY <1>7 DEF Booked, Totals
<1>11. Takes(base, session, delta["cash"], 0) /\ base.units = session.units
  BY <1>3, <1>10, AttributedIs
<1>12. Takes(seen, session, delta["cash"], 0) /\ seen.units = session.units
  <2>1. base \in Session
    BY <1>11 DEF Takes
  <2> HIDE DEF base
  <2> QED
    BY <1>1, <1>4, <1>11, <2>1, TransferredIs
<1> HIDE DEF seen, i, j, parent, n
<1>13. /\ n \in Nat /\ DOMAIN parent = 1 .. n /\ parent \in [1 .. n -> Lot]
       /\ \A k \in DOMAIN parent :
             /\ parent[k] \in Lot /\ parent[k].quantity \in Nat \ {0} /\ parent[k].basis \in Int
             /\ parent[k].direction = "LONG"
  BY <1>2, <1>5, LotsAre DEF LongOnly, n
<1>14. part \in [1 .. n -> Int]
  <2>1. part = PartOf(parent, e.percent)
    BY DEF PartOf
  <2> QED
    BY <1>4, <1>5, <2>1, PartIs DEF n
<1> HIDE DEF part
\* The child's units, one share of each lot.
<1>15. /\ shares \in [1 .. n -> Int] /\ SumSeq(shares) = e.quantity
       /\ \A k \in 1 .. n : shares[k] \in Nat \ {0}
  <2> DEFINE w == Quantities(parent)
  <2>1. /\ w \in [1 .. n -> Nat] /\ (\A k \in 1 .. n : w[k] = parent[k].quantity)
        /\ SumSeq(w) = SumOn(w, 1 .. n) /\ Weights(w, 1 .. n) /\ SumSeq(w) \in Nat
    BY <1>13, QuantitiesAre
  <2>2. 1 \in 1 .. n
    <3>1. parent \in Seq(Lot) /\ parent # <<>> /\ n = Len(parent)
      BY <1>2, <1>5 DEF n
    <3>2. n # 0
      BY <3>1
    <3> QED
      BY <1>13, <3>2
  <2>3. \A k \in 1 .. n : w[k] \in Nat \ {0}
    BY <1>13, <2>1
  <2>4. (\A k \in 1 .. n : (e.quantity * w[k]) % SumSeq(w) = 0)
    BY <1>2, <1>13, <2>1
  <2> HIDE DEF w
  <2>5. SumSeq(w) > 0
    <3>1. \A k \in 1 .. n : w[k] >= 0
      BY <2>3
    <3>2. SumOn(w, 1 .. n) >= w[1]
      BY <2>1, <2>2, <3>1, SumAtLeast
    <3>3. w[1] \in Nat \ {0}
      BY <2>2, <2>3
    <3> QED
      BY <2>1, <3>2, <3>3
  <2>6. Divisible(e.quantity, w, n)
    BY <2>4 DEF Divisible
  <2>7. /\ shares \in [1 .. n -> Int] /\ SumSeq(shares) = e.quantity
        /\ Proportional(e.quantity, w, n, shares) /\ SumSeq(w) \in Nat \ {0}
    <3>1. n \in Nat /\ w \in [1 .. n -> Nat] /\ e.quantity \in Int
      BY <1>4, <1>13, <2>1
    <3>2. shares = Allocate(e.quantity, w)
      BY DEF w
    <3> HIDE DEF shares
    <3>3. /\ SumSeq(w) \in Nat \ {0} /\ Allocate(e.quantity, w) \in [1 .. n -> Int]
          /\ SumSeq(Allocate(e.quantity, w)) = e.quantity
          /\ Proportional(e.quantity, w, n, Allocate(e.quantity, w))
      BY ONLY <2>5, <2>6, <3>1, AllocateIs
    <3> QED
      BY <3>2, <3>3
  <2> HIDE DEF shares
  <2>8. ASSUME NEW k \in 1 .. n PROVE shares[k] \in Nat \ {0}
    <3> DEFINE q == e.quantity
               t == SumSeq(w)
               x == shares[k]
               y == w[k]
    <3>1. /\ q \in Nat \ {0} /\ t \in Nat \ {0} /\ x \in Int /\ y \in Nat \ {0} /\ t * x = q * y
      BY <1>4, <2>3, <2>7 DEF Proportional
    <3> HIDE DEF q, t, x, y
    <3>2. q * y > 0
      BY <3>1
    <3>3. x <= 0 => t * x <= 0
      BY <3>1
    <3>4. x > 0
      BY <3>1, <3>2, <3>3
    <3>5. x \in Nat \ {0}
      BY <3>1, <3>4
    <3> QED
      BY <3>5 DEF x
  <2> QED
    BY <2>7, <2>8
<1> HIDE DEF shares
<1>16. \A k \in 1 .. n :
          /\ spun[k] \in Lot /\ spun[k].direction = "LONG" /\ spun[k].quantity = shares[k]
          /\ spun[k].basis = part[k]
  <2> SUFFICES ASSUME NEW k \in 1 .. n
               PROVE  /\ spun[k] \in Lot /\ spun[k].direction = "LONG" /\ spun[k].quantity = shares[k]
                      /\ spun[k].basis = part[k]
    OBVIOUS
  <2>1. /\ parent[k] \in Lot /\ parent[k].direction = "LONG" /\ shares[k] \in Nat \ {0}
        /\ part[k] \in Int /\ spun[k] = [parent[k] EXCEPT !.quantity = shares[k], !.basis = part[k]]
    BY <1>13, <1>14, <1>15
  <2> HIDE DEF spun
  <2> QED
    BY <2>1 DEF Lot
<1>17. spun \in [1 .. n -> Lot]
  BY <1>13, <1>16
<1>18. \A k \in 1 .. n :
          /\ kept[k] \in Lot /\ kept[k].direction = "LONG" /\ kept[k].quantity = parent[k].quantity
          /\ kept[k].basis = parent[k].basis - part[k] /\ kept[k].opened = parent[k].opened
  <2> SUFFICES ASSUME NEW k \in 1 .. n
               PROVE  /\ kept[k] \in Lot /\ kept[k].direction = "LONG"
                      /\ kept[k].quantity = parent[k].quantity
                      /\ kept[k].basis = parent[k].basis - part[k] /\ kept[k].opened = parent[k].opened
    OBVIOUS
  <2>1. /\ parent[k] \in Lot /\ parent[k].direction = "LONG" /\ part[k] \in Int
        /\ parent[k].basis \in Int
        /\ kept[k] = [parent[k] EXCEPT !.basis = parent[k].basis - part[k]]
    BY <1>13, <1>14
  <2>2. parent[k].basis - part[k] \in Int
    BY <2>1
  <2> HIDE DEF kept
  <2> QED
    BY <2>1, <2>2 DEF Lot
<1>19. kept \in [1 .. n -> Lot]
  BY <1>13, <1>18
<1> HIDE DEF spun, kept
<1>20. kept \in Stack /\ OneSided(kept)
  BY <1>5, <1>13, <1>18, <1>19, InOrderSame DEF n
<1>21. Units(kept) = Units(parent)
  <2>1. /\ \A k \in 1 .. n : 1 * kept[k].quantity = 1 * parent[k].quantity
        /\ \A k \in 1 .. n : kept[k].direction = parent[k].direction
    BY <1>13, <1>18
  <2>2. Units(kept) = (Units(parent) * 1) \div 1
    BY <1>5, <1>13, <1>19, <2>1, UnitsInRatio DEF n
  <2>3. Units(parent) \in Int
    BY <1>5, UnitsType
  <2> QED
    BY <2>2, <2>3
<1>22. Cost(kept) = Cost(parent) - SumSeq(part) /\ Cost(parent) \in Int /\ SumSeq(part) \in Int
  <2>1. Reduced(parent, kept, part)
    BY <1>13, <1>14, <1>18, <1>19 DEF Reduced, n
  <2> QED
    BY <1>5, <2>1, CostReduced
<1>23. Total(SignedQuantity, spun) = e.quantity /\ Cost(spun) = SumSeq(part)
  <2>1. spun \in [1 .. n -> Parcel]
    BY <1>17, LotIsParcel
  <2>2. \A k \in 1 .. n : SignedQuantity[spun[k]] = shares[k] /\ SignedBasis[spun[k]] = part[k]
    BY <1>16, <2>1, LotSigned
  <2>3. LotValues(SignedQuantity, n, spun, shares) /\ LotValues(SignedBasis, n, spun, part)
    BY <2>2 DEF LotValues
  <2>4. Total(SignedQuantity, spun) = SumSeq(shares) /\ Total(SignedBasis, spun) = SumSeq(part)
    BY <1>13, <1>14, <1>15, <2>1, <2>3, SignedType, TotalIs
  <2> QED
    BY <1>15, <2>4 DEF Cost
<1>24. /\ more \in Stack /\ OneSided(more)
       /\ Units(more) = Units(open[j]) + e.quantity /\ Cost(more) = Cost(open[j]) + SumSeq(part)
  <2>1. \A k \in 1 .. n : spun[k].direction = "LONG"
    BY <1>16
  <2>2. /\ more \in Stack /\ OneSided(more)
        /\ Units(more) = Units(open[j]) + Total(SignedQuantity, spun)
        /\ Cost(more) = Cost(open[j]) + Cost(spun)
    BY <1>2, <1>5, <1>13, <1>17, <2>1, JoinedIs
  <2> QED
    BY <1>23, <2>2
<1> HIDE DEF more
<1>25. 0 = (Cost(kept) - Cost(open[i])) + (Cost(more) - Cost(open[j]))
  <2>1. Cost(open[j]) \in Int /\ open[i] = parent
    BY <1>5, UnitsType DEF parent
  <2> QED
    BY <1>22, <1>24, <2>1
<1>26. /\ seen \in Session /\ seen.units \in PerInstrument /\ seen.reference \in PerInstrument
       /\ session.units \in PerInstrument
  BY <1>3, <1>12 DEF Takes, Session
<1>27. /\ units \in PerInstrument /\ units[j] = Units(more)
       /\ \A k \in Instruments \ {j} : units[k] = session.units[k]
  <2>1. session.units[j] + e.quantity = Units(more)
    BY <1>5, <1>24
  <2>2. Units(more) \in Int
    BY <1>24, UnitsType DEF Stack
  <2>3. units = [session.units EXCEPT ![j] = Units(more)]
    BY <1>12, <2>1
  <2> HIDE DEF units
  <2> QED
    BY <1>4, <1>26, <2>2, <2>3 DEF PerInstrument
<1>28. Restated(s, seen, units, seen.reference)
  BY <1>26 DEF Session, Restated
<1> HIDE DEF units, s
<1>29. /\ s \in Session /\ s.units = units /\ s.worth = session.worth /\ s.flows = session.flows
       /\ SumOn(Flow(s), Instruments) + s.other
              = SumOn(Flow(session), Instruments) + session.other + delta["cash"] - delta["external"]
  BY <1>10, <1>12, <1>26, <1>27, <1>28, UnitsAside
<1>30. /\ s.units[i] = Units(kept) /\ s.units[j] = Units(more)
       /\ \A k \in Instruments \ {i, j} : s.units[k] = session.units[k]
  BY <1>4, <1>5, <1>21, <1>27, <1>29
<1>31. Replay(e, [open EXCEPT ![i] = kept, ![j] = more], delta, s)
  BY <1>2
<1> QED
  BY <1>4, <1>8, <1>9, <1>10, <1>20, <1>24, <1>25, <1>29, <1>30, <1>31, TwoLotsReplayed

\* The rollup of a position is the signed sum of its lots.
LEMMA HeldIs ==
    ASSUME open \in [Instruments -> Seq(Lot)], NEW i \in Instruments
    PROVE  Held(i) = Units(open[i]) /\ CostOf(i) = Cost(open[i])
<1> DEFINE lots == open[i]
           n == Len(lots)
           a == [k \in DOMAIN lots |-> IF lots[k].direction = "LONG" THEN lots[k].quantity
                                       ELSE -lots[k].quantity]
           b == [k \in DOMAIN lots |-> IF lots[k].direction = "LONG" THEN lots[k].basis
                                       ELSE -lots[k].basis]
<1>1. lots \in Seq(Lot)
  OBVIOUS
<1>2. Held(i) = SumSeq(a) /\ CostOf(i) = SumSeq(b)
  BY DEF Held, CostOf
<1> HIDE DEF lots
<1>3. /\ n \in Nat /\ DOMAIN lots = 1 .. n /\ lots \in [1 .. n -> Lot]
      /\ \A k \in DOMAIN lots : lots[k] \in Parcel /\ lots[k].quantity \in Nat \ {0} /\ lots[k].basis \in Int
  BY <1>1, LotsAre
<1>4. lots \in [1 .. n -> Parcel]
  BY <1>3
<1>5. /\ a \in [1 .. n -> Int] /\ b \in [1 .. n -> Int]
      /\ \A k \in 1 .. n : a[k] = SignedQuantity[lots[k]] /\ b[k] = SignedBasis[lots[k]]
  BY <1>3, SignedType
<1> HIDE DEF a, b, n
<1>6. LotValues(SignedQuantity, n, lots, a) /\ LotValues(SignedBasis, n, lots, b)
  BY <1>5 DEF LotValues
<1>7. Total(SignedQuantity, lots) = SumSeq(a) /\ Total(SignedBasis, lots) = SumSeq(b)
  BY <1>3, <1>4, <1>5, <1>6, SignedType, TotalIs
<1> QED
  BY <1>2, <1>7 DEF Units, Cost, lots

\* No lots: nothing held, no cost.
LEMMA NoLots == <<>> \in Stack /\ OneSided(<<>>) /\ Units(<<>>) = 0 /\ Cost(<<>>) = 0
<1>1. <<>> \in Seq(Lot) /\ DOMAIN <<>> = {} /\ Len(<<>>) = 0
  OBVIOUS
<1>2. <<>> \in Stack /\ OneSided(<<>>)
  BY <1>1 DEF Stack, InOrder, OneSided
<1>3. Units(<<>>) = 0 /\ Cost(<<>>) = 0
  BY <1>1, SumOfNone DEF Units, Cost, Total
<1> QED
  BY <1>2, <1>3

\* The lots of a merger's parent: units in the ratio, part of the cost gone.
LotTurned(lot, gone, up, down, new) ==
    new = [lot EXCEPT !.quantity = (lot.quantity * up) \div down, !.basis = lot.basis - gone]

LEMMA LotTurnedIs ==
    ASSUME NEW lot \in Lot, NEW gone \in Int, NEW up \in Nat \ {0}, NEW down \in Nat \ {0},
           (lot.quantity * up) % down = 0, NEW new, LotTurned(lot, gone, up, down, new)
    PROVE  /\ new \in Lot /\ new.direction = lot.direction /\ new.opened = lot.opened
           /\ down * new.quantity = up * lot.quantity /\ new.basis = lot.basis - gone
<1> DEFINE q == (lot.quantity * up) \div down
           b == lot.basis - gone
<1>1. lot.quantity \in Nat \ {0} /\ lot.basis \in Int
  BY DEF Lot
<1>2. q \in Nat \ {0} /\ down * q = up * lot.quantity
  BY <1>1, RatioIs
<1>3. b \in Int
  BY <1>1
<1>4. new = [lot EXCEPT !.quantity = q, !.basis = b]
  BY DEF LotTurned
<1>5. b = lot.basis - gone
  OBVIOUS
<1> HIDE DEF q, b
<1>6. /\ new \in Lot /\ new.direction = lot.direction /\ new.opened = lot.opened
      /\ new.quantity = q /\ new.basis = b
  BY <1>2, <1>3, <1>4 DEF Lot
<1> QED
  BY <1>2, <1>5, <1>6

\* One value is reset.
LEMMA SetToZero ==
    ASSUME NEW r \in PerInstrument, NEW i
    PROVE  [r EXCEPT ![i] = 0] \in PerInstrument
<1>1. \A k \in Instruments : [r EXCEPT ![i] = 0][k] = IF k = i THEN 0 ELSE r[k]
  BY DEF PerInstrument
<1>2. \A k \in Instruments : [r EXCEPT ![i] = 0][k] \in Int
  BY <1>1 DEF PerInstrument
<1> QED
  BY <1>2 DEF PerInstrument

\* A merger: the parent's lots, turned in the ratio and without the cost that cash pays
\* for, join those of the successor.
LEMMA MergerKeeps ==
    ASSUME BooksInv, NEW e \in Entries, Merger(e)
    PROVE  BooksInv'
<1> DEFINE i == e.instrument
           j == e.child
           parent == open[i]
           n == Len(parent)
           part == [k \in DOMAIN parent |-> (parent[k].basis * e.percent) \div 100]
           turned == [k \in DOMAIN parent |->
                         [parent[k] EXCEPT !.quantity = (parent[k].quantity * e.up) \div e.down,
                                           !.basis = parent[k].basis - part[k]]]
           received == Held(i) * e.cash
           realised == received - SumSeq(part)
           fields == [cash |-> received, realised |-> realised]
           delta == Plus(Delta(ChargesOf(e)), fields)
           base == Attributed(e, delta["cash"], 0)
           seen == Transferred(base, e, 100 - e.percent)
           more == InsertAll(open[j], turned)
           gain == (session.units[i] * e.up) \div e.down
           units == [seen.units EXCEPT ![i] = 0, ![j] = @ + gain]
           reference == [seen.reference EXCEPT ![i] = 0]
           s == [seen EXCEPT !.units[i] = 0, !.reference[i] = 0, !.units[j] = @ + gain]
           K == {"cash", "realised"}
<1>1. e.kind = "MERGER" /\ e.instrument # None /\ e.child \notin {None, e.instrument}
  BY DEF Merger
<1>2. /\ LongOnly(parent) /\ LongOnly(open[j])
      /\ \A k \in DOMAIN parent : (parent[k].quantity * e.up) % e.down = 0
      /\ Replay(e, [open EXCEPT ![i] = <<>>, ![j] = more], delta, s)
  <2>1. /\ LongOnly(parent) /\ LongOnly(open[j])
        /\ \A k \in DOMAIN parent : (parent[k].quantity * e.up) % e.down = 0
    BY DEF Merger
  <2>2. Replay(e, [open EXCEPT ![i] = <<>>, ![j] = InsertAll(open[j], turned)], delta,
               [seen EXCEPT !.units[i] = 0, !.reference[i] = 0, !.units[j] = @ + gain])
    BY DEF Merger
  <2> QED
    BY <2>1, <2>2
<1>3. AccountingTypeOK /\ session \in Session /\ open \in [Instruments -> Seq(Lot)]
  BY BooksTypes
<1>4. /\ i \in Instruments /\ j \in Instruments /\ i # j /\ e.percent \in Int /\ e.cash \in Int
      /\ e.up \in Nat \ {0} /\ e.down \in Nat \ {0} /\ 100 - e.percent \in Int
  BY <1>1, EntryIs
<1>5. /\ parent \in Seq(Lot) /\ InOrder(parent) /\ OneSided(parent) /\ session.units[i] = Units(parent)
      /\ open[j] \in Seq(Lot) /\ InOrder(open[j]) /\ session.units[j] = Units(open[j])
  BY <1>4, BooksTypes
<1>6. /\ CapitalOf(e) = 0 /\ IncomeOf(e) = 0 /\ e.kind \notin Expenses /\ Capitalized(e) = 0
  BY <1>1, NoTrade DEF CapitalOf, IncomeOf, Expenses, Trades
<1>7. part \in [1 .. n -> Int] /\ SumSeq(part) \in Int
  <2>1. part = PartOf(parent, e.percent)
    BY DEF PartOf
  <2>2. part \in [1 .. n -> Int] /\ n \in Nat
    <3>1. parent \in Seq(Lot) /\ e.percent \in Int
      BY <1>4, <1>5
    <3> HIDE DEF part, parent
    <3>2. PartOf(parent, e.percent) \in [1 .. Len(parent) -> Int]
      BY <3>1, PartIs
    <3> QED
      BY <2>1, <3>1, <3>2, LotsAre
  <2> HIDE DEF part, n
  <2>3. SumSeq(part) = SumOn(part, 1 .. n) /\ Weights(part, 1 .. n)
    BY <2>2, SumSeqIs, SumFirstOf
  <2> QED
    BY <2>2, <2>3, SumType
<1>8. received \in Int /\ realised \in Int
  <2>1. Held(i) = Units(parent) /\ Units(parent) \in Int
    BY <1>3, <1>4, <1>5, HeldIs, UnitsType
  <2>2. received \in Int
    BY <1>4, <2>1
  <2> HIDE DEF received
  <2> QED
    BY <1>7, <2>2
<1> HIDE DEF part
<1>9. realised = received - SumSeq(part)
  OBVIOUS
<1> HIDE DEF received, realised
<1>10. Booked(delta, e, received, 0, 0, realised, 0)
  <2>1. fields \in [K -> Int] /\ fields["cash"] = received /\ fields["realised"] = realised
    BY <1>8
  <2>2. /\ K \subseteq {"cash", "external", "income", "realised", "adjustments"}
        /\ "cash" \in K /\ "external" \notin K /\ "income" \notin K /\ "realised" \in K
        /\ "adjustments" \notin K
    OBVIOUS
  <2> HIDE DEF K, fields
  <2> QED
    BY <1>3, <2>1, <2>2, FieldsBooked
<1> HIDE DEF delta
<1>11. \A t \in Posted : SumPostings(Postings(e), t) = delta[t]
  BY <1>3, <1>6, <1>10, PostingsBooked
<1> DEFINE c == -SumSeq(part)
<1>12. c \in Int /\ Balanced(delta, c)
  <2>1. c \in Int
    BY <1>7
  <2>2. received + c = 0 + 0 + realised + 0 + Capitalized(e)
    BY <1>6, <1>7, <1>8, <1>9
  <2> HIDE DEF c
  <2> QED
    BY <1>3, <1>8, <1>10, <2>1, <2>2, BookedBalances
<1>13. delta \in [Totals -> Int] /\ delta["cash"] \in Int /\ delta["external"] = 0
  BY <1>10 DEF Booked, Totals
<1>14. Takes(base, session, delta["cash"], 0) /\ base.units = session.units
  BY <1>3, <1>13, AttributedIs
<1>15. Takes(seen, session, delta["cash"], 0) /\ seen.units = session.units
  <2>1. base \in Session
    BY <1>14 DEF Takes
  <2> HIDE DEF base
  <2> QED
    BY <1>1, <1>4, <1>14, <2>1, TransferredIs
<1> HIDE DEF seen, i, j, parent, n
<1>16. n \in Nat /\ DOMAIN parent = 1 .. n /\ parent \in [1 .. n -> Lot] /\ n = Len(parent)
  BY <1>5, LotsAre DEF n
<1>17. \A k \in 1 .. n :
          /\ turned[k] \in Lot /\ turned[k].direction = "LONG" /\ parent[k].direction = "LONG"
          /\ turned[k].opened = parent[k].opened
          /\ e.down * turned[k].quantity = e.up * parent[k].quantity
          /\ turned[k].basis = parent[k].basis - part[k]
  <2> SUFFICES ASSUME NEW k \in 1 .. n
               PROVE  /\ turned[k] \in Lot /\ turned[k].direction = "LONG"
                      /\ parent[k].direction = "LONG"
                      /\ turned[k].opened = parent[k].opened
                      /\ e.down * turned[k].quantity = e.up * parent[k].quantity
                      /\ turned[k].basis = parent[k].basis - part[k]
    OBVIOUS
  <2>1. /\ parent[k] \in Lot /\ part[k] \in Int /\ (parent[k].quantity * e.up) % e.down = 0
        /\ parent[k].direction = "LONG"
    BY <1>2, <1>7, <1>16 DEF LongOnly
  <2>2. LotTurned(parent[k], part[k], e.up, e.down, turned[k])
    BY <1>16 DEF LotTurned
  <2> HIDE DEF turned
  <2> QED
    BY <1>4, <2>1, <2>2, LotTurnedIs
<1>18. turned \in [1 .. n -> Lot]
  BY <1>16, <1>17
<1> HIDE DEF turned
<1>19. Units(turned) = gain
  <2>1. /\ parent \in Seq(Lot) /\ turned \in [1 .. Len(parent) -> Lot]
        /\ e.up \in Nat \ {0} /\ e.down \in Nat \ {0}
        /\ \A k \in DOMAIN parent : /\ turned[k].direction = parent[k].direction
                                    /\ e.down * turned[k].quantity = e.up * parent[k].quantity
    BY <1>4, <1>5, <1>16, <1>17, <1>18
  <2>2. Units(turned) = (Units(parent) * e.up) \div e.down
    BY ONLY <2>1, UnitsInRatio
  <2> QED
    BY <1>5, <2>2
<1>20. /\ Cost(turned) = Cost(parent) - SumSeq(part) /\ Cost(parent) \in Int
  <2>1. Reduced(parent, turned, part)
    BY <1>7, <1>16, <1>17, <1>18 DEF Reduced
  <2> QED
    BY <1>5, <2>1, CostReduced
<1>21. /\ more \in Stack /\ OneSided(more)
       /\ Units(more) = Units(open[j]) + gain /\ Cost(more) = Cost(open[j]) + Cost(turned)
  <2>1. \A k \in 1 .. n : turned[k].direction = "LONG"
    BY <1>17
  <2>2. /\ more \in Stack /\ OneSided(more)
        /\ Units(more) = Units(open[j]) + Total(SignedQuantity, turned)
        /\ Cost(more) = Cost(open[j]) + Cost(turned)
    BY <1>2, <1>5, <1>16, <1>18, <2>1, JoinedIs
  <2> QED
    BY <1>19, <2>2 DEF Units
<1> HIDE DEF more, gain
<1>22. c = (Cost(<<>>) - Cost(open[i])) + (Cost(more) - Cost(open[j]))
  <2>1. Cost(open[j]) \in Int /\ open[i] = parent
    BY <1>5, UnitsType DEF parent
  <2> QED
    BY <1>7, <1>20, <1>21, <2>1, NoLots
<1> HIDE DEF c
<1>23. /\ seen \in Session /\ seen.units \in PerInstrument /\ seen.reference \in PerInstrument
       /\ session.units \in PerInstrument
  BY <1>3, <1>15 DEF Takes, Session
<1>24. /\ units \in PerInstrument /\ units[i] = 0 /\ units[j] = Units(more)
       /\ \A k \in Instruments \ {i, j} : units[k] = session.units[k]
  <2>1. session.units[j] + gain = Units(more)
    BY <1>5, <1>21
  <2>2. Units(more) \in Int
    BY <1>21, UnitsType DEF Stack
  <2>3. units = [session.units EXCEPT ![i] = 0, ![j] = Units(more)]
    BY <1>4, <1>15, <2>1, <1>23 DEF PerInstrument
  <2> HIDE DEF units
  <2> QED
    BY <1>4, <1>23, <2>2, <2>3 DEF PerInstrument
<1>25. reference \in PerInstrument
  <2>1. \A r \in PerInstrument : [r EXCEPT ![i] = 0] \in PerInstrument
    BY SetToZero
  <2> QED
    BY <1>23, <2>1
<1>26. Restated(s, seen, units, reference)
  BY <1>23 DEF Session, Restated
<1> HIDE DEF units, reference, s
<1>27. /\ s \in Session /\ s.units = units /\ s.worth = session.worth /\ s.flows = session.flows
       /\ SumOn(Flow(s), Instruments) + s.other
              = SumOn(Flow(session), Instruments) + session.other + delta["cash"] - delta["external"]
  BY <1>13, <1>15, <1>23, <1>24, <1>25, <1>26, UnitsAside
<1>28. /\ s.units[i] = Units(<<>>) /\ s.units[j] = Units(more)
       /\ \A k \in Instruments \ {i, j} : s.units[k] = session.units[k]
  BY <1>24, <1>27, NoLots
<1>29. Replay(e, [open EXCEPT ![i] = <<>>, ![j] = more], delta, s)
  BY <1>2
<1> QED
  BY <1>4, <1>11, <1>12, <1>13, <1>21, <1>22, <1>27, <1>28, <1>29, NoLots, TwoLotsReplayed

-----------------------------------------------------------------------------
(***************************************************************************)
(* Accounting: the books agree                                             *)
(***************************************************************************)
\* What the positions are worth at marks.
LEMMA ValuesAre ==
    ASSUME BooksInv, NEW marks \in [Instruments -> Prices]
    PROVE  /\ Values(marks) \in PerInstrument /\ Weights(Values(marks), Instruments)
           /\ SumOver(Values(marks)) = SumOn(Values(marks), Instruments)
           /\ SumOn(Values(marks), Instruments) \in Int
           /\ book.cash \in Int /\ book.external \in Int
           /\ BookWorth(marks) = book.cash + SumOn(Values(marks), Instruments)
           /\ \A i \in Instruments : Held(i) = Units(open[i]) /\ Held(i) \in Int
<1>1. open \in [Instruments -> Seq(Lot)] /\ AccountingTypeOK
  BY BooksTypes
<1>2. \A i \in Instruments : Held(i) = Units(open[i]) /\ Held(i) \in Int
  BY <1>1, HeldIs, UnitsType
<1>3. \A i \in Instruments : marks[i] \in Nat
  BY AccountingAssumption
<1>4. \A i \in Instruments : Held(i) * marks[i] \in Int
  BY <1>2, <1>3
<1>5. DOMAIN Values(marks) = Instruments /\ \A i \in Instruments : Values(marks)[i] = Held(i) * marks[i]
  BY DEF Values
<1>6. Values(marks) \in PerInstrument
  BY <1>4 DEF Values, PerInstrument
<1>7. Weights(Values(marks), Instruments)
  BY <1>4, <1>5, AccountingAssumption DEF Weights
<1>8. SumOver(Values(marks)) = SumOn(Values(marks), Instruments)
  BY <1>5, SumOverIs
<1>9. book.cash \in Int /\ book.external \in Int
  BY <1>1 DEF AccountingTypeOK, Totals
<1>10. BookWorth(marks) = book.cash + SumOn(Values(marks), Instruments)
  BY <1>8 DEF BookWorth
<1> QED
  BY <1>2, <1>6, <1>7, <1>8, <1>9, <1>10, SumType

\* Zeros.
LEMMA ZerosAre ==
    /\ Zeros \in PerInstrument /\ \A i \in Instruments : Zeros[i] = 0
BY DEF Zeros, PerInstrument

\* The next day begins with the values its predecessor ended with.
LEMMA CloseDayKeeps ==
    ASSUME BooksInv, NEW marks \in [Instruments -> Prices], CloseDay(marks)
    PROVE  BooksInv'
<1> DEFINE worth == Values(marks)
           held == [i \in Instruments |-> Held(i)]
           nav == BookWorth(marks)
           s == [opening |-> worth, units |-> held, reference |-> worth, transfers |-> Zeros,
                 external |-> Zeros, cash |-> Zeros, other |-> 0, worth |-> nav,
                 flows |-> book.external]
<1>1. /\ today' = today + 1 /\ session' = s
      /\ UNCHANGED <<policy, open, book, posted, replayed>>
  BY DEF CloseDay
<1>2. /\ worth \in PerInstrument /\ Weights(worth, Instruments) /\ SumOn(worth, Instruments) \in Int
      /\ book.cash \in Int /\ book.external \in Int
      /\ nav = book.cash + SumOn(worth, Instruments)
      /\ \A i \in Instruments : Held(i) = Units(open[i]) /\ Held(i) \in Int
  BY ValuesAre
<1>3. held \in PerInstrument /\ \A i \in Instruments : held[i] = Units(open[i])
  BY <1>2 DEF PerInstrument
<1>4. nav \in Int
  <2> HIDE DEF worth, nav
  <2> QED
    BY <1>2
<1> HIDE DEF worth, held, nav
<1>5. s \in Session
  BY <1>2, <1>3, <1>4, ZerosAre DEF Session
<1>6. /\ s.units = held /\ s.other = 0 /\ s.worth = nav /\ s.flows = book.external
      /\ s.opening = worth /\ s.transfers = Zeros /\ s.external = Zeros /\ s.cash = Zeros
  OBVIOUS
<1> HIDE DEF s
<1>7. AccountingTypeOK'
  <2>1. AccountingTypeOK /\ today \in Nat
    BY BooksTypes
  <2> QED
    BY <1>1, <1>5, <2>1 DEF AccountingTypeOK, Session
<1>8. LotsInv' /\ UnitsInv' /\ CashInv' /\ PostingsAgree'
  <2>1. LotsInv /\ CashInv /\ PostingsAgree
    BY DEF BooksInv
  <2>2. LotsInv' /\ CashInv' /\ PostingsAgree'
    BY <1>1, <2>1 DEF LotsInv, CashInv, PostingsAgree, Costs
  <2>3. UnitsInv'
    BY <1>1, <1>3, <1>6 DEF UnitsInv
  <2> QED
    BY <2>2, <2>3
<1>9. FlowInv'
  <2> DEFINE m == 0 - 1
  <2>1. m \in Int /\ m = -1
    OBVIOUS
  <2> HIDE DEF m
  <2>2. \A i \in Instruments : Flow(s)[i] = m * worth[i]
    <3> SUFFICES ASSUME NEW i \in Instruments PROVE Flow(s)[i] = m * worth[i]
      OBVIOUS
    <3>1. Flow(s)[i] = 0 - 0 - 0 - worth[i]
      BY <1>6, ZerosAre DEF Flow
    <3>2. worth[i] \in Int
      BY <1>2 DEF PerInstrument
    <3> QED
      BY <2>1, <3>1, <3>2
  <2>3. SumOn(Flow(s), Instruments) = m * SumOn(worth, Instruments)
    BY <1>2, <2>1, <2>2, SumTimes
  <2>4. SumOn(Flow(s), Instruments) + s.other
            = book.cash - s.worth - (book.external - s.flows)
    <3> DEFINE v == SumOn(worth, Instruments)
               f == SumOn(Flow(s), Instruments)
    <3>1. v \in Int /\ f = m * v /\ nav = book.cash + v
      BY <1>2, <2>3
    <3> HIDE DEF v, f
    <3>2. f + 0 = book.cash - nav - (book.external - book.external)
      BY <1>2, <2>1, <3>1
    <3> QED
      BY <1>6, <3>2 DEF f
  <2> QED
    BY <1>1, <2>4 DEF FlowInv
<1> QED
  BY <1>7, <1>8, <1>9 DEF BooksInv

\* Before the first entry every sum is empty.
LEMMA BooksInit == AccountingInit => BooksInv
<1> SUFFICES ASSUME AccountingInit PROVE BooksInv
  OBVIOUS
<1>1. /\ policy \in [method: {"AVERAGE", "FIFO"}, commissions: BOOLEAN, fees: BOOLEAN]
      /\ open = [i \in Instruments |-> <<>>] /\ book = [t \in Totals |-> 0]
      /\ posted = [t \in Posted |-> 0] /\ replayed = {} /\ today = 1
      /\ session = [opening |-> Zeros, units |-> Zeros, reference |-> Zeros, transfers |-> Zeros,
                    external |-> Zeros, cash |-> Zeros, other |-> 0, worth |-> 0, flows |-> 0]
  BY DEF AccountingInit
<1>2. session \in Session
  BY <1>1, ZerosAre DEF Session
<1>3. open \in [Instruments -> Seq(Lot)] /\ \A i \in Instruments : open[i] = <<>>
  BY <1>1
<1>4. AccountingTypeOK
  BY <1>1, <1>2, <1>3 DEF AccountingTypeOK, Session
<1>5. LotsInv /\ UnitsInv
  BY <1>1, <1>3, NoLots, ZerosAre DEF LotsInv, UnitsInv, Stack
<1>6. \A w : (Weights(w, Instruments) /\ \A i \in Instruments : w[i] = 0)
                 => SumOn(w, Instruments) = 0
  <2> SUFFICES ASSUME NEW w, Weights(w, Instruments), \A i \in Instruments : w[i] = 0
               PROVE  SumOn(w, Instruments) = 0
    OBVIOUS
  <2>1. \A i \in Instruments \ {} : w[i] = 0
    OBVIOUS
  <2>2. SumOn(w, Instruments) = SumOn(w, {})
    BY <2>1, SumOfPart
  <2> QED
    BY <2>2, SumOfNone
<1>7. SumOn(Costs(open), Instruments) = 0
  <2>1. \A i \in Instruments : Costs(open)[i] = 0
    BY <1>3, NoLots DEF Costs
  <2> QED
    BY <1>3, <1>6, <2>1, CostsAre
<1>8. SumOn(Flow(session), Instruments) = 0
  <2>1. \A i \in Instruments : Flow(session)[i] = 0 - 0 - 0 - 0
    BY <1>1, ZerosAre DEF Flow
  <2> QED
    BY <1>2, <1>6, <2>1, FlowIs
<1>9. CashInv /\ PostingsAgree
  BY <1>1, <1>7 DEF CashInv, PostingsAgree, Totals, Posted
<1>10. FlowInv
  BY <1>1, <1>8 DEF FlowInv, Totals
<1> QED
  BY <1>4, <1>5, <1>9, <1>10 DEF BooksInv

\* Every entry, and the close of a day, keeps the invariant.
LEMMA BooksNext == BooksInv /\ [AccountingNext]_accountingVars => BooksInv'
<1> SUFFICES ASSUME BooksInv, [AccountingNext]_accountingVars PROVE BooksInv'
  OBVIOUS
<1>1. ASSUME NEW e \in Entries, OpenPosition(e) PROVE BooksInv'
  BY <1>1, OpenPositionKeeps
<1>2. ASSUME NEW e \in Entries, ClosePosition(e) PROVE BooksInv'
  BY <1>2, ClosePositionKeeps
<1>3. ASSUME NEW e \in Entries, MoveCapital(e) PROVE BooksInv'
  BY <1>3, MoveCapitalKeeps
<1>4. ASSUME NEW e \in Entries, ReceiveIncome(e) PROVE BooksInv'
  BY <1>4, ReceiveIncomeKeeps
<1>5. ASSUME NEW e \in Entries, PayExpense(e) PROVE BooksInv'
  BY <1>5, PayExpenseKeeps
<1>6. ASSUME NEW e \in Entries, ConvertCash(e) PROVE BooksInv'
  BY <1>6, ConvertCashKeeps
<1>7. ASSUME NEW e \in Entries, Adjust(e) PROVE BooksInv'
  BY <1>7, AdjustKeeps
<1>8. ASSUME NEW e \in Entries, Split(e) PROVE BooksInv'
  BY <1>8, SplitKeeps
<1>9. ASSUME NEW e \in Entries, Spinoff(e) PROVE BooksInv'
  BY <1>9, SpinoffKeeps
<1>10. ASSUME NEW e \in Entries, Merger(e) PROVE BooksInv'
  BY <1>10, MergerKeeps
<1>11. ASSUME NEW marks \in [Instruments -> Prices], CloseDay(marks) PROVE BooksInv'
  BY <1>11, CloseDayKeeps
<1>12. CASE UNCHANGED accountingVars
  <2>1. /\ policy' = policy /\ open' = open /\ book' = book /\ posted' = posted
        /\ session' = session /\ replayed' = replayed /\ today' = today
    BY <1>12 DEF accountingVars
  <2> QED
    BY <2>1 DEF BooksInv, AccountingTypeOK, LotsInv, UnitsInv, CashInv, PostingsAgree, FlowInv, Costs, Flow
<1> QED
  BY <1>1, <1>2, <1>3, <1>4, <1>5, <1>6, <1>7, <1>8, <1>9, <1>10, <1>11, <1>12 DEF AccountingNext

LEMMA BooksInvariant == AccountingSpec => []BooksInv
BY BooksInit, BooksNext, PTL DEF AccountingSpec

\* The lots, the postings and the attribution are read off the invariant.
LEMMA BooksInvAgrees == BooksInv => BooksAgree
<1> SUFFICES ASSUME BooksInv PROVE BooksAgree
  OBVIOUS
<1>1. LotsOneSided
  BY DEF BooksInv, LotsInv, InOrder, OneSided, LotsOneSided
<1>2. BookBalances
  <2> DEFINE costs == [i \in Instruments |-> CostOf(i)]
  <2>1. costs = Costs(open)
    BY BooksTypes, HeldIs DEF Costs
  <2>2. DOMAIN Costs(open) = Instruments
    BY DEF Costs
  <2>3. SumOver(costs) = SumOn(Costs(open), Instruments)
    BY <2>1, <2>2, SumOverIs
  <2> HIDE DEF costs
  <2>4. book.cash + SumOver(costs) =
            book.external + book.income + book.realised + book.adjustments
            - (book.fees - book.capitalized) - book.taxes
    BY <2>3 DEF BooksInv, CashInv
  <2> QED
    BY <2>4 DEF BookBalances, costs
<1>3. AttributionComplete
  <2>1. \A i \in Instruments : session.units[i] = Held(i)
    BY BooksTypes, HeldIs
  <2>2. ASSUME NEW marks \in [Instruments -> Prices]
        PROVE  LET pnl == [i \in Instruments |->
                             Values(marks)[i] - session.opening[i] + session.cash[i]
                             - session.external[i] - session.transfers[i]]
               IN SumOver(pnl) + session.other
                     = BookWorth(marks) - session.worth - (book.external - session.flows)
    <3> DEFINE worth == Values(marks)
               pnl == [i \in Instruments |->
                         worth[i] - session.opening[i] + session.cash[i]
                         - session.external[i] - session.transfers[i]]
    <3>1. /\ worth \in PerInstrument /\ Weights(worth, Instruments) /\ SumOn(worth, Instruments) \in Int
          /\ book.cash \in Int /\ book.external \in Int
          /\ BookWorth(marks) = book.cash + SumOn(worth, Instruments)
      BY ValuesAre
    <3> HIDE DEF worth
    <3>2. /\ Weights(Flow(session), Instruments) /\ SumOn(Flow(session), Instruments) \in Int
          /\ session.other \in Int /\ session.worth \in Int /\ session.flows \in Int
          /\ \A i \in Instruments :
                /\ session.opening[i] \in Int /\ session.transfers[i] \in Int
                /\ session.external[i] \in Int /\ session.cash[i] \in Int
                /\ Flow(session)[i] = session.cash[i] - session.external[i]
                                      - session.transfers[i] - session.opening[i]
      BY BooksTypes, FlowIs
    <3>3. \A i \in Instruments : pnl[i] = worth[i] + Flow(session)[i]
      <4> SUFFICES ASSUME NEW i \in Instruments PROVE pnl[i] = worth[i] + Flow(session)[i]
        OBVIOUS
      <4>1. pnl[i] = worth[i] - session.opening[i] + session.cash[i]
                     - session.external[i] - session.transfers[i]
        OBVIOUS
      <4>2. worth[i] \in Int
        BY <3>1 DEF PerInstrument
      <4> HIDE DEF pnl
      <4> QED
        BY <3>2, <4>1, <4>2
    <3>4. DOMAIN pnl = Instruments
      OBVIOUS
    <3> HIDE DEF pnl
    <3>5. SumOver(pnl) = SumOn(worth, Instruments) + SumOn(Flow(session), Instruments)
      <4>1. SumOver(pnl) = SumOn(pnl, Instruments)
        BY <3>4, SumOverIs
      <4>2. Weights(worth, Instruments) /\ Weights(Flow(session), Instruments)
        BY <3>1, <3>2
      <4>3. SumOn(pnl, Instruments) = SumOn(worth, Instruments) + SumOn(Flow(session), Instruments)
        BY ONLY <3>3, <4>2, SumAdds
      <4> QED
        BY <4>1, <4>3
    <3>6. SumOn(Flow(session), Instruments) + session.other =
              book.cash - session.worth - (book.external - session.flows)
      BY DEF BooksInv, FlowInv
    <3>7. SumOver(pnl) + session.other
              = BookWorth(marks) - session.worth - (book.external - session.flows)
      <4> DEFINE v == SumOn(worth, Instruments)
                 f == SumOn(Flow(session), Instruments)
                 paid == book.external - session.flows
      <4>1. /\ v \in Int /\ f \in Int /\ paid \in Int /\ book.cash \in Int /\ session.worth \in Int
            /\ session.other \in Int
        BY <3>1, <3>2
      <4>2. f + session.other = book.cash - session.worth - paid
        BY <3>6
      <4>3. SumOver(pnl) = v + f /\ BookWorth(marks) = book.cash + v
        BY <3>1, <3>5
      <4> HIDE DEF v, f, paid
      <4>4. SumOver(pnl) + session.other = BookWorth(marks) - session.worth - paid
        BY ONLY <4>1, <4>2, <4>3
      <4> QED
        BY <4>4 DEF paid
    <3> QED
      BY <3>7 DEF pnl, worth
  <2> QED
    BY <2>1, <2>2 DEF AttributionComplete
<1>4. PostingsAgree
  BY DEF BooksInv
<1> QED
  BY <1>1, <1>2, <1>3, <1>4 DEF BooksAgree

\* Every entry LedgerState.apply replays leaves the cash, the totals, the lots of each
\* instrument and the day's attribution as declared: quantities of lots stay positive.
THEOREM AccountingTypeCorrect == AccountingSpec => []AccountingTypeOK
<1>1. BooksInv => AccountingTypeOK
  BY DEF BooksInv
<1> QED
  BY <1>1, BooksInvariant, PTL

\* Whatever entries are replayed in whatever order, under either method and whatever is
\* capitalized: the ledger's cash and lots, the postings of summarize_postings and the
\* attribution of PositionPnlSession, derived without each other, agree.
THEOREM BooksAlwaysAgree == AccountingSpec => []BooksAgree
BY BooksInvariant, BooksInvAgrees, PTL
=============================================================================
