---------------------------- MODULE SumTheorems ----------------------------
(***************************************************************************)
(* Sums of a function's values over a finite set, as MapThenSumSet folds   *)
(* them up: the sum does not depend on the order in which elements are     *)
(* taken out.  Induction is over finite sets, each time by a smallest      *)
(* counterexample.                                                         *)
(***************************************************************************)
EXTENDS FiniteSetsExt, FiniteSetTheorems, TLAPS

SumOver(f, S) == MapThenSumSet(LAMBDA x : f[x], S)

Taken(s) == CHOOSE x \in s : TRUE

\* The equation that defines the fold on the subsets of S.
Unfold(it, f, S) ==
  [s \in SUBSET S |-> IF s = {} THEN 0 ELSE f[Taken(s)] + it[s \ {Taken(s)}]]

Fold(f, S) == CHOOSE it : it = Unfold(it, f, S)

\* SumOver is that fold.
LEMMA SumIsFold == ASSUME NEW f, NEW S PROVE SumOver(f, S) = Fold(f, S)[S]
BY DEF SumOver, MapThenSumSet, MapThenFoldSet, Fold, Unfold, Taken

\* What is taken out of a set is one of its elements.
LEMMA TakenIsElement == \A s : s # {} => Taken(s) \in s
BY DEF Taken

\* Among subsets of a finite set there is a smallest one.
LEMMA Smallest ==
  ASSUME NEW S, IsFiniteSet(S), NEW B, B \subseteq SUBSET S, B # {}
  PROVE  \E T \in B : \A U \in B : U \subseteq T => U = T
<1>1. B \subseteq FiniteSubsetsOf(S)
  BY FS_Subset DEF FiniteSubsetsOf
<1>2. \E T \in B : \A U \in B : ~(<<U, T>> \in StrictSubsetOrdering(S))
  BY <1>1, WFMin, FS_StrictSubsetOrderingWellFounded
<1> QED BY <1>2 DEF StrictSubsetOrdering

-----------------------------------------------------------------------------
(* The fold satisfies its equation.                                        *)

UpTo(S, n) == {T \in SUBSET S : Cardinality(T) <= n}

\* The equation can be solved for the subsets of at most n elements.
Solvable(f, S, n) ==
  \E g : \A T \in UpTo(S, n) :
    g[T] = IF T = {} THEN 0 ELSE f[Taken(T)] + g[T \ {Taken(T)}]

\* A solution for n elements extends to n + 1.
LEMMA SolvableStep ==
  ASSUME NEW f, NEW S, IsFiniteSet(S), NEW n \in Nat, Solvable(f, S, n)
  PROVE  Solvable(f, S, n + 1)
<1>1. PICK g : \A T \in UpTo(S, n) :
        g[T] = IF T = {} THEN 0 ELSE f[Taken(T)] + g[T \ {Taken(T)}]
  BY DEF Solvable
<1> DEFINE h == [T \in SUBSET S |-> IF T = {} THEN 0 ELSE f[Taken(T)] + g[T \ {Taken(T)}]]
<1>2. \A T \in UpTo(S, n) : h[T] = g[T]
  BY <1>1 DEF UpTo
<1>3. \A T \in UpTo(S, n + 1) : T # {} => T \ {Taken(T)} \in UpTo(S, n)
  <2> SUFFICES ASSUME NEW T \in UpTo(S, n + 1), T # {}
               PROVE  T \ {Taken(T)} \in UpTo(S, n)
    OBVIOUS
  <2>1. IsFiniteSet(T) /\ Cardinality(T) \in Nat /\ Cardinality(T) <= n + 1 /\ Taken(T) \in T
    BY FS_Subset, FS_CardinalityType, TakenIsElement DEF UpTo
  <2>2. Cardinality(T \ {Taken(T)}) = Cardinality(T) - 1
    BY <2>1, FS_RemoveElement
  <2> QED BY <2>1, <2>2 DEF UpTo
<1>4. \A T \in UpTo(S, n + 1) :
        h[T] = IF T = {} THEN 0 ELSE f[Taken(T)] + h[T \ {Taken(T)}]
  BY <1>2, <1>3 DEF UpTo
<1> QED BY <1>4 DEF Solvable

\* So there is one for all subsets of a finite set.
LEMMA AlwaysSolvable ==
  ASSUME NEW f, NEW S, IsFiniteSet(S)
  PROVE  Solvable(f, S, Cardinality(S))
<1> DEFINE B == {T \in SUBSET S : ~Solvable(f, S, Cardinality(T))}
<1>1. SUFFICES ASSUME B # {} PROVE FALSE
  OBVIOUS
<1>2. PICK T \in B : \A U \in B : U \subseteq T => U = T
  <2>1. B \subseteq SUBSET S
    OBVIOUS
  <2> HIDE DEF B
  <2> QED BY <2>1, <1>1, Smallest
<1>3. IsFiniteSet(T) /\ T \in SUBSET S
  BY FS_Subset
<1>4. CASE T = {}
  <2>1. \A U \in UpTo(S, 0) : U = {}
    <3> SUFFICES ASSUME NEW U \in UpTo(S, 0) PROVE U = {}
      OBVIOUS
    <3>1. IsFiniteSet(U) /\ Cardinality(U) \in Nat /\ Cardinality(U) <= 0
      BY FS_Subset, FS_CardinalityType DEF UpTo
    <3> QED BY <3>1, FS_EmptySet
  <2>2. \A U \in UpTo(S, 0) :
          [s \in SUBSET S |-> 0][U] =
            IF U = {} THEN 0 ELSE f[Taken(U)] + [s \in SUBSET S |-> 0][U \ {Taken(U)}]
    BY <2>1 DEF UpTo
  <2>3. Solvable(f, S, 0)
    BY <2>2 DEF Solvable
  <2> QED BY <1>4, <2>3, FS_EmptySet
<1>5. CASE T # {}
  <2>1. PICK x \in T : TRUE
    BY <1>5
  <2>2. Solvable(f, S, Cardinality(T \ {x}))
    BY <1>2, <1>3, <2>1
  <2>3. Cardinality(T \ {x}) = Cardinality(T) - 1 /\ Cardinality(T \ {x}) \in Nat
        /\ Cardinality(T) \in Nat
    BY <1>3, <2>1, FS_RemoveElement, FS_CardinalityType
  <2>4. Solvable(f, S, Cardinality(T \ {x}) + 1)
    BY <2>2, <2>3, SolvableStep
  <2> QED BY <2>3, <2>4
<1> QED BY <1>4, <1>5

\* The fold, which CHOOSE takes to be a solution, is one.
LEMMA FoldUnfolds ==
  ASSUME NEW f, NEW S, IsFiniteSet(S)
  PROVE  Fold(f, S) = Unfold(Fold(f, S), f, S)
<1>1. PICK g : \A T \in UpTo(S, Cardinality(S)) :
        g[T] = IF T = {} THEN 0 ELSE f[Taken(T)] + g[T \ {Taken(T)}]
  <2>1. Solvable(f, S, Cardinality(S))
    BY AlwaysSolvable
  <2> QED BY <2>1 DEF Solvable
<1>2. UpTo(S, Cardinality(S)) = SUBSET S
  BY FS_Subset DEF UpTo
<1> DEFINE h == [T \in SUBSET S |-> g[T]]
<1>3. h = Unfold(h, f, S)
  <2>1. \A T \in SUBSET S : h[T] = IF T = {} THEN 0 ELSE f[Taken(T)] + h[T \ {Taken(T)}]
    BY <1>1, <1>2
  <2> QED BY <2>1 DEF Unfold
<1> QED BY <1>3 DEF Fold

\* That equation at one subset.
LEMMA FoldAt ==
  ASSUME NEW f, NEW S, IsFiniteSet(S), NEW T \in SUBSET S
  PROVE  Fold(f, S)[T] = IF T = {} THEN 0 ELSE f[Taken(T)] + Fold(f, S)[T \ {Taken(T)}]
<1> DEFINE it == Fold(f, S)
<1>1. it = Unfold(it, f, S)
  BY FoldUnfolds
<1> HIDE DEF it
<1>2. Unfold(it, f, S)[T] = IF T = {} THEN 0 ELSE f[Taken(T)] + it[T \ {Taken(T)}]
  BY DEF Unfold
<1>3. it[T] = IF T = {} THEN 0 ELSE f[Taken(T)] + it[T \ {Taken(T)}]
  BY <1>1, <1>2
<1> QED BY <1>3 DEF it

\* Folds over a set and over a part of it agree on the subsets of the part.
LEMMA FoldsAgree ==
  ASSUME NEW f, NEW S, IsFiniteSet(S), NEW T \in SUBSET S, NEW U \in SUBSET T
  PROVE  Fold(f, S)[U] = Fold(f, T)[U]
<1> DEFINE B == {V \in SUBSET T : Fold(f, S)[V] # Fold(f, T)[V]}
<1>0. IsFiniteSet(T)
  BY FS_Subset
<1>1. SUFFICES ASSUME B # {} PROVE FALSE
  OBVIOUS
<1>2. PICK V \in B : \A W \in B : W \subseteq V => W = V
  <2>1. B \subseteq SUBSET T
    OBVIOUS
  <2> HIDE DEF B
  <2> QED BY <2>1, <1>0, <1>1, Smallest
<1>3. /\ Fold(f, S)[V] = IF V = {} THEN 0 ELSE f[Taken(V)] + Fold(f, S)[V \ {Taken(V)}]
      /\ Fold(f, T)[V] = IF V = {} THEN 0 ELSE f[Taken(V)] + Fold(f, T)[V \ {Taken(V)}]
  BY <1>0, FoldAt
<1>4. CASE V = {}
  BY <1>3, <1>4
<1>5. CASE V # {}
  <2>1. V \ {Taken(V)} \notin B
    BY <1>2, <1>5, TakenIsElement
  <2> QED BY <1>3, <1>5, <2>1
<1> QED BY <1>4, <1>5

-----------------------------------------------------------------------------
(* What the proofs about balances use.                                     *)

\* An empty sum is 0.
LEMMA SumEmpty == \A f : SumOver(f, {}) = 0
<1> TAKE f
<1>1. Fold(f, {})[{}] = 0
  BY FoldAt, FS_EmptySet
<1> QED BY <1>1, SumIsFold

\* A sum is the value of the element taken out and the sum of the rest.
LEMMA SumTaken ==
  ASSUME NEW f, NEW S, IsFiniteSet(S), S # {}
  PROVE  SumOver(f, S) = f[Taken(S)] + SumOver(f, S \ {Taken(S)})
<1>1. Fold(f, S)[S] = f[Taken(S)] + Fold(f, S)[S \ {Taken(S)}]
  BY FoldAt
<1>2. Fold(f, S)[S \ {Taken(S)}] = Fold(f, S \ {Taken(S)})[S \ {Taken(S)}]
  BY FoldsAgree
<1> QED BY <1>1, <1>2, SumIsFold

\* A sum of integers is one, and a sum of naturals is one.
LEMMA SumType ==
  ASSUME NEW f, NEW S, IsFiniteSet(S)
  PROVE  /\ (\A x \in S : f[x] \in Int) => SumOver(f, S) \in Int
         /\ (\A x \in S : f[x] \in Nat) => SumOver(f, S) \in Nat
<1> SUFFICES ASSUME NEW N \in {Int, Nat}, \A x \in S : f[x] \in N
             PROVE  SumOver(f, S) \in N
  OBVIOUS
<1> DEFINE B == {T \in SUBSET S : SumOver(f, T) \notin N}
<1>1. SUFFICES ASSUME B # {} PROVE FALSE
  OBVIOUS
<1>2. PICK T \in B : \A U \in B : U \subseteq T => U = T
  <2>1. B \subseteq SUBSET S
    OBVIOUS
  <2> HIDE DEF B
  <2> QED BY <2>1, <1>1, Smallest
<1>3. IsFiniteSet(T)
  BY FS_Subset
<1>4. CASE T = {}
  BY <1>4, SumEmpty
<1>5. CASE T # {}
  <2>1. SumOver(f, T \ {Taken(T)}) \in N /\ f[Taken(T)] \in N
    BY <1>2, <1>5, TakenIsElement
  <2>2. SumOver(f, T) = f[Taken(T)] + SumOver(f, T \ {Taken(T)})
    BY <1>3, <1>5, SumTaken
  <2> QED BY <2>1, <2>2
<1> QED BY <1>4, <1>5

\* Any element can be taken out first.
LEMMA SumRemove ==
  ASSUME NEW f, NEW S, IsFiniteSet(S), \A y \in S : f[y] \in Int, NEW x \in S
  PROVE  SumOver(f, S) = f[x] + SumOver(f, S \ {x})
<1> DEFINE B == {T \in SUBSET S : \E y \in T : SumOver(f, T) # f[y] + SumOver(f, T \ {y})}
<1>1. SUFFICES ASSUME B # {} PROVE FALSE
  OBVIOUS
<1>2. PICK T \in B : \A U \in B : U \subseteq T => U = T
  <2>1. B \subseteq SUBSET S
    OBVIOUS
  <2> HIDE DEF B
  <2> QED BY <2>1, <1>1, Smallest
<1>3. PICK y \in T : SumOver(f, T) # f[y] + SumOver(f, T \ {y})
  OBVIOUS
<1> DEFINE c == Taken(T)
           R == (T \ {c}) \ {y}
<1>4. IsFiniteSet(T) /\ IsFiniteSet(T \ {y}) /\ IsFiniteSet(T \ {c}) /\ IsFiniteSet(R) /\ c \in T
  BY FS_Subset, FS_RemoveElement, TakenIsElement
<1>5. SumOver(f, T) = f[c] + SumOver(f, T \ {c})
  BY <1>4, SumTaken
<1>6. c # y
  BY <1>3, <1>5
<1>7. SumOver(f, T \ {c}) = f[y] + SumOver(f, R)
  <2>1. T \ {c} \notin B /\ T \ {c} \in SUBSET S /\ y \in T \ {c}
    BY <1>2, <1>4, <1>6
  <2> QED BY <2>1
<1>8. SumOver(f, T \ {y}) = f[c] + SumOver(f, R)
  <2>1. T \ {y} \notin B /\ T \ {y} \in SUBSET S /\ c \in T \ {y} /\ (T \ {y}) \ {c} = R
    BY <1>2, <1>3, <1>4, <1>6
  <2> QED BY <2>1
<1>9. f[c] \in Int /\ f[y] \in Int /\ SumOver(f, R) \in Int
  BY <1>4, SumType
<1> QED BY <1>3, <1>5, <1>7, <1>8, <1>9

\* One more element adds its value.
LEMMA SumAdd ==
  ASSUME NEW f, NEW S, IsFiniteSet(S), NEW x, x \notin S, \A y \in S \cup {x} : f[y] \in Int
  PROVE  SumOver(f, S \cup {x}) = f[x] + SumOver(f, S)
<1>1. IsFiniteSet(S \cup {x}) /\ (S \cup {x}) \ {x} = S
  BY FS_AddElement
<1> QED BY <1>1, SumRemove

\* Only the values on the set count.
LEMMA SumCongruent ==
  ASSUME NEW f, NEW g, NEW S, IsFiniteSet(S), \A x \in S : f[x] = g[x]
  PROVE  SumOver(f, S) = SumOver(g, S)
<1> DEFINE B == {T \in SUBSET S : SumOver(f, T) # SumOver(g, T)}
<1>1. SUFFICES ASSUME B # {} PROVE FALSE
  OBVIOUS
<1>2. PICK T \in B : \A U \in B : U \subseteq T => U = T
  <2>1. B \subseteq SUBSET S
    OBVIOUS
  <2> HIDE DEF B
  <2> QED BY <2>1, <1>1, Smallest
<1>3. IsFiniteSet(T)
  BY FS_Subset
<1>4. CASE T = {}
  BY <1>4, SumEmpty
<1>5. CASE T # {}
  <2>1. SumOver(f, T \ {Taken(T)}) = SumOver(g, T \ {Taken(T)}) /\ f[Taken(T)] = g[Taken(T)]
    BY <1>2, <1>5, TakenIsElement
  <2>2. /\ SumOver(f, T) = f[Taken(T)] + SumOver(f, T \ {Taken(T)})
        /\ SumOver(g, T) = g[Taken(T)] + SumOver(g, T \ {Taken(T)})
    BY <1>3, <1>5, SumTaken
  <2> QED BY <2>1, <2>2
<1> QED BY <1>4, <1>5

\* Changing the value of one element changes the sum by as much.
LEMMA SumUpdate ==
  ASSUME NEW f, NEW g, NEW S, IsFiniteSet(S), NEW x \in S,
         \A y \in S : f[y] \in Int /\ g[y] \in Int,
         \A y \in S \ {x} : g[y] = f[y]
  PROVE  SumOver(g, S) = SumOver(f, S) + (g[x] - f[x])
<1>1. IsFiniteSet(S \ {x})
  BY FS_RemoveElement
<1>2. SumOver(g, S) = g[x] + SumOver(g, S \ {x}) /\ SumOver(f, S) = f[x] + SumOver(f, S \ {x})
  BY SumRemove
<1>3. SumOver(g, S \ {x}) = SumOver(f, S \ {x})
  BY <1>1, SumCongruent
<1>4. SumOver(f, S \ {x}) \in Int /\ f[x] \in Int /\ g[x] \in Int
  BY <1>1, SumType
<1> QED BY <1>2, <1>3, <1>4
\* If everywhere f is at least minus half of g, so it is of their sums.
LEMMA SumsOfHalves ==
  ASSUME NEW f, NEW g, NEW S, IsFiniteSet(S),
         \A x \in S : f[x] \in Int /\ g[x] \in Int /\ 2 * f[x] + g[x] >= 0
  PROVE  2 * SumOver(f, S) + SumOver(g, S) >= 0
<1> DEFINE B == {T \in SUBSET S : ~(2 * SumOver(f, T) + SumOver(g, T) >= 0)}
<1>1. SUFFICES ASSUME B # {} PROVE FALSE
  OBVIOUS
<1>2. PICK T \in B : \A U \in B : U \subseteq T => U = T
  <2>1. B \subseteq SUBSET S
    OBVIOUS
  <2> HIDE DEF B
  <2> QED BY <2>1, <1>1, Smallest
<1>3. IsFiniteSet(T)
  BY FS_Subset
<1>4. CASE T = {}
  BY <1>4, SumEmpty
<1>5. CASE T # {}
  <2> DEFINE t == Taken(T)
             R == T \ {t}
  <2>1. t \in T /\ IsFiniteSet(R)
    BY <1>3, <1>5, TakenIsElement, FS_RemoveElement
  <2>2. 2 * SumOver(f, R) + SumOver(g, R) >= 0 /\ 2 * f[t] + g[t] >= 0
    BY <1>2, <2>1
  <2>3. SumOver(f, T) = f[t] + SumOver(f, R) /\ SumOver(g, T) = g[t] + SumOver(g, R)
    BY <1>3, <1>5, SumTaken
  <2>4. /\ f[t] \in Int /\ g[t] \in Int
        /\ SumOver(f, R) \in Int /\ SumOver(g, R) \in Int
    BY <2>1, SumType
  <2>5. ~(2 * SumOver(f, T) + SumOver(g, T) >= 0)
    OBVIOUS
  <2> HIDE DEF t, R, B
  <2> QED BY <2>2, <2>3, <2>4, <2>5
<1> QED BY <1>4, <1>5
=============================================================================
