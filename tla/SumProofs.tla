------------------------------ MODULE SumProofs ------------------------------
(***************************************************************************)
(* What SumFunctionOnSet computes, for every function and every finite     *)
(* set: the slots of the gateway and the bytes of the media store are      *)
(* counters of the code whose properties speak of such sums.  Nothing here *)
(* is about the program.                                                   *)
(*                                                                         *)
(* The sum is a recursive function on the subsets of its set.  Induction   *)
(* is by a set of naturals (SetInduction), which follows from the          *)
(* well-foundedness of < and is cited without an operator parameter.       *)
(***************************************************************************)
EXTENDS Naturals, FiniteSets, Functions, FiniteSetTheorems, WellFoundedInduction, TLAPS

\* A set that has 0 and, with n, n + 1, has every natural number.
LEMMA SetInduction ==
  ASSUME NEW S, 0 \in S, \A n \in Nat : n \in S => n + 1 \in S
  PROVE  Nat \subseteq S
  <1> DEFINE T == {n \in Nat : n \notin S}
  <1> DEFINE R == OpToRel(<, Nat)
  <1> SUFFICES ASSUME T # {} PROVE FALSE
    OBVIOUS
  <1>1. PICK x \in T : \A y \in T : ~ (<<y, x>> \in R)
    <2>1. IsWellFoundedOn(R, Nat)
      BY NatLessThanWellFounded
    <2>2. T \subseteq Nat
      OBVIOUS
    <2> HIDE DEF T, R
    <2> QED
      BY <2>1, <2>2, WFMin
  <1>2. x \in Nat /\ x # 0 /\ x - 1 \in Nat /\ x - 1 < x
    OBVIOUS
  <1>3. x - 1 \in T
    BY <1>2
  <1>4. <<x - 1, x>> \in R
    BY <1>2 DEF OpToRel
  <1> QED
    BY <1>1, <1>3, <1>4

-----------------------------------------------------------------------------
(* The recursion has a solution, and all solutions agree. *)

Pick(s) == CHOOSE x \in s : TRUE

SumStep(f, g, s) == IF s = {} THEN 0 ELSE f[Pick(s)] + g[s \ {Pick(s)}]

\* g is a solution on the members of D.
Solves(f, g, D) == g = [s \in D |-> SumStep(f, g, s)]

Small(S, n) == {s \in SUBSET S : Cardinality(s) <= n}

\* What is chosen is a member, and the rest is smaller.
LEMMA PickRest ==
  ASSUME NEW s, IsFiniteSet(s), s # {}
  PROVE  /\ Pick(s) \in s
         /\ IsFiniteSet(s \ {Pick(s)})
         /\ Cardinality(s) \in Nat
         /\ Cardinality(s \ {Pick(s)}) = Cardinality(s) - 1
  <1>1. Pick(s) \in s
    BY DEF Pick
  <1>2. Cardinality(s) \in Nat
    BY FS_CardinalityType
  <1> QED
    BY <1>1, <1>2, FS_RemoveElement

\* The recursion has a solution on the subsets of a finite set.
LEMMA SolutionExists ==
  ASSUME NEW f, NEW S, IsFiniteSet(S)
  PROVE  \E g : Solves(f, g, SUBSET S)
  <1> DEFINE N == {n \in Nat : \E g : Solves(f, g, Small(S, n))}
  <1>0. \A s \in SUBSET S : IsFiniteSet(s) /\ Cardinality(s) \in Nat
    BY FS_Subset, FS_CardinalityType
  <1>1. 0 \in N
    <2> DEFINE g == [s \in Small(S, 0) |-> 0]
    <2>1. \A s \in Small(S, 0) : s = {}
      BY <1>0, FS_EmptySet DEF Small
    <2>2. g = [s \in Small(S, 0) |-> SumStep(f, g, s)]
      BY <2>1 DEF SumStep
    <2> QED
      BY <2>2 DEF Solves
  <1>2. ASSUME NEW n \in Nat, n \in N PROVE n + 1 \in N
    <2>1. PICK g : Solves(f, g, Small(S, n))
      BY <1>2
    <2> DEFINE h == [s \in Small(S, n + 1) |-> SumStep(f, g, s)]
    <2>2. ASSUME NEW s \in Small(S, n + 1) PROVE SumStep(f, g, s) = SumStep(f, h, s)
      <3>1. CASE s = {}
        BY <3>1 DEF SumStep
      <3>2. CASE s # {}
        <4> DEFINE r == s \ {Pick(s)}
        <4>1. Cardinality(r) = Cardinality(s) - 1 /\ Cardinality(r) \in Nat /\ r \in SUBSET S
              /\ Cardinality(s) \in Nat /\ Cardinality(s) <= n + 1
          BY <3>2, <1>0, PickRest DEF Small
        <4>2. r \in Small(S, n) /\ r \in Small(S, n + 1)
          BY <4>1 DEF Small
        <4>3. h[r] = SumStep(f, g, r) /\ g[r] = SumStep(f, g, r)
          BY <4>2, <2>1 DEF Solves
        <4> QED
          BY <4>3, <3>2 DEF SumStep
      <3> QED
        BY <3>1, <3>2
    <2>3. h = [s \in Small(S, n + 1) |-> SumStep(f, h, s)]
      BY <2>2
    <2>4. Solves(f, h, Small(S, n + 1))
      BY <2>3 DEF Solves
    <2> QED
      BY <2>4
  <1>3. Nat \subseteq N
    <2> HIDE DEF N
    <2> QED
      BY <1>1, <1>2, SetInduction
  <1>4. Cardinality(S) \in N
    BY <1>3, <1>0
  <1>5. Small(S, Cardinality(S)) = SUBSET S
    BY FS_Subset DEF Small
  <1> QED
    BY <1>4, <1>5

\* Two solutions agree wherever both are defined.
LEMMA SolutionsAgree ==
  ASSUME NEW f, NEW S, NEW T \in SUBSET S, IsFiniteSet(S), NEW g, NEW h,
         Solves(f, g, SUBSET S), Solves(f, h, SUBSET T)
  PROVE  g[T] = h[T]
  <1> DEFINE N == {n \in Nat : \A s \in SUBSET T : Cardinality(s) = n => g[s] = h[s]}
  <1>0. \A s \in SUBSET T : IsFiniteSet(s) /\ Cardinality(s) \in Nat /\ s \in SUBSET S
    BY FS_Subset, FS_CardinalityType
  <1>1. \A s \in SUBSET T : g[s] = SumStep(f, g, s) /\ h[s] = SumStep(f, h, s)
    BY DEF Solves
  <1>2. 0 \in N
    BY <1>0, <1>1, FS_EmptySet DEF SumStep
  <1>3. ASSUME NEW n \in Nat, n \in N PROVE n + 1 \in N
    <2> SUFFICES ASSUME NEW s \in SUBSET T, Cardinality(s) = n + 1 PROVE g[s] = h[s]
      OBVIOUS
    <2>1. s # {}
      BY <1>3, FS_EmptySet
    <2> DEFINE r == s \ {Pick(s)}
    <2>2. Cardinality(r) = n /\ r \in SUBSET T
      BY <2>1, <1>0, PickRest
    <2>3. g[r] = h[r]
      BY <2>2, <1>3
    <2> QED
      BY <2>1, <2>3, <1>1 DEF SumStep
  <1>4. Nat \subseteq N
    <2> HIDE DEF N
    <2> QED
      BY <1>2, <1>3, SetInduction
  <1> QED
    BY <1>4, <1>0

-----------------------------------------------------------------------------
(* The sum. *)

\* The recursion the library's definition stands for.
LEMMA SumIsSolution ==
  ASSUME NEW f, NEW S, IsFiniteSet(S)
  PROVE  \E g : Solves(f, g, SUBSET S) /\ SumFunctionOnSet(f, S) = g[S]
  <1> DEFINE iter == CHOOSE g : Solves(f, g, SUBSET S)
  <1>1. Solves(f, iter, SUBSET S)
    BY SolutionExists
  <1>2. SumFunctionOnSet(f, S) = iter[S]
    BY DEF SumFunctionOnSet, FoldFunctionOnSet, MapThenFoldSet, Solves, SumStep, Pick
  <1> QED
    BY <1>1, <1>2

\* The sum over nothing is 0, and any other is its chosen member's value and the rest.
LEMMA SumRecursion ==
  ASSUME NEW f, NEW S, IsFiniteSet(S)
  PROVE  SumFunctionOnSet(f, S) =
            IF S = {} THEN 0 ELSE f[Pick(S)] + SumFunctionOnSet(f, S \ {Pick(S)})
  <1>1. PICK g : Solves(f, g, SUBSET S) /\ SumFunctionOnSet(f, S) = g[S]
    BY SumIsSolution
  <1>2. g[S] = SumStep(f, g, S)
    BY <1>1 DEF Solves
  <1>3. CASE S = {}
    BY <1>1, <1>2, <1>3 DEF SumStep
  <1>4. CASE S # {}
    <2> DEFINE R == S \ {Pick(S)}
    <2>1. IsFiniteSet(R) /\ R \in SUBSET S
      BY <1>4, PickRest
    <2>2. PICK h : Solves(f, h, SUBSET R) /\ SumFunctionOnSet(f, R) = h[R]
      BY <2>1, SumIsSolution
    <2>3. g[R] = h[R]
      <3> HIDE DEF R
      <3> QED
        BY <1>1, <2>1, <2>2, SolutionsAgree
    <2> QED
      BY <1>1, <1>2, <1>4, <2>2, <2>3 DEF SumStep
  <1> QED
    BY <1>3, <1>4

\* Nothing sums to 0.
LEMMA SumEmpty ==
  ASSUME NEW f
  PROVE  SumFunctionOnSet(f, {}) = 0
  BY SumRecursion, FS_EmptySet

\* A sum of naturals is a natural.
LEMMA SumType ==
  ASSUME NEW f, NEW S, IsFiniteSet(S), \A x \in S : f[x] \in Nat
  PROVE  SumFunctionOnSet(f, S) \in Nat
  <1> DEFINE N == {n \in Nat : \A s \in SUBSET S : Cardinality(s) = n => SumFunctionOnSet(f, s) \in Nat}
  <1>0. \A s \in SUBSET S : IsFiniteSet(s) /\ Cardinality(s) \in Nat
    BY FS_Subset, FS_CardinalityType
  <1>1. 0 \in N
    BY <1>0, SumEmpty, FS_EmptySet
  <1>2. ASSUME NEW n \in Nat, n \in N PROVE n + 1 \in N
    <2> SUFFICES ASSUME NEW s \in SUBSET S, Cardinality(s) = n + 1
                 PROVE  SumFunctionOnSet(f, s) \in Nat
      OBVIOUS
    <2>1. s # {}
      BY FS_EmptySet
    <2> DEFINE r == s \ {Pick(s)}
    <2>2. Cardinality(r) = n /\ r \in SUBSET S /\ Pick(s) \in S
      BY <2>1, <1>0, PickRest
    <2>3. SumFunctionOnSet(f, r) \in Nat
      BY <2>2, <1>2
    <2> QED
      BY <2>1, <2>2, <2>3, <1>0, SumRecursion
  <1>3. Nat \subseteq N
    <2> HIDE DEF N
    <2> QED
      BY <1>1, <1>2, SetInduction
  <1> QED
    BY <1>3, <1>0

\* Any member may be taken out first.
LEMMA SumRemove ==
  ASSUME NEW f, NEW S, IsFiniteSet(S), \A x \in S : f[x] \in Nat, NEW y \in S
  PROVE  SumFunctionOnSet(f, S) = f[y] + SumFunctionOnSet(f, S \ {y})
  <1> DEFINE Taken(s, x) == SumFunctionOnSet(f, s) = f[x] + SumFunctionOnSet(f, s \ {x})
  <1> DEFINE N == {n \in Nat : \A s \in SUBSET S : Cardinality(s) = n => \A x \in s : Taken(s, x)}
  <1>0. \A s \in SUBSET S : IsFiniteSet(s) /\ Cardinality(s) \in Nat
    BY FS_Subset, FS_CardinalityType
  <1>1. 0 \in N
    BY <1>0, FS_EmptySet
  <1>2. ASSUME NEW n \in Nat, n \in N PROVE n + 1 \in N
    <2> SUFFICES ASSUME NEW s \in SUBSET S, Cardinality(s) = n + 1, NEW x \in s
                 PROVE  Taken(s, x)
      OBVIOUS
    <2>1. s # {}
      OBVIOUS
    <2> DEFINE p == Pick(s)
    <2>2. p \in s /\ Cardinality(s \ {p}) = n /\ SumFunctionOnSet(f, s) = f[p] + SumFunctionOnSet(f, s \ {p})
      BY <2>1, <1>0, PickRest, SumRecursion
    <2>3. CASE x = p
      BY <2>2, <2>3
    <2>4. CASE x # p
      <3>1. Taken(s \ {p}, x)
        BY <2>2, <2>4, <1>2
      <3>2. Cardinality(s \ {x}) = n
        <4>1. IsFiniteSet(s)
          BY <1>0
        <4>2. Cardinality(s \ {x}) = Cardinality(s) - 1
          BY <4>1, FS_RemoveElement
        <4> QED
          BY <4>2
      <3>3. Taken(s \ {x}, p)
        BY <2>2, <2>4, <3>2, <1>2
      <3> DEFINE rest == s \ {x, p}
      <3>4. (s \ {p}) \ {x} = rest /\ (s \ {x}) \ {p} = rest
        OBVIOUS
      <3>5. SumFunctionOnSet(f, s \ {p}) = f[x] + SumFunctionOnSet(f, rest)
        BY <3>1, <3>4
      <3>6. SumFunctionOnSet(f, s \ {x}) = f[p] + SumFunctionOnSet(f, rest)
        BY <3>3, <3>4
      <3>7. f[p] \in Nat /\ f[x] \in Nat
        BY <2>2
      <3>8. SumFunctionOnSet(f, rest) \in Nat
        <4>1. rest \in SUBSET S
          OBVIOUS
        <4> QED
          BY <4>1, <1>0, SumType
      <3> HIDE DEF p, rest
      <3> QED
        BY <2>2, <3>5, <3>6, <3>7, <3>8
    <2> QED
      BY <2>3, <2>4
  <1>3. Nat \subseteq N
    <2> HIDE DEF N
    <2> QED
      BY <1>1, <1>2, SetInduction
  <1> QED
    BY <1>3, <1>0

\* A new member adds its value.
LEMMA SumAdd ==
  ASSUME NEW f, NEW S, IsFiniteSet(S), NEW y, y \notin S, \A x \in S \cup {y} : f[x] \in Nat
  PROVE  SumFunctionOnSet(f, S \cup {y}) = SumFunctionOnSet(f, S) + f[y]
  <1>1. IsFiniteSet(S \cup {y}) /\ (S \cup {y}) \ {y} = S
    BY FS_AddElement
  <1>2. SumFunctionOnSet(f, S \cup {y}) = f[y] + SumFunctionOnSet(f, S)
    BY <1>1, SumRemove
  <1>3. f[y] \in Nat /\ SumFunctionOnSet(f, S) \in Nat
    BY SumType
  <1> QED
    BY <1>2, <1>3

\* A sum depends on the values at its members alone.
LEMMA SumSame ==
  ASSUME NEW f, NEW g, NEW S, IsFiniteSet(S), \A x \in S : f[x] = g[x]
  PROVE  SumFunctionOnSet(f, S) = SumFunctionOnSet(g, S)
  <1> DEFINE N == {n \in Nat : \A s \in SUBSET S :
                       Cardinality(s) = n => SumFunctionOnSet(f, s) = SumFunctionOnSet(g, s)}
  <1>0. \A s \in SUBSET S : IsFiniteSet(s) /\ Cardinality(s) \in Nat
    BY FS_Subset, FS_CardinalityType
  <1>1. 0 \in N
    BY <1>0, SumEmpty, FS_EmptySet
  <1>2. ASSUME NEW n \in Nat, n \in N PROVE n + 1 \in N
    <2> SUFFICES ASSUME NEW s \in SUBSET S, Cardinality(s) = n + 1
                 PROVE  SumFunctionOnSet(f, s) = SumFunctionOnSet(g, s)
      OBVIOUS
    <2>1. s # {}
      BY FS_EmptySet
    <2> DEFINE r == s \ {Pick(s)}
    <2>2. Cardinality(r) = n /\ r \in SUBSET S /\ Pick(s) \in S
      BY <2>1, <1>0, PickRest
    <2>3. SumFunctionOnSet(f, r) = SumFunctionOnSet(g, r)
      BY <2>2, <1>2
    <2> QED
      BY <2>1, <2>2, <2>3, <1>0, SumRecursion
  <1>3. Nat \subseteq N
    <2> HIDE DEF N
    <2> QED
      BY <1>1, <1>2, SetInduction
  <1> QED
    BY <1>3, <1>0

\* A change of one member's value changes the sum by as much.
LEMMA SumUpdate ==
  ASSUME NEW f, NEW g, NEW S, IsFiniteSet(S), NEW y \in S,
         \A x \in S : f[x] \in Nat /\ g[x] \in Nat,
         \A x \in S : x # y => g[x] = f[x]
  PROVE  SumFunctionOnSet(g, S) + f[y] = SumFunctionOnSet(f, S) + g[y]
  <1> DEFINE R == S \ {y}
  <1>1. IsFiniteSet(R) /\ y \notin R
    BY FS_RemoveElement
  <1>2. SumFunctionOnSet(f, S) = f[y] + SumFunctionOnSet(f, R)
    BY SumRemove
  <1>3. SumFunctionOnSet(g, S) = g[y] + SumFunctionOnSet(g, R)
    BY SumRemove
  <1>4. SumFunctionOnSet(f, R) = SumFunctionOnSet(g, R)
    BY <1>1, SumSame
  <1>5. SumFunctionOnSet(f, R) \in Nat
    BY <1>1, SumType
  <1>6. f[y] \in Nat /\ g[y] \in Nat
    OBVIOUS
  <1> HIDE DEF R
  <1> QED
    BY <1>2, <1>3, <1>4, <1>5, <1>6

\* A sum is that of a part and that of the rest.
LEMMA SumSplit ==
  ASSUME NEW f, NEW S, IsFiniteSet(S), \A x \in S : f[x] \in Nat, NEW T \in SUBSET S
  PROVE  SumFunctionOnSet(f, S) = SumFunctionOnSet(f, T) + SumFunctionOnSet(f, S \ T)
  <1> DEFINE Split(t) == SumFunctionOnSet(f, S) = SumFunctionOnSet(f, t) + SumFunctionOnSet(f, S \ t)
  <1> DEFINE N == {n \in Nat : \A t \in SUBSET S : Cardinality(t) = n => Split(t)}
  <1>0. \A s \in SUBSET S : /\ IsFiniteSet(s) /\ Cardinality(s) \in Nat
                            /\ SumFunctionOnSet(f, s) \in Nat
    BY FS_Subset, FS_CardinalityType, SumType
  <1>1. 0 \in N
    <2>1. Split({})
      BY <1>0, SumEmpty
    <2> HIDE DEF Split
    <2> QED
      BY <2>1, <1>0, FS_EmptySet
  <1>2. ASSUME NEW n \in Nat, n \in N PROVE n + 1 \in N
    <2> SUFFICES ASSUME NEW t \in SUBSET S, Cardinality(t) = n + 1 PROVE Split(t)
      OBVIOUS
    <2>1. PICK x : x \in t
      BY FS_EmptySet
    <2> DEFINE r == t \ {x}
    <2>2. Cardinality(r) = n /\ r \in SUBSET S
      BY <2>1, <1>0, FS_RemoveElement
    <2>3. Split(r)
      BY <2>2, <1>2
    <2>4. SumFunctionOnSet(f, t) = f[x] + SumFunctionOnSet(f, r)
      BY <2>1, <1>0, SumRemove
    <2>5. x \in S \ r /\ (S \ r) \ {x} = S \ t
      BY <2>1
    <2>6. SumFunctionOnSet(f, S \ r) = f[x] + SumFunctionOnSet(f, S \ t)
      <3>1. S \ r \in SUBSET S
        OBVIOUS
      <3> QED
        BY <3>1, <2>5, <1>0, SumRemove
    <2>7. f[x] \in Nat /\ SumFunctionOnSet(f, r) \in Nat /\ SumFunctionOnSet(f, S \ t) \in Nat
      BY <2>1, <2>2, <1>0
    <2> HIDE DEF r
    <2> QED
      BY <2>3, <2>4, <2>6, <2>7
  <1>3. Nat \subseteq N
    <2> HIDE DEF N
    <2> QED
      BY <1>1, <1>2, SetInduction
  <1> QED
    BY <1>3, <1>0
\* Zeros sum to 0.
LEMMA SumZero ==
  ASSUME NEW f, NEW S, IsFiniteSet(S), \A x \in S : f[x] = 0
  PROVE  SumFunctionOnSet(f, S) = 0
  <1> DEFINE N == {n \in Nat : \A s \in SUBSET S : Cardinality(s) = n => SumFunctionOnSet(f, s) = 0}
  <1>0. \A s \in SUBSET S : IsFiniteSet(s) /\ Cardinality(s) \in Nat
    BY FS_Subset, FS_CardinalityType
  <1>1. 0 \in N
    BY <1>0, SumEmpty, FS_EmptySet
  <1>2. ASSUME NEW n \in Nat, n \in N PROVE n + 1 \in N
    <2> SUFFICES ASSUME NEW s \in SUBSET S, Cardinality(s) = n + 1
                 PROVE  SumFunctionOnSet(f, s) = 0
      OBVIOUS
    <2>1. s # {}
      BY FS_EmptySet
    <2> DEFINE r == s \ {Pick(s)}
    <2>2. Cardinality(r) = n /\ r \in SUBSET S /\ Pick(s) \in S
      BY <2>1, <1>0, PickRest
    <2>3. SumFunctionOnSet(f, r) = 0
      BY <2>2, <1>2
    <2> QED
      BY <2>1, <2>2, <2>3, <1>0, SumRecursion
  <1>3. Nat \subseteq N
    <2> HIDE DEF N
    <2> QED
      BY <1>1, <1>2, SetInduction
  <1> QED
    BY <1>3, <1>0

\* Members with value 0 may be left out.
LEMMA SumWithin ==
  ASSUME NEW f, NEW S, IsFiniteSet(S), \A x \in S : f[x] \in Nat, NEW T \in SUBSET S,
         \A x \in S \ T : f[x] = 0
  PROVE  SumFunctionOnSet(f, S) = SumFunctionOnSet(f, T)
  <1>1. IsFiniteSet(T) /\ IsFiniteSet(S \ T)
    BY FS_Subset
  <1>2. SumFunctionOnSet(f, S \ T) = 0
    BY <1>1, SumZero
  <1>3. SumFunctionOnSet(f, T) \in Nat
    BY <1>1, SumType
  <1> QED
    BY <1>2, <1>3, SumSplit

\* A set that differs at one element has one more, one less or as many.
LEMMA CountMoves ==
  ASSUME NEW S, NEW T, IsFiniteSet(S), NEW x, S \ {x} = T \ {x}
  PROVE  /\ IsFiniteSet(T) /\ Cardinality(S) \in Nat /\ Cardinality(T) \in Nat
         /\ Cardinality(T) + (IF x \in S THEN 1 ELSE 0) = Cardinality(S) + (IF x \in T THEN 1 ELSE 0)
  <1>1. IsFiniteSet(S \ {x}) /\ Cardinality(S) \in Nat
    BY FS_RemoveElement, FS_CardinalityType
  <1>2. Cardinality(S \ {x}) = IF x \in S THEN Cardinality(S) - 1 ELSE Cardinality(S)
    BY FS_RemoveElement
  <1>3. IsFiniteSet((T \ {x}) \cup {x})
    BY <1>1, FS_AddElement
  <1>4. IsFiniteSet(T)
    <2>1. T \subseteq ((T \ {x}) \cup {x})
      OBVIOUS
    <2> QED
      BY <2>1, <1>3, FS_Subset
  <1>5. Cardinality(T \ {x}) = IF x \in T THEN Cardinality(T) - 1 ELSE Cardinality(T)
    BY <1>4, FS_RemoveElement
  <1>6. Cardinality(T) \in Nat
    BY <1>4, FS_CardinalityType
  <1> DEFINE cs == Cardinality(S)
  <1> DEFINE ct == Cardinality(T)
  <1>7. (IF x \in T THEN ct - 1 ELSE ct) = (IF x \in S THEN cs - 1 ELSE cs)
    BY <1>2, <1>5
  <1>8. cs \in Nat /\ ct \in Nat
    BY <1>1, <1>6
  <1>9. ct + (IF x \in S THEN 1 ELSE 0) = cs + (IF x \in T THEN 1 ELSE 0)
    <2> HIDE DEF cs, ct
    <2> QED
      BY <1>7, <1>8
  <1> QED
    BY <1>4, <1>8, <1>9

=============================================================================
