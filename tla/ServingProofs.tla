---------------------------- MODULE ServingProofs ----------------------------
(***************************************************************************)
(* The gateway, the runtime and the access decisions, for any callers,     *)
(* requests, limits and configurations.                                    *)
(***************************************************************************)
EXTENDS AccessQuestions, Runtime, Gateway, SumProofs

-----------------------------------------------------------------------------
(* The access decisions: AuthorizeSound and DiscoveryHonest.  The pass over *)
(* the policies comes first: it keeps the most specific ones that apply.    *)

\* The questions alone, whatever the other parts do.
AccessSpec == AccessInit /\ [][AccessNext]_accessVars

PassStep(ps, id, g, s) == IF s = {} THEN NonePassed ELSE KeepBest(g[s \ {Max(s)}], ps[Max(s)], id)

\* g is the pass over the policies of every set of places in D.
Passes(ps, id, g, D) == g = [s \in D |-> PassStep(ps, id, g, s)]

\* A set of places has a last one.
LEMMA LastPlace ==
  ASSUME NEW n \in Nat, NEW s \in SUBSET (1..n), s # {}
  PROVE  Max(s) \in s /\ \A i \in s : Max(s) >= i
  <1> DEFINE N == {k \in Nat : \A t \in SUBSET (1..k) : t # {} => \E m \in t : \A i \in t : m >= i}
  <1>1. 0 \in N
    <2>1. 1..0 = {}
      OBVIOUS
    <2> QED
      BY <2>1
  <1>2. ASSUME NEW k \in Nat, k \in N PROVE k + 1 \in N
    <2> SUFFICES ASSUME NEW t \in SUBSET (1..(k + 1)), t # {}
                 PROVE  \E m \in t : \A i \in t : m >= i
      OBVIOUS
    <2>1. CASE k + 1 \in t
      BY <2>1
    <2>2. CASE k + 1 \notin t
      <3>1. t \in SUBSET (1..k)
        BY <2>2
      <3> QED
        BY <3>1, <1>2
    <2> QED
      BY <2>1, <2>2
  <1>3. n \in N
    <2> HIDE DEF N
    <2> QED
      BY <1>1, <1>2, SetInduction
  <1>4. \E m \in s : \A i \in s : m >= i
    BY <1>3
  <1> QED
    BY <1>4 DEF Max

\* The pass is defined on all sets of places.
LEMMA PassExists ==
  ASSUME NEW ps, NEW id, NEW n \in Nat
  PROVE  \E g : Passes(ps, id, g, SUBSET (1..n))
  <1> DEFINE S == 1..n
             N == {k \in Nat : \E g : Passes(ps, id, g, Small(S, k))}
  <1>0. /\ IsFiniteSet(S)
        /\ \A s \in SUBSET S : IsFiniteSet(s) /\ Cardinality(s) \in Nat
    <2>1. IsFiniteSet(S)
      BY FS_Interval
    <2> HIDE DEF S
    <2> QED
      BY <2>1, FS_Subset, FS_CardinalityType
  <1>1. 0 \in N
    <2> DEFINE g == [s \in Small(S, 0) |-> NonePassed]
    <2>1. \A s \in Small(S, 0) : s = {}
      BY <1>0, FS_EmptySet DEF Small
    <2>2. g = [s \in Small(S, 0) |-> PassStep(ps, id, g, s)]
      BY <2>1 DEF PassStep
    <2> QED
      BY <2>2 DEF Passes
  <1>2. ASSUME NEW k \in Nat, k \in N PROVE k + 1 \in N
    <2>1. PICK g : Passes(ps, id, g, Small(S, k))
      BY <1>2
    <2> DEFINE h == [s \in Small(S, k + 1) |-> PassStep(ps, id, g, s)]
    <2>2. ASSUME NEW s \in Small(S, k + 1) PROVE PassStep(ps, id, g, s) = PassStep(ps, id, h, s)
      <3>1. CASE s = {}
        BY <3>1 DEF PassStep
      <3>2. CASE s # {}
        <4> DEFINE r == s \ {Max(s)}
        <4>0. Max(s) \in s /\ s \in SUBSET S /\ IsFiniteSet(s)
          BY <3>2, <1>0, LastPlace DEF Small
        <4>1. Cardinality(r) = Cardinality(s) - 1 /\ Cardinality(r) \in Nat /\ r \in SUBSET S
              /\ Cardinality(s) \in Nat /\ Cardinality(s) <= k + 1
          BY <4>0, <1>0, FS_RemoveElement DEF Small
        <4>2. r \in Small(S, k) /\ r \in Small(S, k + 1)
          BY <4>1 DEF Small
        <4>3. h[r] = PassStep(ps, id, g, r) /\ g[r] = PassStep(ps, id, g, r)
          BY <4>2, <2>1 DEF Passes
        <4> QED
          BY <4>3, <3>2 DEF PassStep
      <3> QED
        BY <3>1, <3>2
    <2>3. h = [s \in Small(S, k + 1) |-> PassStep(ps, id, h, s)]
      BY <2>2
    <2>4. Passes(ps, id, h, Small(S, k + 1))
      BY <2>3 DEF Passes
    <2> QED
      BY <2>4
  <1>3. Nat \subseteq N
    <2> HIDE DEF N
    <2> QED
      BY <1>1, <1>2, SetInduction
  <1>4. Cardinality(S) \in N
    BY <1>3, <1>0
  <1>5. Small(S, Cardinality(S)) = SUBSET S
    BY <1>0, FS_Subset DEF Small
  <1> QED
    BY <1>4, <1>5

\* The code's loop is the pass over all places.
LEMMA LoopIsPass ==
  ASSUME NEW ps, NEW id, NEW n \in Nat, DOMAIN ps = 1..n
  PROVE  \E g : Passes(ps, id, g, SUBSET (1..n)) /\ ApplicablePolicies(ps, id) = g[1..n].found
  <1> DEFINE iter == CHOOSE g : Passes(ps, id, g, SUBSET (1..n))
  <1>1. Passes(ps, id, iter, SUBSET (1..n))
    BY PassExists
  <1>2. ApplicablePolicies(ps, id) = iter[1..n].found
    BY DEF ApplicablePolicies, FoldLeft, MapThenFoldSet, Passes, PassStep
  <1> QED
    BY <1>1, <1>2

-----------------------------------------------------------------------------
(* What the pass keeps. *)

Applying(ps, id, k) == {i \in 1..k : PolicyApplies(ps[i], id)}

\* acc is what is kept of the first k policies: the best, and all its ties.
Kept(ps, id, acc, k) ==
    /\ DOMAIN acc = {"best", "some", "found"}
    /\ acc.best \in Nat /\ acc.found \in Seq(ToSet(ps))
    /\ acc.some \in BOOLEAN /\ (acc.some <=> Applying(ps, id, k) # {})
    /\ ~acc.some => acc.best = 0
    /\ acc.some => \E i \in Applying(ps, id, k) : PolicySpecificity(ps[i]) = acc.best
    /\ \A i \in Applying(ps, id, k) : PolicySpecificity(ps[i]) <= acc.best
    /\ ToSet(acc.found) = {ps[i] : i \in {j \in Applying(ps, id, k) : PolicySpecificity(ps[j]) = acc.best}}

\* How specific a policy may be.
LEMMA SpecificityRange ==
  ASSUME NEW p
  PROVE  PolicySpecificity(p) \in 0..2
  BY DEF PolicySpecificity

\* The members of a sequence and of one with an element appended.
LEMMA OneAppended ==
  ASSUME NEW S, NEW q \in Seq(S), NEW e \in S
  PROVE  Append(q, e) \in Seq(S) /\ ToSet(Append(q, e)) = ToSet(q) \cup {e}
  <1>1. /\ Append(q, e) \in Seq(S) /\ Len(q) \in Nat
        /\ DOMAIN q = 1..Len(q) /\ DOMAIN Append(q, e) = 1..(Len(q) + 1)
        /\ Append(q, e)[Len(q) + 1] = e
        /\ \A i \in 1..Len(q) : Append(q, e)[i] = q[i]
    OBVIOUS
  <1>2. ToSet(q) = {q[i] : i \in 1..Len(q)}
    BY <1>1 DEF ToSet
  <1>3. ToSet(Append(q, e)) = {Append(q, e)[i] : i \in 1..(Len(q) + 1)}
    BY <1>1 DEF ToSet
  <1>4. 1..(Len(q) + 1) = 1..Len(q) \cup {Len(q) + 1}
    BY <1>1
  <1> QED
    BY <1>1, <1>2, <1>3, <1>4

\* One policy more.
LEMMA KeepBestKeeps ==
  ASSUME NEW ps, NEW id, NEW k \in Nat, k + 1 \in DOMAIN ps, NEW acc, Kept(ps, id, acc, k)
  PROVE  Kept(ps, id, KeepBest(acc, ps[k + 1], id), k + 1)
  <1> DEFINE p == ps[k + 1]
             s == PolicySpecificity(ps[k + 1])
             A == Applying(ps, id, k)
             B == Applying(ps, id, k + 1)
             n == KeepBest(acc, ps[k + 1], id)
  <1>1. s \in Nat /\ \A i \in A : PolicySpecificity(ps[i]) \in Nat
    BY SpecificityRange
  <1>2. p \in ToSet(ps)
    BY DEF ToSet
  <1>3. /\ acc.best \in Nat /\ acc.found \in Seq(ToSet(ps)) /\ acc.some \in BOOLEAN /\ (acc.some <=> A # {})
        /\ (~acc.some => acc.best = 0)
        /\ (acc.some => \E i \in A : PolicySpecificity(ps[i]) = acc.best)
        /\ (\A i \in A : PolicySpecificity(ps[i]) <= acc.best)
        /\ ToSet(acc.found) = {ps[i] : i \in {j \in A : PolicySpecificity(ps[j]) = acc.best}}
        /\ DOMAIN acc = {"best", "some", "found"}
    BY DEF Kept
  <1>4. CASE ~PolicyApplies(p, id)
    <2>1. B = A
      BY <1>4 DEF Applying
    <2>2. n = acc
      BY <1>4 DEF KeepBest
    <2> HIDE DEF n, A, B
    <2>3. Kept(ps, id, acc, k + 1)
      BY <1>3, <2>1 DEF Kept, A, B
    <2> QED
      BY <2>2, <2>3 DEF n
  <1>5. CASE PolicyApplies(p, id)
    <2>1. B = A \cup {k + 1} /\ k + 1 \notin A
      BY <1>5 DEF Applying
    <2>2. CASE s < acc.best
      <3>1. n = acc
        BY <2>2 DEF KeepBest
      <3>2. acc.some
        BY <1>1, <1>3, <2>2
      <3> HIDE DEF n, A, B
      <3>3. {j \in B : PolicySpecificity(ps[j]) = acc.best} = {j \in A : PolicySpecificity(ps[j]) = acc.best}
        BY <1>1, <1>3, <2>1, <2>2
      <3>4. B # {} /\ (\A i \in B : PolicySpecificity(ps[i]) <= acc.best)
            /\ \E i \in B : PolicySpecificity(ps[i]) = acc.best
        <4>1. \A i \in B : i \in A \/ i = k + 1
          BY <2>1
        <4>2. s <= acc.best
          BY <1>1, <1>3, <2>2
        <4> QED
          BY <4>1, <4>2, <1>3, <2>1, <3>2
      <3>5. ToSet(acc.found) = {ps[i] : i \in {j \in B : PolicySpecificity(ps[j]) = acc.best}}
        BY <1>3, <3>3
      <3>6. Kept(ps, id, acc, k + 1)
        BY <1>3, <3>2, <3>4, <3>5 DEF Kept, B
      <3> QED
        BY <3>1, <3>6 DEF n
    <2>3. CASE s = acc.best /\ acc.some
      <3>1. n = [acc EXCEPT !.found = Append(@, p)]
        BY <1>1, <1>3, <1>5, <2>3 DEF KeepBest
      <3>2. DOMAIN n = {"best", "some", "found"}
            /\ n.best = acc.best /\ n.some = acc.some /\ n.found = Append(acc.found, p)
        BY <1>3, <3>1
      <3>3. n.found \in Seq(ToSet(ps)) /\ ToSet(n.found) = ToSet(acc.found) \cup {p}
        BY <1>2, <1>3, <3>2, OneAppended
      <3> HIDE DEF n, A, B
      <3>4. {j \in B : PolicySpecificity(ps[j]) = acc.best}
               = {j \in A : PolicySpecificity(ps[j]) = acc.best} \cup {k + 1}
        BY <2>1, <2>3
      <3>5. ToSet(n.found) = {ps[i] : i \in {j \in B : PolicySpecificity(ps[j]) = acc.best}}
        BY <1>3, <3>3, <3>4
      <3>6. B # {} /\ \A i \in B : PolicySpecificity(ps[i]) <= acc.best
        BY <1>1, <1>3, <2>1, <2>3
      <3>7. Kept(ps, id, n, k + 1)
        BY <1>3, <2>1, <2>3, <3>2, <3>3, <3>5, <3>6 DEF Kept, B
      <3> QED
        BY <3>7 DEF n
    <2>4. CASE ~(s < acc.best) /\ ~(acc.some /\ s = acc.best)
      <3>1. n = [best |-> s, some |-> TRUE, found |-> <<p>>]
        BY <1>5, <2>4 DEF KeepBest
      <3>2. n.best = s /\ n.some = TRUE /\ n.found = <<p>>
            /\ DOMAIN n = {"best", "some", "found"}
        BY <3>1
      <3>3. n.found \in Seq(ToSet(ps)) /\ ToSet(n.found) = {p}
        BY <1>2, <3>2 DEF ToSet
      <3> HIDE DEF n, A, B
      <3>4. ASSUME NEW i \in A PROVE PolicySpecificity(ps[i]) < s
        <4>1. acc.some /\ PolicySpecificity(ps[i]) <= acc.best
          BY <1>3
        <4>2. s # acc.best /\ s \in Nat /\ PolicySpecificity(ps[i]) \in Nat /\ ~(s < acc.best)
          BY <4>1, <2>4, <1>1
        <4> QED
          BY <4>1, <4>2, <1>3
      <3>5. {j \in B : PolicySpecificity(ps[j]) = s} = {k + 1}
        BY <1>1, <2>1, <3>4
      <3>6. ToSet(n.found) = {ps[i] : i \in {j \in B : PolicySpecificity(ps[j]) = s}}
        BY <3>3, <3>5
      <3>7. B # {} /\ \A i \in B : PolicySpecificity(ps[i]) <= s
        BY <1>1, <2>1, <3>4
      <3>8. Kept(ps, id, n, k + 1)
        BY <1>1, <2>1, <3>2, <3>3, <3>6, <3>7 DEF Kept, B
      <3> QED
        BY <3>8 DEF n
    <2> QED
      BY <1>1, <1>3, <2>2, <2>3, <2>4
  <1> QED
    BY <1>4, <1>5

\* The whole pass.
LEMMA PassKeeps ==
  ASSUME NEW ps, NEW id, NEW n \in Nat, DOMAIN ps = 1..n, NEW g, Passes(ps, id, g, SUBSET (1..n))
  PROVE  Kept(ps, id, g[1..n], n)
  <1> DEFINE N == {k \in Nat : k <= n => Kept(ps, id, g[1..k], k)}
  <1>1. 0 \in N
    <2>1. 1..0 = {}
      OBVIOUS
    <2>2. g[1..0] = NonePassed
      <3>1. {} \in SUBSET (1..n)
        OBVIOUS
      <3> QED
        BY <2>1, <3>1 DEF Passes, PassStep
    <2>3. Applying(ps, id, 0) = {}
      BY <2>1 DEF Applying
    <2>4. ToSet(<<>>) = {} /\ <<>> \in Seq(ToSet(ps))
      BY DEF ToSet
    <2>5. Kept(ps, id, NonePassed, 0)
      BY <2>3, <2>4 DEF Kept, NonePassed
    <2> QED
      BY <2>2, <2>5
  <1>2. ASSUME NEW k \in Nat, k \in N PROVE k + 1 \in N
    <2> SUFFICES ASSUME k + 1 <= n PROVE Kept(ps, id, g[1..(k + 1)], k + 1)
      OBVIOUS
    <2> DEFINE s == 1..(k + 1)
    <2> HIDE DEF N
    <2>1. s \in SUBSET (1..n) /\ s # {} /\ k + 1 \in s /\ \A i \in s : i <= k + 1
      <3>1. k + 1 \in s /\ \A i \in s : i <= k + 1 /\ i <= n /\ i \in Nat /\ i >= 1
        OBVIOUS
      <3>2. s \subseteq 1..n
        BY <3>1
      <3> QED
        BY <3>1, <3>2
    <2>2. Max(s) = k + 1
      <3>1. Max(s) \in s /\ Max(s) >= k + 1
        BY <2>1, LastPlace
      <3> QED
        BY <3>1
    <2>3. s \ {k + 1} = 1..k
      OBVIOUS
    <2>4. g[s] = PassStep(ps, id, g, s)
      BY <2>1 DEF Passes
    <2>5. g[s] = KeepBest(g[1..k], ps[k + 1], id)
      BY <2>1, <2>2, <2>3, <2>4 DEF PassStep
    <2>6. Kept(ps, id, g[1..k], k)
      BY <1>2 DEF N
    <2>7. k + 1 \in DOMAIN ps
      OBVIOUS
    <2> QED
      BY <2>5, <2>6, <2>7, KeepBestKeeps
  <1>3. n \in N
    <2> HIDE DEF N
    <2> QED
      BY <1>1, <1>2, SetInduction
  <1> QED
    BY <1>3

-----------------------------------------------------------------------------
(* What a configuration means, and what the code decides. *)

Targets(p) == {f \in {"account", "client"} : p[f] # Unset}

\* A policy is as specific as it has targets.
LEMMA TargetsCounted ==
  ASSUME NEW p
  PROVE  Cardinality(Targets(p)) = PolicySpecificity(p)
  <1>1. /\ Cardinality({}) = 0 /\ IsFiniteSet({})
        /\ \A x : Cardinality({x}) = 1 /\ IsFiniteSet({x})
    BY FS_EmptySet, FS_Singleton
  <1>2. Cardinality({"account", "client"}) = 2
    <2> DEFINE one == {"account"}
    <2>1. {"account", "client"} = one \cup {"client"} /\ "client" \notin one
      OBVIOUS
    <2>2. IsFiniteSet(one) /\ Cardinality(one) = 1
      BY <1>1
    <2> HIDE DEF one
    <2>3. Cardinality(one \cup {"client"}) = Cardinality(one) + 1
      BY <2>1, <2>2, FS_AddElement
    <2> QED
      BY <2>1, <2>2, <2>3
  <1>3. p["account"] = p.account /\ p["client"] = p.client
    OBVIOUS
  <1>4. CASE p.account # Unset /\ p.client # Unset
    <2>1. Targets(p) = {"account", "client"}
      BY <1>3, <1>4 DEF Targets
    <2> QED
      BY <1>2, <1>4, <2>1 DEF PolicySpecificity
  <1>5. CASE p.account # Unset /\ p.client = Unset
    <2>1. Targets(p) = {"account"}
      BY <1>3, <1>5 DEF Targets
    <2> QED
      BY <1>1, <1>5, <2>1 DEF PolicySpecificity
  <1>6. CASE p.account = Unset /\ p.client # Unset
    <2>1. Targets(p) = {"client"}
      BY <1>3, <1>6 DEF Targets
    <2> QED
      BY <1>1, <1>6, <2>1 DEF PolicySpecificity
  <1>7. CASE p.account = Unset /\ p.client = Unset
    <2>1. Targets(p) = {}
      BY <1>3, <1>7 DEF Targets
    <2> QED
      BY <1>1, <1>7, <2>1 DEF PolicySpecificity
  <1> QED
    BY <1>4, <1>5, <1>6, <1>7

\* The policies that apply and that no other one is more specific than.
Top(ps, id) ==
    {p \in ToSet(ps) : /\ PolicyApplies(p, id)
                       /\ \A q \in ToSet(ps) : PolicyApplies(q, id) => PolicySpecificity(q) <= PolicySpecificity(p)}

\* The pass finds just them, in whatever order they stand.
LEMMA PassFindsTop ==
  ASSUME NEW ps, NEW id, NEW n \in Nat, DOMAIN ps = 1..n
  PROVE  ToSet(ApplicablePolicies(ps, id)) = Top(ps, id)
  <1>1. PICK g : Passes(ps, id, g, SUBSET (1..n)) /\ ApplicablePolicies(ps, id) = g[1..n].found
    BY LoopIsPass
  <1>2. Kept(ps, id, g[1..n], n)
    BY <1>1, PassKeeps
  <1> DEFINE acc == g[1..n]
             A == Applying(ps, id, n)
  <1>3. /\ acc.best \in Nat
        /\ (A # {} => \E i \in A : PolicySpecificity(ps[i]) = acc.best)
        /\ \A i \in A : PolicySpecificity(ps[i]) <= acc.best
        /\ ToSet(acc.found) = {ps[i] : i \in {j \in A : PolicySpecificity(ps[j]) = acc.best}}
    BY <1>2 DEF Kept
  <1> HIDE DEF acc
  <1>4. \A i \in A : PolicySpecificity(ps[i]) \in Nat
    BY SpecificityRange
  <1>5. A = {i \in DOMAIN ps : PolicyApplies(ps[i], id)}
    BY DEF Applying
  <1> HIDE DEF A
  <1>6. ToSet(acc.found) \subseteq Top(ps, id)
    BY <1>3, <1>4, <1>5 DEF Top, ToSet
  <1>7. ASSUME NEW p \in Top(ps, id) PROVE p \in ToSet(acc.found)
    <2>1. PICK i \in A : p = ps[i]
      BY <1>5, <1>7 DEF Top, ToSet
    <2>2. PICK j \in A : PolicySpecificity(ps[j]) = acc.best
      BY <1>3, <2>1
    <2>3. ps[j] \in ToSet(ps) /\ PolicyApplies(ps[j], id)
      BY <1>5, <2>2 DEF ToSet
    <2>4. PolicySpecificity(ps[j]) <= PolicySpecificity(p)
      BY <1>7, <2>3 DEF Top
    <2>5. PolicySpecificity(ps[i]) = acc.best
      BY <1>3, <1>4, <2>1, <2>2, <2>4
    <2> QED
      BY <1>3, <2>1, <2>5
  <1>8. ToSet(acc.found) = Top(ps, id)
    BY <1>6, <1>7
  <1> QED
    BY <1>1, <1>8 DEF acc

\* The policies deny an action exactly when what they mean does not permit it.
LEMMA DeniedMeans ==
  ASSUME NEW ps, NEW n \in Nat, DOMAIN ps = 1..n, NEW id, NEW a, a # Blank, CanonicalAction(a) = a
  PROVE  Denied(ps, a, id) <=> ~PolicyPermits(ps, id, a)
  <1> DEFINE applies == {p \in ToSet(ps) : /\ p.account \in {Unset, id.email, id.account}
                                           /\ p.client \in {Unset, id.client}}
             targets(p) == {f \in {"account", "client"} : p[f] # Unset}
             top == {p \in applies : ~\E q \in applies :
                        Cardinality(targets(q)) > Cardinality(targets(p))}
  <1>1. \A p : p \in applies <=> p \in ToSet(ps) /\ PolicyApplies(p, id)
    BY DEF PolicyApplies
  <1>2. \A p : Cardinality(targets(p)) = PolicySpecificity(p) /\ PolicySpecificity(p) \in Nat
    <2>1. \A p : targets(p) = Targets(p)
      BY DEF Targets
    <2> HIDE DEF targets
    <2> QED
      BY <2>1, TargetsCounted, SpecificityRange
  <1>3. top = Top(ps, id)
    <2> HIDE DEF targets, applies
    <2> QED
      BY <1>1, <1>2 DEF Top
  <1>4. PolicyPermits(ps, id, a) <=>
           /\ \A p \in top : ~\E d \in p.deny : MatchAction(d, a)
           /\ (\E p \in top : p.allow # {}) => \E p \in top : \E d \in p.allow : MatchAction(d, a)
    BY DEF PolicyPermits
  <1>5. Denied(ps, a, id) <=>
           \/ \E p \in Top(ps, id) : \E d \in p.deny : MatchAction(d, a)
           \/ /\ \E p \in Top(ps, id) : p.allow # {}
              /\ ~\E p \in Top(ps, id) : \E d \in p.allow : MatchAction(d, a)
    BY PassFindsTop DEF Denied, MatchesAnyAction
  <1> HIDE DEF top
  <1> QED
    BY <1>3, <1>4, <1>5

\* The catalog's own actions are selected as they stand.
LEMMA CatalogSelected ==
  ASSUME NEW op \in OpNames, NEW actions \in SUBSET Definition[op].actions
  PROVE  LET selected == NarrowActions(Definition[op].actions, actions)
         IN  selected.actions = actions /\ (selected.ok <=> actions # {})
  <1>1. \A a \in actions : CanonicalAction(a) = a /\ a # Blank
    BY CatalogAssumption
  <1>2. {CanonicalAction(a) : a \in actions} = actions
    BY <1>1
  <1> QED
    BY <1>1, <1>2 DEF NarrowActions

\* No error category is the answer without one.
LEMMA RefusalsTold ==
  NoRefusal \notin {"authentication_required", "forbidden_operation", "invalid_input",
                    "insufficient_scope", "upstream_failure", "not_found", "budget_exhausted"}
  BY Zenon DEF NoRefusal

\* Whoever is let in is a configured principal that asks for an account of its own.
LEMMA Authorized ==
  ASSUME NEW s, NEW reg, NEW principal, NEW account, NEW op, NEW requested,
         Authorize(s, reg, principal, account, op, requested) = NoRefusal
  PROVE  /\ principal # Unset /\ op \in OpNames /\ ~Definition[op].local
         /\ OperationAllowed(s, op)
         /\ account # Unset /\ account \in DOMAIN reg /\ reg[account].principal = principal
         /\ NarrowActions(Definition[op].actions, requested).ok
         /\ IdentityEligible(s, principal, reg[account], op,
                             NarrowActions(Definition[op].actions, requested).actions)
  BY RefusalsTold DEF Authorize

\* A question is one about the configurations and registries there are.
QuestionAsked ==
    question.asked => /\ question.snapshot.policies \in AskedPolicies
                      /\ question.registry \in AskedRegistries

\* The call is let in when it meets every condition the code asks in turn.
LEMMA LetIn ==
  ASSUME NEW s, NEW reg, NEW p, NEW a \in DOMAIN reg, NEW op \in OpNames, ~Definition[op].local,
         NEW actions \in SUBSET Definition[op].actions, a # Unset, reg[a].principal # Unset
  PROVE  Authorize(s, reg, p, a, op, actions) = NoRefusal
           <=> reg[a].principal = p /\ IdentityEligible(s, p, reg[a], op, actions)
  <1> DEFINE selected == NarrowActions(Definition[op].actions, actions)
  <1>1. selected.actions = actions /\ (selected.ok <=> actions # {})
    BY CatalogSelected
  <1>2. ASSUME Authorize(s, reg, p, a, op, actions) = NoRefusal
        PROVE  reg[a].principal = p /\ IdentityEligible(s, p, reg[a], op, actions)
    BY <1>1, <1>2, Authorized
  <1>3. ASSUME reg[a].principal = p, IdentityEligible(s, p, reg[a], op, actions)
        PROVE  Authorize(s, reg, p, a, op, actions) = NoRefusal
    <2>1. OperationAllowed(s, op) /\ actions # {} /\ p # Unset
      BY <1>3 DEF IdentityEligible, ActionsAllowed
    <2> QED
      BY <1>1, <1>3, <2>1 DEF Authorize
  <1> QED
    BY <1>2, <1>3

\* One grant covers the call in the code's sense exactly when it does in the meaning's.
LEMMA GrantMeans ==
  ASSUME NEW s, NEW p, NEW id, NEW op \in OpNames, ~Definition[op].local, NEW actions, actions # {}
  PROVE  GrantMatches(s, p, id, op, actions) <=> GrantPermits(s, p, id, op, actions)
  <1>1. op # "accounts_list"
    BY CatalogAssumption
  <1>2. \A g : Covers(g, op, actions)
                 <=> (op \in g.names \/ \A x \in actions : \E d \in g.patterns : MatchAction(d, x))
    BY <1>1 DEF Covers, Names, MatchesAnyAction
  <1> QED
    BY <1>2 DEF GrantMatches, GrantPermits, GrantNamesAccount

\* AuthorizeSound, for the question asked.
LEMMA AuthorizeMeans == QuestionAsked => AuthorizeSound
  <1> SUFFICES ASSUME QuestionAsked, question.asked,
                      NEW a \in DOMAIN question.registry, NEW op \in OpNames, ~Definition[op].local,
                      NEW actions \in (SUBSET Definition[op].actions) \ {{}}
               PROVE  LET s == question.snapshot
                          p == question.principal
                          id == question.registry[a]
                      IN  (Authorize(s, question.registry, p, a, op, actions) = NoRefusal) <=>
                             /\ id.principal = p /\ MCPReady(id)
                             /\ op \in s.allow
                             /\ GrantPermits(s, p, id, op, actions)
                             /\ \A x \in actions : PolicyPermits(s.policies, id, x)
                             /\ ScopesSatisfied(id.scopes, Definition[op])
    BY DEF AuthorizeSound
  <1> DEFINE s == question.snapshot
             p == question.principal
             reg == question.registry
             id == question.registry[a]
  <1>1. a # Unset /\ id.principal # Unset
    BY AskedAssumption DEF QuestionAsked
  <1>2. PICK n \in Nat : DOMAIN s.policies = 1..n
    BY AskedAssumption DEF QuestionAsked
  <1>3. \A x \in actions : x # Blank /\ CanonicalAction(x) = x
    BY CatalogAssumption
  <1>4. \A x \in actions : Denied(s.policies, x, id) <=> ~PolicyPermits(s.policies, id, x)
    BY <1>2, <1>3, DeniedMeans
  <1>5. Authorize(s, reg, p, a, op, actions) = NoRefusal
           <=> id.principal = p /\ IdentityEligible(s, p, id, op, actions)
    BY <1>1, LetIn
  <1>6. actions # {}
    OBVIOUS
  <1> HIDE DEF s, p, reg, id
  <1>9. GrantMatches(s, p, id, op, actions) <=> GrantPermits(s, p, id, op, actions)
    BY <1>6, GrantMeans
  <1>10. ActionsAllowed(s, id, actions) <=> \A x \in actions : PolicyPermits(s.policies, id, x)
    BY <1>4, <1>6 DEF ActionsAllowed
  <1>7. IdentityEligible(s, p, id, op, actions) <=>
           /\ MCPReady(id) /\ id.principal = p /\ op \in s.allow
           /\ GrantPermits(s, p, id, op, actions)
           /\ \A x \in actions : PolicyPermits(s.policies, id, x)
           /\ ScopesSatisfied(id.scopes, Definition[op])
    <2>1. IdentityEligible(s, p, id, op, actions) <=>
             /\ MCPReady(id) /\ id.principal = p
             /\ op \in OpNames /\ ~Definition[op].local
             /\ op \in s.allow
             /\ GrantMatches(s, p, id, op, actions)
             /\ ActionsAllowed(s, id, actions)
             /\ ScopesSatisfied(id.scopes, Definition[op])
      BY Zenon DEF IdentityEligible, OperationAllowed
    <2>2. op \in OpNames /\ ~Definition[op].local
      OBVIOUS
    <2> QED
      BY ONLY <1>9, <1>10, <2>1, <2>2, Zenon
  <1>8. Authorize(s, reg, p, a, op, actions) = NoRefusal <=>
           /\ id.principal = p /\ MCPReady(id) /\ op \in s.allow
           /\ GrantPermits(s, p, id, op, actions)
           /\ \A x \in actions : PolicyPermits(s.policies, id, x)
           /\ ScopesSatisfied(id.scopes, Definition[op])
    BY <1>5, <1>7
  <1> QED
    BY <1>8 DEF s, p, reg, id

\* The selections discovery asks about are the catalog's.
LEMMA ProjectionsSelect ==
  ASSUME NEW op
  PROVE  Projections(op) \subseteq SUBSET Definition[op].actions
  BY DEF Projections

\* DiscoveryHonest, for the question asked.
LEMMA DiscoveryMeans == QuestionAsked => DiscoveryHonest
  <1> SUFFICES ASSUME QuestionAsked, question.asked PROVE DiscoveryHonest
    BY DEF DiscoveryHonest
  <1> DEFINE s == question.snapshot
             p == question.principal
             reg == question.registry
  <1>1. \A a \in DOMAIN reg : a # Unset /\ reg[a].principal # Unset
    BY AskedAssumption DEF QuestionAsked
  <1> HIDE DEF s, p, reg
  <1>2. ASSUME NEW op \in OpNames, ~Definition[op].local, NEW a \in DOMAIN reg
        PROVE  UsableBy(s, reg, p, a, op) <=> reg[a].principal = p /\ EligibleSomehow(s, p, reg[a], op)
    <2>1. \A actions \in Projections(op) :
             Authorize(s, reg, p, a, op, actions) = NoRefusal
               <=> reg[a].principal = p /\ IdentityEligible(s, p, reg[a], op, actions)
      BY <1>1, <1>2, LetIn, ProjectionsSelect
    <2> QED
      BY <2>1 DEF UsableBy, EligibleSomehow
  <1>3. ASSUME NEW op \in OpNames, ~Definition[op].local, NEW a \in DOMAIN reg,
               UsableBy(s, reg, p, a, op)
        PROVE  /\ reg[a].principal = p /\ p # Unset /\ MCPReady(reg[a]) /\ OperationAllowed(s, op)
               /\ reg[a] \in PrincipalIdentities(reg, p) /\ EligibleSomehow(s, p, reg[a], op)
               /\ GrantMatchesAnyOperation(s, p, reg[a])
    <2>1. reg[a].principal = p /\ EligibleSomehow(s, p, reg[a], op)
      BY <1>2, <1>3
    <2>2. PICK actions \in Projections(op) : IdentityEligible(s, p, reg[a], op, actions)
      BY <2>1 DEF EligibleSomehow
    <2>3. MCPReady(reg[a]) /\ OperationAllowed(s, op) /\ GrantMatches(s, p, reg[a], op, actions)
      BY <2>2 DEF IdentityEligible
    <2>4. GrantMatchesAnyOperation(s, p, reg[a])
      BY <2>3 DEF GrantMatches, GrantMatchesAnyOperation, Covers
    <2>5. reg[a] \in PrincipalIdentities(reg, p)
      BY <2>1, <2>3 DEF PrincipalIdentities
    <2> QED
      BY <1>1, <2>1, <2>3, <2>4, <2>5
  <1>4. ASSUME NEW op \in OpNames, ~Definition[op].local
        PROVE  Visible(s, reg, p, op) <=> \E a \in DOMAIN reg : UsableBy(s, reg, p, a, op)
    <2>1. ASSUME Visible(s, reg, p, op) PROVE \E a \in DOMAIN reg : UsableBy(s, reg, p, a, op)
      <3>1. PICK id \in PrincipalIdentities(reg, p) : EligibleSomehow(s, p, id, op)
        BY <1>4, <2>1 DEF Visible
      <3>2. PICK a \in DOMAIN reg : id = reg[a] /\ reg[a].principal = p
        BY DEF PrincipalIdentities
      <3> QED
        BY <1>2, <1>4, <3>1, <3>2
    <2>2. ASSUME NEW a \in DOMAIN reg, UsableBy(s, reg, p, a, op) PROVE Visible(s, reg, p, op)
      BY <1>3, <1>4, <2>2 DEF Visible
    <2> QED
      BY <2>1, <2>2
  <1>5. ASSUME NEW op \in OpNames, ~Definition[op].local, NEW a \in DOMAIN reg,
               UsableBy(s, reg, p, a, op)
        PROVE  reg[a] \in ListAccounts(s, reg, p)
    BY <1>3, <1>5 DEF ListAccounts
  <1> QED
    BY <1>4, <1>5 DEF DiscoveryHonest, s, p, reg

\* Only what there is is asked about.
LEMMA QuestionsKept ==
  /\ AccessInit => QuestionAsked
  /\ QuestionAsked /\ [AccessNext]_accessVars => QuestionAsked'
  <1>1. AccessInit => QuestionAsked
    BY DEF AccessInit, Unasked, QuestionAsked
  <1>2. ASSUME QuestionAsked, [AccessNext]_accessVars PROVE QuestionAsked'
    <2>1. CASE Ask
      <3>1. PICK ps \in AskedPolicies, gs \in AskedGrants, al \in AskedAllow, reg \in AskedRegistries,
                 p \in AskedPrincipals :
               question' = [asked |-> TRUE, registry |-> reg, principal |-> p,
                            snapshot |-> [policies |-> ps, grants |-> gs, allow |-> al]]
        BY <2>1 DEF Ask
      <3> QED
        BY <3>1 DEF QuestionAsked
    <2>2. CASE Answered
      BY <2>2 DEF Answered, Unasked, QuestionAsked
    <2>3. CASE UNCHANGED accessVars
      BY <1>2, <2>3 DEF accessVars, QuestionAsked
    <2> QED
      BY <1>2, <2>1, <2>2, <2>3 DEF AccessNext
  <1> QED
    BY <1>1, <1>2

\* Authorize lets a call in exactly when a single grant covers it whole, no most specific
\* policy forbids any of its actions, the account is the caller's own and its scopes
\* suffice: for any catalog, policies in any order, grants and registries
\* (Authorizer.Authorize, applicablePolicies, evaluate, grantCovers).
THEOREM AuthorizeIsSound == AccessSpec => []AuthorizeSound
  <1>1. AccessSpec => []QuestionAsked
    BY QuestionsKept, PTL DEF AccessSpec
  <1> QED
    BY <1>1, AuthorizeMeans, PTL

\* An operation is visible exactly when some account may use it, and accounts_list shows
\* every account that some call may use, for any configuration (Authorizer.Visible,
\* ListAccounts).
THEOREM DiscoveryIsHonest == AccessSpec => []DiscoveryHonest
  <1>1. AccessSpec => []QuestionAsked
    BY QuestionsKept, PTL DEF AccessSpec
  <1> QED
    BY <1>1, DiscoveryMeans, PTL

-----------------------------------------------------------------------------
(* The gateway: GatewayKept. *)

\* The gateway alone, whatever the other parts do.
GatewaySpec == GatewayInit /\ [][GatewayNext]_gatewayVars

\* What compileHTTPConfig makes of a file it accepts.
CallersSound ==
    LET cs == gateway.callers
    IN  /\ \E n \in Nat : DOMAIN cs = 1..n
        /\ \A i, j \in DOMAIN cs : cs[i].digest = cs[j].digest => i = j
        /\ \A i \in DOMAIN cs : \A g \in cs[i].grants : g.principal = cs[i].principal

PageSound == gateway.page # Unset => UniquePrincipalIDs(gateway.callers) = {gateway.page}

RequestRecords ==
    [pc : {"none", "admitted", "global", "in", "leaving", "answered"},
     token : Tokens \cup {Unset}, caller : Nat, expired : BOOLEAN, waiting : Nat, running : Nat]

Keys == {SlotKey(gateway.callers[i]) : i \in DOMAIN gateway.callers}

SlotRecords == [global : Nat, request : [Keys -> Nat], tool : [Keys -> Nat]]

GatewayTyped ==
    /\ gateway = [phase |-> gateway.phase, callers |-> gateway.callers, page |-> gateway.page]
    /\ requests \in [Requests -> RequestRecords]
    /\ slots \in SlotRecords

HoldsGlobal(q) == q.pc \in {"global", "in", "leaving"}

\* q is a request of a caller the gateway knows, and only such a one holds anything.
CallerKnown(q) ==
    /\ q.caller # 0 => /\ q.caller \in DOMAIN gateway.callers
                       /\ gateway.callers[q.caller].digest = q.token
    /\ (q.pc = "admitted" \/ HoldsGlobal(q) \/ q.waiting > 0 \/ q.running > 0) => q.caller # 0
    /\ gateway.phase = "starting" \/ q.pc = "none" => q = NoRequest

\* q belongs to the principal k.
OfKey(q, k) == q.caller # 0 /\ SlotKey(gateway.callers[q.caller]) = k

InFlight(k) == {r \in Requests : requests[r].pc = "in" /\ OfKey(requests[r], k)}

Calls == [r \in Requests |-> requests[r].running]
CallsOf(k) == [r \in Requests |-> IF OfKey(requests[r], k) THEN requests[r].running ELSE 0]

\* Every counter is the number of its holders, per principal and in all.
SlotsCounted ==
    /\ slots.global = Cardinality({r \in Requests : HoldsGlobal(requests[r])})
    /\ slots.global <= MaxGlobal
    /\ SumFunction(slots.request) = Cardinality({r \in Requests : requests[r].pc = "in"})
    /\ SumFunction(slots.tool) = SumFunction(Calls)
    /\ \A k \in Keys : /\ slots.request[k] = Cardinality(InFlight(k))
                       /\ slots.request[k] <= MaxConcurrency
                       /\ slots.tool[k] = SumFunction(CallsOf(k))
                       /\ slots.tool[k] <= MaxConcurrency

GatewayInv ==
    /\ GatewayTyped /\ CallersSound /\ PageSound
    /\ \A r \in Requests : CallerKnown(requests[r])
    /\ SlotsCounted

\* The principals of the callers are finitely many.
LEMMA KeysFinite == CallersSound => IsFiniteSet(Keys)
  <1> SUFFICES ASSUME CallersSound PROVE IsFiniteSet(Keys)
    OBVIOUS
  <1>1. PICK n \in Nat : DOMAIN gateway.callers = 1..n
    BY DEF CallersSound
  <1>2. IsFiniteSet(1..n)
    BY <1>1, FS_Interval
  <1> DEFINE key == [i \in 1..n |-> SlotKey(gateway.callers[i])]
  <1>3. key \in Surjection(1..n, Keys)
    BY <1>1 DEF Surjection, Keys
  <1> QED
    BY <1>2, <1>3, FS_Surjection

\* What the property says follows from the invariant.
LEMMA GatewayInvEnough ==
  ASSUME GatewayInv
  PROVE  GatewayKept
  <1> USE DEF GatewayInv
  <1>1. GatewayIsolation
    <2>1. ASSUME NEW r \in Requests, requests[r].caller # 0
          PROVE  /\ Matching(requests[r].token) = {requests[r].caller}
                 /\ \A g \in gateway.callers[requests[r].caller].grants :
                       g.principal = gateway.callers[requests[r].caller].principal
      BY <2>1 DEF CallerKnown, CallersSound, Matching
    <2> QED
      BY <2>1 DEF GatewayIsolation, PageSound
  <1>2. GatewaySlots
    <2> DEFINE Of(p) == {r \in Requests : /\ requests[r].caller # 0
                                          /\ gateway.callers[requests[r].caller].principal = p}
    <2>1. slots.global = Cardinality({r \in Requests : requests[r].pc \in {"global", "in", "leaving"}})
      BY DEF SlotsCounted, HoldsGlobal
    <2>2. /\ slots.global <= MaxGlobal
          /\ SumFunction(slots.request) = Cardinality({r \in Requests : requests[r].pc = "in"})
          /\ SumFunction(slots.tool) = SumFunction([r \in Requests |-> requests[r].running])
      BY DEF SlotsCounted, Calls
    <2>3. ASSUME NEW p \in UniquePrincipalIDs(gateway.callers)
          PROVE  /\ Cardinality({r \in Of(p) : requests[r].pc = "in"}) <= MaxConcurrency
                 /\ SumFunctionOnSet([r \in Requests |-> requests[r].running], Of(p)) <= MaxConcurrency
      <3>1. p \in Keys
        BY DEF UniquePrincipalIDs, Keys, SlotKey
      <3>2. InFlight(p) = {r \in Of(p) : requests[r].pc = "in"}
        BY DEF InFlight, OfKey, SlotKey
      <3>3. \A r \in Requests : Calls[r] \in Nat /\ CallsOf(p)[r] \in Nat
        BY DEF GatewayTyped, RequestRecords, Calls, CallsOf
      <3>4. \A r \in Requests : CallsOf(p)[r] = IF r \in Of(p) THEN Calls[r] ELSE 0
        BY DEF CallsOf, Calls, OfKey, SlotKey
      <3>5. SumFunction(CallsOf(p)) = SumFunctionOnSet(CallsOf(p), Requests)
        BY DEF SumFunction, CallsOf
      <3>6. SumFunctionOnSet(CallsOf(p), Requests) = SumFunctionOnSet(CallsOf(p), Of(p))
        BY <3>3, <3>4, SumWithin, GatewayAssumption
      <3>7. SumFunctionOnSet(CallsOf(p), Of(p)) = SumFunctionOnSet(Calls, Of(p))
        <4>1. IsFiniteSet(Of(p))
          BY GatewayAssumption, FS_Subset
        <4> QED
          BY <4>1, <3>4, SumSame
      <3> HIDE DEF Of
      <3> QED
        BY <3>1, <3>2, <3>5, <3>6, <3>7 DEF SlotsCounted, Calls
    <2> QED
      BY <2>1, <2>2, <2>3 DEF GatewaySlots
  <1> QED
    BY <1>1, <1>2 DEF GatewayKept

\* Before the configuration is read nothing is held.
LEMMA GatewayInvInit ==
  ASSUME GatewayInit
  PROVE  GatewayInv
  <1> USE DEF GatewayInit
  <1>1. gateway.phase = "starting" /\ gateway.callers = <<>> /\ gateway.page = Unset
        /\ DOMAIN gateway.callers = {} /\ Keys = {}
    BY DEF Keys
  <1>2. \A r \in Requests : requests[r] = NoRequest
    OBVIOUS
  <1>3. NoRequest \in RequestRecords /\ NoRequest.caller = 0 /\ NoRequest.pc = "none"
        /\ NoRequest.waiting = 0 /\ NoRequest.running = 0
    <2> HIDE DEF Unset
    <2> QED
      BY DEF NoRequest, RequestRecords
  <1>4. slots.global = 0 /\ slots.request = EmptyMap /\ slots.tool = EmptyMap
        /\ DOMAIN slots.request = {} /\ DOMAIN slots.tool = {}
    BY DEF EmptyMap
  <1>5. GatewayTyped
    <2>1. requests \in [Requests -> RequestRecords]
      BY <1>2, <1>3
    <2>2. slots \in SlotRecords
      BY <1>1, <1>4 DEF SlotRecords, EmptyMap
    <2> QED
      BY <2>1, <2>2, <1>1 DEF GatewayTyped
  <1>6. CallersSound /\ PageSound
    BY <1>1 DEF CallersSound, PageSound
  <1>7. \A r \in Requests : CallerKnown(requests[r])
    BY <1>2, <1>3 DEF CallerKnown, HoldsGlobal
  <1>8. SlotsCounted
    <2>1. {r \in Requests : HoldsGlobal(requests[r])} = {} /\ {r \in Requests : requests[r].pc = "in"} = {}
      BY <1>2, <1>3 DEF HoldsGlobal
    <2>2. SumFunction(slots.request) = 0 /\ SumFunction(slots.tool) = 0
      BY <1>4, SumEmpty DEF SumFunction
    <2>3. SumFunction(Calls) = 0
      <3>1. DOMAIN Calls = Requests /\ \A r \in Requests : Calls[r] = 0
        BY <1>2, <1>3 DEF Calls
      <3> QED
        BY <3>1, SumZero, GatewayAssumption DEF SumFunction
    <2>4. slots.global = Cardinality({r \in Requests : HoldsGlobal(requests[r])})
          /\ SumFunction(slots.request) = Cardinality({r \in Requests : requests[r].pc = "in"})
          /\ slots.global <= MaxGlobal
      <3>1. Cardinality({}) = 0 /\ MaxGlobal \in Nat
        BY FS_EmptySet, GatewayAssumption
      <3> QED
        <4>1. Cardinality({r \in Requests : HoldsGlobal(requests[r])}) = 0
          BY <2>1, <3>1
        <4>2. Cardinality({r \in Requests : requests[r].pc = "in"}) = 0
          BY <2>1, <3>1
        <4>3. slots.global <= MaxGlobal
          BY <1>4, <3>1
        <4> QED
          BY <4>1, <4>2, <4>3, <2>2, <1>4
    <2>5. \A k \in Keys : FALSE
      BY <1>1
    <2> QED
      BY <2>2, <2>3, <2>4, <2>5 DEF SlotsCounted
  <1> QED
    BY <1>5, <1>6, <1>7, <1>8 DEF GatewayInv
\* ServeGateway: what is served is what compileHTTPConfig accepts.
LEMMA ServeGatewayKeeps ==
  ASSUME GatewayInv, ServeGateway
  PROVE  GatewayInv'
  <1> PICK f \in Flags, raws \in CallerFiles :
        LET callers == Compiled(raws)
            up == /\ ValidFlags(f) /\ ValidCallers(raws)
                  /\ f.connect => PageAllowed(f, callers)
            none == [k \in {SlotKey(callers[i]) : i \in DOMAIN callers} |-> 0]
        IN  IF ~up THEN /\ gateway' = [gateway EXCEPT !.phase = "stopped"]
                        /\ UNCHANGED slots
            ELSE /\ gateway' = [phase |-> "serving", callers |-> callers,
                                page |-> IF f.connect THEN callers[1].principal ELSE Unset]
                 /\ slots' = [global |-> 0, request |-> none, tool |-> none]
    BY DEF ServeGateway
  <1> DEFINE callers == Compiled(raws)
  <1> DEFINE up == /\ ValidFlags(f) /\ ValidCallers(raws)
                   /\ f.connect => PageAllowed(f, callers)
  <1> DEFINE none == [k \in {SlotKey(callers[i]) : i \in DOMAIN callers} |-> 0]
  <1>0. requests' = requests /\ gateway.phase = "starting"
    BY DEF ServeGateway
  <1>1. \A r \in Requests : requests[r] = NoRequest
    BY <1>0 DEF GatewayInv, CallerKnown
  <1>2. NoRequest.caller = 0 /\ NoRequest.pc = "none" /\ NoRequest.waiting = 0 /\ NoRequest.running = 0
    BY DEF NoRequest
  <1>3. \A r \in Requests : CallerKnown(requests[r])'
    <2>1. ASSUME NEW r \in Requests PROVE CallerKnown(requests[r])'
      <3>1. requests'[r] = NoRequest
        BY <1>0, <1>1
      <3> QED
        BY <3>1, <1>2 DEF CallerKnown, HoldsGlobal
    <2> QED
      BY <2>1
  <1>4. CASE ~up
    <2>1. gateway' = [gateway EXCEPT !.phase = "stopped"] /\ slots' = slots
      BY <1>4
    <2>2. gateway'.callers = gateway.callers /\ gateway'.page = gateway.page
          /\ gateway' = [phase |-> gateway'.phase, callers |-> gateway'.callers, page |-> gateway'.page]
      BY <2>1 DEF GatewayInv, GatewayTyped
    <2>3. Keys' = Keys
      BY <2>2 DEF Keys, SlotKey
    <2>4. GatewayTyped'
      BY <1>0, <2>1, <2>2, <2>3 DEF GatewayInv, GatewayTyped, SlotRecords
    <2>5. CallersSound' /\ PageSound'
      <3>1. CallersSound /\ PageSound
        BY DEF GatewayInv
      <3>2. CallersSound'
        BY <2>2, <3>1 DEF CallersSound
      <3>3. PageSound'
        BY <2>2, <3>1 DEF PageSound, UniquePrincipalIDs
      <3> QED
        BY <3>2, <3>3
    <2>6. SlotsCounted'
      <3>1. \A k \in Keys : InFlight(k)' = InFlight(k) /\ CallsOf(k)' = CallsOf(k)
        BY <1>0, <2>2 DEF InFlight, CallsOf, OfKey, SlotKey
      <3>2. SlotsCounted
        BY DEF GatewayInv
      <3> QED
        BY <3>1, <3>2, <1>0, <2>1, <2>3 DEF SlotsCounted, HoldsGlobal, Calls
    <2> QED
      BY <2>4, <2>5, <2>6, <1>3 DEF GatewayInv
  <1>5. CASE up
    <2>1. gateway' = [phase |-> "serving", callers |-> callers,
                      page |-> IF f.connect THEN callers[1].principal ELSE Unset]
          /\ slots' = [global |-> 0, request |-> none, tool |-> none]
      BY <1>5
    <2>2. gateway'.callers = callers /\ gateway'.page = IF f.connect THEN callers[1].principal ELSE Unset
      BY <2>1
    <2>3. DOMAIN callers = DOMAIN raws /\ DOMAIN raws = 1..Len(raws) /\ Len(raws) \in Nat /\ Len(raws) # 0
      BY <1>5, GatewayAssumption DEF Compiled, ValidCallers
    <2>4. ASSUME NEW i \in DOMAIN raws
          PROVE  /\ callers[i].digest = raws[i].digest /\ callers[i].principal = raws[i].principal
                 /\ \A g \in callers[i].grants : g.principal = callers[i].principal
      <3> DEFINE own(g) == IF g.principal = Unset THEN [g EXCEPT !.principal = raws[i].principal] ELSE g
      <3> DEFINE gs == {own(g) : g \in raws[i].grants}
      <3> DEFINE al == raws[i].allow \ {Unset}
      <3>1. callers[i] = [raws[i] EXCEPT !.grants = gs, !.allow = al]
        BY DEF Compiled, CompileCaller
      <3>2. \A g \in gs : g.principal = raws[i].principal
        <4>1. CompileCaller(raws[i]).ok
          BY <1>5 DEF ValidCallers
        <4> QED
          BY <4>1 DEF CompileCaller
      <3>3. DOMAIN raws[i] = {"id", "digest", "principal", "grants", "allow"}
        BY GatewayAssumption
      <3> HIDE DEF gs, al
      <3> QED
        BY <3>1, <3>2, <3>3
    <2>5. CallersSound'
      BY <2>2, <2>3, <2>4, <1>5 DEF CallersSound, ValidCallers
    <2>6. PageSound'
      <3>1. CASE f.connect
        <4>1. Cardinality(UniquePrincipalIDs(callers)) = 1
          BY <3>1, <1>5 DEF PageAllowed
        <4>2. callers[1].principal \in UniquePrincipalIDs(callers)
          BY <2>3 DEF UniquePrincipalIDs
        <4>3. IsFiniteSet(UniquePrincipalIDs(callers))
          <5>1. IsFiniteSet(Keys)'
            BY <2>5, KeysFinite, PTL
          <5>2. UniquePrincipalIDs(callers) = Keys'
            BY <2>2 DEF UniquePrincipalIDs, Keys, SlotKey
          <5> QED
            BY <5>1, <5>2
        <4>4. PICK p : UniquePrincipalIDs(callers) = {p}
          BY <4>1, <4>3, FS_Singleton
        <4>5. UniquePrincipalIDs(callers) = {callers[1].principal}
          BY <4>2, <4>4
        <4> QED
          BY <3>1, <4>5, <2>2 DEF PageSound
      <3>2. CASE ~f.connect
        BY <3>2, <2>2 DEF PageSound
      <3> QED
        BY <3>1, <3>2
    <2>7. Keys' = {SlotKey(callers[i]) : i \in DOMAIN callers}
      BY <2>2 DEF Keys
    <2>8. slots'.global = 0 /\ slots'.request = [k \in Keys' |-> 0] /\ slots'.tool = [k \in Keys' |-> 0]
      BY <2>1, <2>7
    <2>9. GatewayTyped'
      <3>1. gateway' = [phase |-> gateway'.phase, callers |-> gateway'.callers, page |-> gateway'.page]
        BY <2>1
      <3>2. slots' \in SlotRecords'
        BY <2>1, <2>7 DEF SlotRecords
      <3> QED
        BY <3>1, <3>2, <1>0 DEF GatewayInv, GatewayTyped
    <2>10. SlotsCounted'
      <3>1. /\ {r \in Requests : HoldsGlobal(requests'[r])} = {}
            /\ {r \in Requests : requests'[r].pc = "in"} = {}
            /\ \A k \in Keys' : InFlight(k)' = {}
        BY <1>0, <1>1, <1>2 DEF HoldsGlobal, InFlight
      <3>2. SumFunction(slots'.request) = 0 /\ SumFunction(slots'.tool) = 0
        <4>1. IsFiniteSet(Keys)'
          BY <2>5, KeysFinite, PTL
        <4> QED
          BY <4>1, <2>8, SumZero DEF SumFunction
      <3>3. SumFunction(Calls') = 0 /\ \A k \in Keys' : SumFunction(CallsOf(k)') = 0
        <4>1. DOMAIN Calls' = Requests /\ \A r \in Requests : Calls'[r] = 0
          BY <1>0, <1>1, <1>2 DEF Calls
        <4>2. \A k \in Keys' : DOMAIN CallsOf(k)' = Requests /\ \A r \in Requests : CallsOf(k)'[r] = 0
          BY <1>0, <1>1, <1>2 DEF CallsOf, OfKey
        <4> QED
          BY <4>1, <4>2, SumZero, GatewayAssumption DEF SumFunction
      <3>4. Cardinality({}) = 0 /\ MaxGlobal \in Nat /\ MaxConcurrency \in Nat
        BY FS_EmptySet, GatewayAssumption
      <3>5. \A k \in Keys' : slots'.request[k] = 0 /\ slots'.tool[k] = 0
        BY <2>8
      <3>6. slots'.global = Cardinality({r \in Requests : HoldsGlobal(requests'[r])})
            /\ slots'.global <= MaxGlobal
            /\ SumFunction(slots'.request) = Cardinality({r \in Requests : requests'[r].pc = "in"})
            /\ SumFunction(slots'.tool) = SumFunction(Calls')
        <4>1. Cardinality({r \in Requests : HoldsGlobal(requests'[r])}) = 0
          BY <3>1, <3>4
        <4>2. Cardinality({r \in Requests : requests'[r].pc = "in"}) = 0
          BY <3>1, <3>4
        <4>3. slots'.global <= MaxGlobal
          BY <2>8, <3>4
        <4> QED
          BY <4>1, <4>2, <4>3, <3>2, <3>3, <2>8
      <3>7. \A k \in Keys' : /\ slots'.request[k] = Cardinality(InFlight(k)')
                             /\ slots'.request[k] <= MaxConcurrency
                             /\ slots'.tool[k] = SumFunction(CallsOf(k)')
                             /\ slots'.tool[k] <= MaxConcurrency
        <4>1. \A k \in Keys' : Cardinality(InFlight(k)') = 0
          BY <3>1, <3>4
        <4>2. 0 <= MaxConcurrency
          BY <3>4
        <4> QED
          BY <4>1, <4>2, <3>3, <3>5
      <3> HIDE DEF callers, up, none
      <3> QED
        BY <3>6, <3>7 DEF SlotsCounted, HoldsGlobal
    <2> QED
      BY <2>5, <2>6, <2>9, <2>10, <1>3 DEF GatewayInv
  <1> QED
    BY <1>4, <1>5

\* A step after which every request holds what it held leaves the counters right.
LEMMA StillCounts ==
  ASSUME GatewayInv, slots' = slots, gateway'.callers = gateway.callers,
         requests' \in [Requests -> RequestRecords],
         \A r \in Requests :
            /\ HoldsGlobal(requests'[r]) <=> HoldsGlobal(requests[r])
            /\ requests'[r].pc = "in" <=> requests[r].pc = "in"
            /\ requests'[r].running = requests[r].running
            /\ \/ requests'[r].caller = requests[r].caller
               \/ requests[r].running = 0 /\ requests[r].pc # "in"
  PROVE  SlotsCounted' /\ Keys' = Keys
  <1>1. Keys' = Keys
    BY DEF Keys, SlotKey
  <1>2. /\ {r \in Requests : HoldsGlobal(requests'[r])} = {r \in Requests : HoldsGlobal(requests[r])}
        /\ {r \in Requests : requests'[r].pc = "in"} = {r \in Requests : requests[r].pc = "in"}
    OBVIOUS
  <1>3. Calls' = Calls
    BY DEF Calls
  <1>4. ASSUME NEW k PROVE InFlight(k)' = InFlight(k) /\ CallsOf(k)' = CallsOf(k)
    <2>1. \A r \in Requests : OfKey(requests[r], k)' <=>
             requests'[r].caller # 0 /\ SlotKey(gateway.callers[requests'[r].caller]) = k
      BY DEF OfKey, SlotKey
    <2> QED
      BY <2>1 DEF InFlight, CallsOf, OfKey
  <1>5. SlotsCounted
    BY DEF GatewayInv
  <1>6. \A k \in Keys : InFlight(k)' = InFlight(k) /\ CallsOf(k)' = CallsOf(k)
    BY <1>4
  <1>7. {r \in Requests : HoldsGlobal(requests[r])}' = {r \in Requests : HoldsGlobal(requests[r])}
    BY <1>2 DEF HoldsGlobal
  <1> QED
    BY <1>1, <1>2, <1>3, <1>5, <1>6, <1>7 DEF SlotsCounted

One(b) == IF b THEN 1 ELSE 0

\* A step in which one request takes or gives back, and the counters of its principal
\* move with it, leaves the counters right.
LEMMA MoveCounts ==
  ASSUME GatewayInv, NEW r \in Requests, NEW q \in RequestRecords,
         gateway' = gateway, Becomes(r, q), slots' \in SlotRecords,
         requests[r].caller # 0, q.caller = requests[r].caller,
         \A j \in Keys : j # Key(r) => slots'.request[j] = slots.request[j] /\ slots'.tool[j] = slots.tool[j],
         slots'.global + One(HoldsGlobal(requests[r])) = slots.global + One(HoldsGlobal(q)),
         slots'.request[Key(r)] + One(requests[r].pc = "in") = slots.request[Key(r)] + One(q.pc = "in"),
         slots'.tool[Key(r)] + requests[r].running = slots.tool[Key(r)] + q.running,
         slots'.global <= MaxGlobal,
         slots'.request[Key(r)] <= MaxConcurrency, slots'.tool[Key(r)] <= MaxConcurrency
  PROVE  SlotsCounted' /\ Keys' = Keys
  <1>k. Key(r) \in Keys /\ SlotKey(gateway.callers[q.caller]) = Key(r)
    BY DEF Key, Keys, GatewayInv, GatewayTyped, CallerKnown
  <1>b. requests' = [requests EXCEPT ![r] = q]
    BY DEF Becomes
  <1>1. Keys' = Keys
    BY DEF Keys, SlotKey
  <1> USE <1>k, <1>b
  <1>2. /\ IsFiniteSet(Requests) /\ IsFiniteSet(Keys) /\ SlotsCounted /\ slots \in SlotRecords
        /\ requests \in [Requests -> RequestRecords] /\ requests' \in [Requests -> RequestRecords]
    BY <1>b, GatewayAssumption, KeysFinite DEF GatewayInv, GatewayTyped
  <1>3. /\ slots.global \in Nat /\ slots'.global \in Nat
        /\ slots.request \in [Keys -> Nat] /\ slots'.request \in [Keys -> Nat]
        /\ slots.tool \in [Keys -> Nat] /\ slots'.tool \in [Keys -> Nat]
    BY <1>2 DEF SlotRecords
  <1>4. /\ requests'[r] = q
        /\ \A x \in Requests : x # r => requests'[x] = requests[x]
    BY <1>2
  <1>5. slots'.global = Cardinality({x \in Requests : HoldsGlobal(requests'[x])})
    <2> DEFINE S == {x \in Requests : HoldsGlobal(requests[x])}
    <2> DEFINE T == {x \in Requests : HoldsGlobal(requests'[x])}
    <2>1. IsFiniteSet(S) /\ S \ {r} = T \ {r}
      BY <1>2, <1>4, FS_Subset
    <2>2. (r \in S <=> HoldsGlobal(requests[r])) /\ (r \in T <=> HoldsGlobal(q))
      BY <1>4
    <2>3. slots.global = Cardinality(S)
      BY <1>2 DEF SlotsCounted
    <2> HIDE DEF S, T
    <2>4. Cardinality(S) \in Nat /\ Cardinality(T) \in Nat
          /\ Cardinality(T) + (IF r \in S THEN 1 ELSE 0) = Cardinality(S) + (IF r \in T THEN 1 ELSE 0)
      BY <2>1, CountMoves
    <2>5. slots'.global = Cardinality(T)
      BY <2>2, <2>3, <2>4, <1>3 DEF One
    <2> QED
      BY <2>5 DEF T
  <1>6. SumFunction(slots'.request) = Cardinality({x \in Requests : requests'[x].pc = "in"})
    <2> DEFINE S == {x \in Requests : requests[x].pc = "in"}
    <2> DEFINE T == {x \in Requests : requests'[x].pc = "in"}
    <2>1. IsFiniteSet(S) /\ S \ {r} = T \ {r}
      BY <1>2, <1>4, FS_Subset
    <2>2. (r \in S <=> requests[r].pc = "in") /\ (r \in T <=> q.pc = "in")
      BY <1>4
    <2>3. SumFunctionOnSet(slots.request, Keys) = Cardinality(S)
      BY <1>2, <1>3 DEF SlotsCounted, SumFunction
    <2>4. SumFunctionOnSet(slots'.request, Keys) + slots.request[Key(r)]
             = SumFunctionOnSet(slots.request, Keys) + slots'.request[Key(r)]
      BY <1>2, <1>3, SumUpdate
    <2>5. SumFunctionOnSet(slots'.request, Keys) \in Nat
      BY <1>2, <1>3, SumType
    <2> HIDE DEF S, T
    <2>6. Cardinality(S) \in Nat /\ Cardinality(T) \in Nat
          /\ Cardinality(T) + (IF r \in S THEN 1 ELSE 0) = Cardinality(S) + (IF r \in T THEN 1 ELSE 0)
      BY <2>1, CountMoves
    <2>7. SumFunctionOnSet(slots'.request, Keys) = Cardinality(T)
      <3>1. slots.request[Key(r)] \in Nat /\ slots'.request[Key(r)] \in Nat
        BY <1>3
      <3>2. slots'.request[Key(r)] + (IF r \in S THEN 1 ELSE 0) = slots.request[Key(r)] + (IF r \in T THEN 1 ELSE 0)
        BY <2>2 DEF One
      <3> QED
        BY <2>3, <2>4, <2>5, <2>6, <3>1, <3>2
    <2> QED
      BY <2>7, <1>3 DEF T, SumFunction
  <1>7. /\ \A x \in Requests : requests[x].running \in Nat /\ requests'[x].running \in Nat
        /\ q.running \in Nat
    BY <1>2 DEF RequestRecords
  <1>8. SumFunction(slots'.tool) = SumFunction(Calls')
    <2>1. DOMAIN Calls = Requests /\ DOMAIN Calls' = Requests
          /\ \A x \in Requests : Calls[x] = requests[x].running /\ Calls'[x] = requests'[x].running
      BY DEF Calls
    <2>2. SumFunctionOnSet(Calls', Requests) + Calls[r] = SumFunctionOnSet(Calls, Requests) + Calls'[r]
      BY <2>1, <1>2, <1>4, <1>7, SumUpdate
    <2>3. SumFunctionOnSet(slots'.tool, Keys) + slots.tool[Key(r)]
             = SumFunctionOnSet(slots.tool, Keys) + slots'.tool[Key(r)]
      BY <1>2, <1>3, SumUpdate
    <2>4. SumFunctionOnSet(slots.tool, Keys) = SumFunctionOnSet(Calls, Requests)
      BY <1>2, <1>3, <2>1 DEF SlotsCounted, SumFunction
    <2>5. SumFunctionOnSet(slots'.tool, Keys) \in Nat /\ SumFunctionOnSet(Calls', Requests) \in Nat
          /\ SumFunctionOnSet(Calls, Requests) \in Nat
      BY <1>2, <1>3, <1>7, <2>1, SumType
    <2>6. SumFunctionOnSet(slots'.tool, Keys) = SumFunctionOnSet(Calls', Requests)
      <3>1. slots.tool[Key(r)] \in Nat /\ slots'.tool[Key(r)] \in Nat /\ Calls[r] \in Nat /\ Calls'[r] \in Nat
            /\ Calls[r] = requests[r].running /\ Calls'[r] = q.running
        BY <1>3, <1>4, <1>7, <2>1
      <3> QED
        BY <2>2, <2>3, <2>4, <2>5, <3>1
    <2> QED
      BY <2>6, <2>1, <1>3 DEF SumFunction
  <1>9. ASSUME NEW j \in Keys
        PROVE  /\ slots'.request[j] = Cardinality(InFlight(j)')
               /\ slots'.request[j] <= MaxConcurrency
    <2> DEFINE S == InFlight(j)
    <2> DEFINE T == InFlight(j)'
    <2>1. IsFiniteSet(S) /\ S \ {r} = T \ {r}
      BY <1>2, <1>4, FS_Subset DEF InFlight, OfKey, SlotKey
    <2>2. /\ r \in S <=> requests[r].pc = "in" /\ j = Key(r)
          /\ r \in T <=> q.pc = "in" /\ j = Key(r)
      BY <1>4 DEF InFlight, OfKey, SlotKey
    <2>3. slots.request[j] = Cardinality(S) /\ slots.request[j] <= MaxConcurrency
      BY <1>2 DEF SlotsCounted
    <2> HIDE DEF S, T
    <2>4. Cardinality(S) \in Nat /\ Cardinality(T) \in Nat
          /\ Cardinality(T) + (IF r \in S THEN 1 ELSE 0) = Cardinality(S) + (IF r \in T THEN 1 ELSE 0)
      BY <2>1, CountMoves
    <2>5. slots'.request[j] = Cardinality(T) /\ slots'.request[j] <= MaxConcurrency
      <3>1. slots'.request[j] \in Nat
        BY <1>3
      <3>2. CASE j = Key(r)
        <4>1. slots'.request[j] + (IF r \in S THEN 1 ELSE 0) = slots.request[j] + (IF r \in T THEN 1 ELSE 0)
          BY <2>2, <3>2 DEF One
        <4> QED
          BY <4>1, <2>3, <2>4, <3>1, <3>2
      <3>3. CASE j # Key(r)
        BY <2>2, <2>3, <2>4, <3>3
      <3> QED
        BY <3>2, <3>3
    <2> QED
      BY <2>5 DEF T
  <1>10. ASSUME NEW j \in Keys
         PROVE  slots'.tool[j] = SumFunction(CallsOf(j)') /\ slots'.tool[j] <= MaxConcurrency
    <2>1. DOMAIN CallsOf(j) = Requests /\ DOMAIN CallsOf(j)' = Requests
          /\ \A x \in Requests : CallsOf(j)[x] \in Nat /\ CallsOf(j)'[x] \in Nat
      BY <1>7 DEF CallsOf
    <2>2. \A x \in Requests : x # r => CallsOf(j)'[x] = CallsOf(j)[x]
      BY <1>4 DEF CallsOf, OfKey, SlotKey
    <2>3. SumFunctionOnSet(CallsOf(j)', Requests) + CallsOf(j)[r]
             = SumFunctionOnSet(CallsOf(j), Requests) + CallsOf(j)'[r]
      BY <2>1, <2>2, <1>2, SumUpdate
    <2>4. /\ CallsOf(j)[r] = IF j = Key(r) THEN requests[r].running ELSE 0
          /\ CallsOf(j)'[r] = IF j = Key(r) THEN q.running ELSE 0
      BY <1>4 DEF CallsOf, OfKey, SlotKey
    <2>5. slots.tool[j] = SumFunctionOnSet(CallsOf(j), Requests) /\ slots.tool[j] <= MaxConcurrency
      BY <1>2, <2>1 DEF SlotsCounted, SumFunction
    <2>6. SumFunctionOnSet(CallsOf(j), Requests) \in Nat /\ SumFunctionOnSet(CallsOf(j)', Requests) \in Nat
      BY <2>1, <1>2, SumType
    <2>7. slots'.tool[j] = SumFunctionOnSet(CallsOf(j)', Requests) /\ slots'.tool[j] <= MaxConcurrency
      <3>1. slots.tool[j] \in Nat /\ slots'.tool[j] \in Nat /\ requests[r].running \in Nat /\ q.running \in Nat
        BY <1>3, <1>7
      <3>2. CASE j = Key(r)
        BY <3>1, <3>2, <2>3, <2>4, <2>5, <2>6
      <3>3. CASE j # Key(r)
        BY <3>1, <3>3, <2>3, <2>4, <2>5, <2>6
      <3> QED
        BY <3>2, <3>3
    <2> QED
      BY <2>7, <2>1 DEF SumFunction
  <1>11. {x \in Requests : HoldsGlobal(requests[x])}' = {x \in Requests : HoldsGlobal(requests'[x])}
    BY DEF HoldsGlobal
  <1> QED
    BY <1>1, <1>5, <1>6, <1>8, <1>9, <1>10, <1>11 DEF SlotsCounted

\* A step of one request keeps what is not about counters.
LEMMA OneRequest ==
  ASSUME GatewayInv, NEW r \in Requests, NEW q \in RequestRecords, CallerKnown(q),
         gateway' = gateway, Becomes(r, q), slots' \in SlotRecords, SlotsCounted', Keys' = Keys
  PROVE  GatewayInv'
  <1>1. requests' = [requests EXCEPT ![r] = q]
    BY DEF Becomes
  <1>2. requests' \in [Requests -> RequestRecords]
    BY <1>1 DEF GatewayInv, GatewayTyped
  <1>3. GatewayTyped'
    <2>1. slots' \in SlotRecords'
      BY DEF SlotRecords
    <2> QED
      BY <1>2, <2>1 DEF GatewayInv, GatewayTyped, RequestRecords
  <1>4. CallersSound' /\ PageSound'
    <2>1. CallersSound /\ PageSound
      BY DEF GatewayInv
    <2>2. CallersSound'
      BY <2>1 DEF CallersSound
    <2>3. PageSound'
      BY <2>1 DEF PageSound, UniquePrincipalIDs
    <2> QED
      BY <2>2, <2>3
  <1>5. \A x \in Requests : CallerKnown(requests[x])'
    <2>1. ASSUME NEW x \in Requests PROVE CallerKnown(requests[x])'
      <3>1. CallerKnown(requests'[x])
        BY <1>1 DEF GatewayInv, GatewayTyped
      <3> QED
        BY <3>1 DEF CallerKnown, HoldsGlobal
    <2> QED
      BY <2>1
  <1> QED
    BY <1>3, <1>4, <1>5 DEF GatewayInv

\* A step of one request that takes and gives back nothing.
LEMMA OneStill ==
  ASSUME GatewayInv, NEW r \in Requests, NEW q \in RequestRecords, CallerKnown(q),
         gateway' = gateway, Becomes(r, q), slots' = slots,
         HoldsGlobal(q) <=> HoldsGlobal(requests[r]), q.pc = "in" <=> requests[r].pc = "in",
         q.running = requests[r].running,
         \/ q.caller = requests[r].caller
         \/ requests[r].running = 0 /\ requests[r].pc # "in"
  PROVE  GatewayInv'
  <1>1. requests' = [requests EXCEPT ![r] = q] /\ requests \in [Requests -> RequestRecords]
        /\ slots \in SlotRecords
    BY DEF Becomes, GatewayInv, GatewayTyped
  <1>2. requests' \in [Requests -> RequestRecords] /\ requests'[r] = q
        /\ \A x \in Requests : x # r => requests'[x] = requests[x]
    BY <1>1
  <1>3. \A x \in Requests :
            /\ HoldsGlobal(requests'[x]) <=> HoldsGlobal(requests[x])
            /\ requests'[x].pc = "in" <=> requests[x].pc = "in"
            /\ requests'[x].running = requests[x].running
            /\ \/ requests'[x].caller = requests[x].caller
               \/ requests[x].running = 0 /\ requests[x].pc # "in"
    BY <1>2
  <1>4. SlotsCounted' /\ Keys' = Keys
    BY <1>2, <1>3, StillCounts
  <1> QED
    BY <1>1, <1>4, OneRequest

\* What is known of a request that is under way, and of its principal's counters.
LEMMA Underway ==
  ASSUME GatewayInv, NEW r \in Requests, requests[r].pc # "none" \/ requests[r].waiting > 0 \/ requests[r].running > 0
  PROVE  /\ requests[r] \in RequestRecords /\ CallerKnown(requests[r])
         /\ gateway.phase # "starting" /\ requests[r].pc # "none"
         /\ slots \in SlotRecords
         /\ requests[r].caller # 0 =>
               /\ requests[r].caller \in DOMAIN gateway.callers
               /\ Key(r) \in Keys
               /\ SlotKey(gateway.callers[requests[r].caller]) = Key(r)
               /\ slots.request[Key(r)] \in Nat /\ slots.request[Key(r)] <= MaxConcurrency
               /\ slots.tool[Key(r)] \in Nat /\ slots.tool[Key(r)] <= MaxConcurrency
         /\ slots.global \in Nat /\ slots.global <= MaxGlobal
  <1>1. requests[r] \in RequestRecords /\ CallerKnown(requests[r]) /\ slots \in SlotRecords /\ SlotsCounted
    BY DEF GatewayInv, GatewayTyped
  <1>2. gateway.phase # "starting" /\ requests[r].pc # "none"
    <2>1. NoRequest.pc = "none" /\ NoRequest.waiting = 0 /\ NoRequest.running = 0
      BY DEF NoRequest
    <2> QED
      BY <1>1, <2>1 DEF CallerKnown
  <1>3. slots.global \in Nat /\ slots.request \in [Keys -> Nat] /\ slots.tool \in [Keys -> Nat]
    BY <1>1 DEF SlotRecords
  <1>4. requests[r].caller # 0 => requests[r].caller \in DOMAIN gateway.callers /\ Key(r) \in Keys
    BY <1>1 DEF CallerKnown, Key, Keys
  <1> QED
    BY <1>1, <1>2, <1>3, <1>4 DEF SlotsCounted, Key

\* Slots of which the global counter has changed.
LEMMA GlobalChange ==
  ASSUME slots \in SlotRecords, NEW n \in Nat, slots' = [slots EXCEPT !.global = n]
  PROVE  /\ slots' \in SlotRecords /\ slots'.global = n
         /\ slots'.request = slots.request /\ slots'.tool = slots.tool
  BY DEF SlotRecords

\* Slots of which a principal's counter of requests has changed.
LEMMA RequestChange ==
  ASSUME slots \in SlotRecords, NEW k \in Keys, NEW n \in Nat, slots' = [slots EXCEPT !.request[k] = n]
  PROVE  /\ slots' \in SlotRecords /\ slots'.request[k] = n
         /\ slots'.global = slots.global /\ slots'.tool = slots.tool
         /\ \A j \in Keys : j # k => slots'.request[j] = slots.request[j]
  BY DEF SlotRecords

\* Slots of which a principal's counter of calls has changed.
LEMMA ToolChange ==
  ASSUME slots \in SlotRecords, NEW k \in Keys, NEW n \in Nat, slots' = [slots EXCEPT !.tool[k] = n]
  PROVE  /\ slots' \in SlotRecords /\ slots'.tool[k] = n
         /\ slots'.global = slots.global /\ slots'.request = slots.request
         /\ \A j \in Keys : j # k => slots'.tool[j] = slots.tool[j]
  BY DEF SlotRecords

\* A request that has not arrived is a record like any other.
LEMMA NoRequestTyped ==
    /\ NoRequest \in RequestRecords /\ NoRequest.caller = 0 /\ NoRequest.pc = "none"
    /\ NoRequest.running = 0 /\ NoRequest.waiting = 0
  BY DEF NoRequest, RequestRecords

\* Arrive
LEMMA ArriveKeeps ==
  ASSUME GatewayInv, NEW r \in Requests, Arrive(r)
  PROVE  GatewayInv'
  <1>1. PICK host \in BOOLEAN, origin \in BOOLEAN, path \in BOOLEAN, token \in Tokens \cup {Unset} :
        Becomes(r, IF host /\ origin /\ path /\ Matching(token) # {}
                   THEN [NoRequest EXCEPT !.pc = "admitted", !.token = token,
                                          !.caller = Max(Matching(token))]
                   ELSE [NoRequest EXCEPT !.pc = "answered"])
    BY DEF Arrive
  <1>2. gateway.phase = "serving" /\ requests[r].pc = "none" /\ gateway' = gateway /\ slots' = slots
    BY DEF Arrive
  <1>3. requests[r] \in RequestRecords /\ CallerKnown(requests[r])
    BY DEF GatewayInv, GatewayTyped
  <1>4. requests[r].running = 0
    BY <1>2, <1>3 DEF CallerKnown, NoRequest
  <1>5. CASE host /\ origin /\ path /\ Matching(token) # {}
    <2> DEFINE q == [NoRequest EXCEPT !.pc = "admitted", !.token = token, !.caller = Max(Matching(token))]
    <2>1. PICK i \in DOMAIN gateway.callers : gateway.callers[i].digest = token
      BY <1>5 DEF Matching
    <2>2. Matching(token) = {i} /\ i \in Nat /\ i # 0
      BY <2>1 DEF Matching, GatewayInv, CallersSound
    <2>3. Max(Matching(token)) = i
      BY <2>2 DEF Max
    <2>4. /\ q \in RequestRecords /\ q.pc = "admitted" /\ q.caller = i /\ q.token = token
          /\ q.running = 0 /\ q.waiting = 0
      <3>1. q = [NoRequest EXCEPT !.pc = "admitted", !.token = token, !.caller = i]
        BY <2>3
      <3>2. i \in Nat
        BY <2>2
      <3>3. token \in Tokens \cup {Unset}
        OBVIOUS
      <3> HIDE DEF q
      <3> QED
        BY <3>1, <3>2, <3>3, NoRequestTyped DEF RequestRecords
    <2>5. q \in RequestRecords
      BY <2>4
    <2>6. CallerKnown(q)
      BY <2>1, <2>2, <2>4, <1>2 DEF CallerKnown
    <2>7. Becomes(r, q)
      BY <1>1, <1>5
    <2>8. q.running = 0 /\ q.pc = "admitted"
      BY <2>4
    <2> HIDE DEF q
    <2> QED
      BY <2>5, <2>6, <2>7, <2>8, <1>2, <1>4, OneStill DEF HoldsGlobal
  <1>6. CASE ~(host /\ origin /\ path /\ Matching(token) # {})
    <2> DEFINE q == [NoRequest EXCEPT !.pc = "answered"]
    <2>1. /\ q \in RequestRecords /\ q.pc = "answered" /\ q.caller = 0
          /\ q.running = 0 /\ q.waiting = 0
      BY NoRequestTyped DEF RequestRecords
    <2>2. q \in RequestRecords
      BY <2>1
    <2>3. CallerKnown(q)
      BY <2>1, <1>2 DEF CallerKnown, HoldsGlobal
    <2>4. Becomes(r, q)
      BY <1>1, <1>6
    <2>5. q.running = 0 /\ q.pc = "answered"
      BY <2>1
    <2> HIDE DEF q
    <2> QED
      BY <2>2, <2>3, <2>4, <2>5, <1>2, <1>4, OneStill DEF HoldsGlobal
  <1> QED
    BY <1>5, <1>6

\* TakeGlobal
LEMMA TakeGlobalKeeps ==
  ASSUME GatewayInv, NEW r \in Requests, TakeGlobal(r)
  PROVE  GatewayInv'
  <1>1. requests[r].pc = "admitted" /\ gateway' = gateway
    BY DEF TakeGlobal
  <1>2. /\ requests[r] \in RequestRecords /\ CallerKnown(requests[r]) /\ gateway.phase # "starting"
        /\ slots \in SlotRecords /\ slots.global \in Nat
    BY <1>1, Underway
  <1>3. requests[r].caller # 0
    BY <1>1, <1>2 DEF CallerKnown
  <1>4. CASE slots.global < MaxGlobal
    <2> DEFINE q == [requests[r] EXCEPT !.pc = "global"]
    <2>1. slots' = [slots EXCEPT !.global = slots.global + 1] /\ Becomes(r, q)
      BY <1>4 DEF TakeGlobal
    <2>2. /\ q \in RequestRecords /\ q.pc = "global" /\ q.caller = requests[r].caller
          /\ q.running = requests[r].running /\ q.token = requests[r].token
      BY <1>2 DEF RequestRecords
    <2>3. CallerKnown(q)
      BY <2>2, <1>2, <1>3 DEF CallerKnown
    <2>4. Key(r) \in Keys /\ SlotKey(gateway.callers[q.caller]) = Key(r)
          /\ slots.request[Key(r)] \in Nat /\ slots.request[Key(r)] <= MaxConcurrency
          /\ slots.tool[Key(r)] \in Nat /\ slots.tool[Key(r)] <= MaxConcurrency
      BY <2>2, <1>1, <1>3, Underway
    <2>5. slots.global + 1 \in Nat /\ slots.global + 1 <= MaxGlobal
      BY <1>2, <1>4, GatewayAssumption
    <2>6. /\ slots' \in SlotRecords /\ slots'.global = slots.global + 1
          /\ slots'.request = slots.request /\ slots'.tool = slots.tool
      BY <2>1, <2>4, <2>5, <1>2, GlobalChange
    <2>7. One(HoldsGlobal(requests[r])) = 0 /\ One(HoldsGlobal(q)) = 1
          /\ One(requests[r].pc = "in") = 0 /\ One(q.pc = "in") = 0
      BY <1>1, <2>2 DEF One, HoldsGlobal
    <2>8. requests' = [requests EXCEPT ![r] = q]
      BY <2>1 DEF Becomes
    <2> HIDE DEF q
    <2>9. SlotsCounted' /\ Keys' = Keys
      <3>1. slots'.global + One(HoldsGlobal(requests[r])) = slots.global + One(HoldsGlobal(q))
        BY <2>6, <2>7, <1>2
      <3>2. slots'.request[Key(r)] + One(requests[r].pc = "in") = slots.request[Key(r)] + One(q.pc = "in")
        BY <2>6, <2>7
      <3>3. slots'.tool[Key(r)] + requests[r].running = slots.tool[Key(r)] + q.running
        BY <2>2, <2>6
      <3> QED
        BY <3>1, <3>2, <3>3, <1>1, <1>3, <2>2, <2>4, <2>5, <2>6, <2>1, MoveCounts
    <2> QED
      BY <1>1, <2>1, <2>2, <2>3, <2>6, <2>9, OneRequest
  <1>5. CASE ~(slots.global < MaxGlobal)
    <2> DEFINE q == [requests[r] EXCEPT !.pc = "answered"]
    <2>1. Becomes(r, q) /\ slots' = slots
      BY <1>5 DEF TakeGlobal
    <2>2. /\ q \in RequestRecords /\ q.pc = "answered" /\ q.caller = requests[r].caller
          /\ q.running = requests[r].running /\ q.token = requests[r].token
      BY <1>2 DEF RequestRecords
    <2>3. CallerKnown(q)
      BY <2>2, <1>2, <1>3 DEF CallerKnown
    <2> HIDE DEF q
    <2> QED
      BY <1>1, <2>1, <2>2, <2>3, OneStill DEF HoldsGlobal
  <1> QED
    BY <1>4, <1>5

\* TakeCaller
LEMMA TakeCallerKeeps ==
  ASSUME GatewayInv, NEW r \in Requests, TakeCaller(r)
  PROVE  GatewayInv'
  <1>1. requests[r].pc = "global" /\ gateway' = gateway
    BY DEF TakeCaller
  <1>2. /\ requests[r] \in RequestRecords /\ CallerKnown(requests[r]) /\ gateway.phase # "starting"
        /\ slots \in SlotRecords /\ slots.global \in Nat /\ slots.global <= MaxGlobal
    BY <1>1, Underway
  <1>3. requests[r].caller # 0
    BY <1>1, <1>2 DEF CallerKnown, HoldsGlobal
  <1>4. CASE slots.request[Key(r)] < MaxConcurrency
    <2>1. PICK n \in 0..MaxBatch : Becomes(r, [requests[r] EXCEPT !.pc = "in", !.waiting = n])
      BY <1>4 DEF TakeCaller
    <2> DEFINE q == [requests[r] EXCEPT !.pc = "in", !.waiting = n]
    <2>2. /\ q \in RequestRecords /\ q.pc = "in" /\ q.caller = requests[r].caller
          /\ q.running = requests[r].running /\ q.token = requests[r].token
      <3> DEFINE w == [requests[r] EXCEPT !.waiting = n]
      <3>1. n \in Nat
        BY <2>1, GatewayAssumption
      <3>2. /\ w \in RequestRecords /\ w.pc = requests[r].pc /\ w.caller = requests[r].caller
            /\ w.running = requests[r].running /\ w.token = requests[r].token
        BY <3>1, <1>2 DEF RequestRecords
      <3>3. q = [w EXCEPT !.pc = "in"]
        BY <1>2, Zenon DEF RequestRecords
      <3> HIDE DEF w, q
      <3> QED
        BY <3>2, <3>3 DEF RequestRecords
    <2>3. CallerKnown(q)
      <3> HIDE DEF q
      <3> QED
        BY <2>2, <1>2, <1>3 DEF CallerKnown
    <2>4. Key(r) \in Keys /\ SlotKey(gateway.callers[q.caller]) = Key(r)
          /\ slots.request[Key(r)] \in Nat
          /\ slots.tool[Key(r)] \in Nat /\ slots.tool[Key(r)] <= MaxConcurrency
      BY <2>2, <1>1, <1>3, Underway
    <2>5. PICK m \in Nat : m = slots.request[Key(r)] + 1 /\ m <= MaxConcurrency
      BY <2>4, <1>4, GatewayAssumption
    <2>6. slots' = [slots EXCEPT !.request[Key(r)] = m]
      BY <1>4, <2>5 DEF TakeCaller
    <2>7. /\ slots' \in SlotRecords /\ slots'.global = slots.global
          /\ slots'.request[Key(r)] = m
          /\ \A j \in Keys : j # Key(r) => slots'.request[j] = slots.request[j]
          /\ slots'.tool = slots.tool
      BY <2>4, <2>6, <1>2, RequestChange
    <2>8. One(HoldsGlobal(requests[r])) = 1 /\ One(HoldsGlobal(q)) = 1
          /\ One(requests[r].pc = "in") = 0 /\ One(q.pc = "in") = 1
      BY <1>1, <2>2 DEF One, HoldsGlobal
    <2>9. requests' = [requests EXCEPT ![r] = q] /\ Becomes(r, q)
      BY <2>1 DEF Becomes
    <2> HIDE DEF q
    <2>10. SlotsCounted' /\ Keys' = Keys
      <3>1. slots'.global + One(HoldsGlobal(requests[r])) = slots.global + One(HoldsGlobal(q))
        BY <2>7, <2>8
      <3>2. slots'.request[Key(r)] + One(requests[r].pc = "in") = slots.request[Key(r)] + One(q.pc = "in")
        BY <2>5, <2>7, <2>8, <2>4
      <3>3. slots'.tool[Key(r)] + requests[r].running = slots.tool[Key(r)] + q.running
        BY <2>2, <2>7
      <3>4. slots'.global <= MaxGlobal /\ slots'.request[Key(r)] <= MaxConcurrency
            /\ slots'.tool[Key(r)] <= MaxConcurrency
        BY <1>2, <2>4, <2>5, <2>7
      <3>5. \A j \in Keys : j # Key(r) => slots'.request[j] = slots.request[j] /\ slots'.tool[j] = slots.tool[j]
        BY <2>7
      <3> QED
        BY <3>1, <3>2, <3>3, <3>4, <3>5, <1>1, <1>3, <2>2, <2>4, <2>7, <2>9, MoveCounts
    <2> QED
      BY <1>1, <2>2, <2>3, <2>7, <2>9, <2>10, OneRequest
  <1>5. CASE ~(slots.request[Key(r)] < MaxConcurrency)
    <2> DEFINE q == [requests[r] EXCEPT !.pc = "leaving"]
    <2>1. Becomes(r, q) /\ slots' = slots
      BY <1>5 DEF TakeCaller
    <2>2. /\ q \in RequestRecords /\ q.pc = "leaving" /\ q.caller = requests[r].caller
          /\ q.running = requests[r].running /\ q.token = requests[r].token
      BY <1>2 DEF RequestRecords
    <2>3. CallerKnown(q)
      BY <2>2, <1>2, <1>3 DEF CallerKnown
    <2> HIDE DEF q
    <2> QED
      BY <1>1, <2>1, <2>2, <2>3, OneStill DEF HoldsGlobal
  <1> QED
    BY <1>4, <1>5

\* StartTool and EndTool: the counter moves with the calls that run.
LEMMA ToolKeeps ==
  ASSUME GatewayInv, NEW r \in Requests, StartTool(r) \/ EndTool(r)
  PROVE  GatewayInv'
  <1>1. (requests[r].waiting > 0 \/ requests[r].running > 0) /\ gateway' = gateway
    BY DEF StartTool, EndTool
  <1>2. /\ requests[r] \in RequestRecords /\ CallerKnown(requests[r]) /\ gateway.phase # "starting"
        /\ requests[r].pc # "none"
        /\ slots \in SlotRecords /\ slots.global \in Nat /\ slots.global <= MaxGlobal
    BY <1>1, Underway
  <1>3. requests[r].caller # 0
    BY <1>1, <1>2 DEF CallerKnown
  <1>4. /\ Key(r) \in Keys /\ SlotKey(gateway.callers[requests[r].caller]) = Key(r)
        /\ slots.request[Key(r)] \in Nat /\ slots.request[Key(r)] <= MaxConcurrency
        /\ slots.tool[Key(r)] \in Nat /\ slots.tool[Key(r)] <= MaxConcurrency
    BY <1>1, <1>3, Underway
  <1>5. requests[r].waiting \in Nat /\ requests[r].running \in Nat
    BY <1>2 DEF RequestRecords
  <1>6. requests[r].running <= slots.tool[Key(r)]
    <2>1. slots.tool[Key(r)] = SumFunction(CallsOf(Key(r)))
      BY <1>4 DEF GatewayInv, SlotsCounted
    <2>2. DOMAIN CallsOf(Key(r)) = Requests /\ CallsOf(Key(r))[r] = requests[r].running
          /\ \A x \in Requests : CallsOf(Key(r))[x] \in Nat
      BY <1>3, <1>4 DEF CallsOf, OfKey, GatewayInv, GatewayTyped, RequestRecords
    <2>3. SumFunctionOnSet(CallsOf(Key(r)), Requests)
             = CallsOf(Key(r))[r] + SumFunctionOnSet(CallsOf(Key(r)), Requests \ {r})
      BY <2>2, SumRemove, GatewayAssumption
    <2>4. SumFunctionOnSet(CallsOf(Key(r)), Requests \ {r}) \in Nat
      <3>1. IsFiniteSet(Requests \ {r})
        BY GatewayAssumption, FS_RemoveElement
      <3> QED
        BY <3>1, <2>2, SumType
    <2> QED
      BY <2>1, <2>2, <2>3, <2>4, <1>5 DEF SumFunction
  <1>7. PICK q \in RequestRecords, n \in Nat :
           /\ Becomes(r, q) /\ slots' = [slots EXCEPT !.tool[Key(r)] = n] /\ n <= MaxConcurrency
           /\ q.pc = requests[r].pc /\ q.caller = requests[r].caller /\ q.token = requests[r].token
           /\ n + requests[r].running = slots.tool[Key(r)] + q.running
    <2>1. CASE StartTool(r)
      <3> DEFINE q == [requests[r] EXCEPT !.waiting = requests[r].waiting - 1,
                                          !.running = requests[r].running + 1]
      <3> DEFINE n == slots.tool[Key(r)] + 1
      <3>1. slots.tool[Key(r)] < MaxConcurrency /\ requests[r].waiting > 0
            /\ slots' = [slots EXCEPT !.tool[Key(r)] = n] /\ Becomes(r, q)
        BY <2>1 DEF StartTool
      <3>2. n \in Nat /\ n <= MaxConcurrency
        BY <3>1, <1>4, GatewayAssumption
      <3>3. requests[r].waiting - 1 \in Nat /\ requests[r].running + 1 \in Nat
        BY <3>1, <1>5
      <3>4. /\ q \in RequestRecords /\ q.pc = requests[r].pc /\ q.caller = requests[r].caller
            /\ q.token = requests[r].token /\ q.running = requests[r].running + 1
        BY <3>3, <1>2 DEF RequestRecords
      <3>5. n + requests[r].running = slots.tool[Key(r)] + q.running
        BY <3>4, <1>4, <1>5
      <3> HIDE DEF q, n
      <3> QED
        BY <3>1, <3>2, <3>4, <3>5
    <2>2. CASE EndTool(r)
      <3> DEFINE q == [requests[r] EXCEPT !.running = requests[r].running - 1]
      <3> DEFINE n == slots.tool[Key(r)] - 1
      <3>1. requests[r].running > 0
            /\ slots' = [slots EXCEPT !.tool[Key(r)] = n] /\ Becomes(r, q)
        BY <2>2 DEF EndTool
      <3>2. n \in Nat /\ n <= MaxConcurrency
        BY <3>1, <1>4, <1>5, <1>6, GatewayAssumption
      <3>3. requests[r].running - 1 \in Nat
        BY <3>1, <1>5
      <3>4. /\ q \in RequestRecords /\ q.pc = requests[r].pc /\ q.caller = requests[r].caller
            /\ q.token = requests[r].token /\ q.running = requests[r].running - 1
        BY <3>3, <1>2 DEF RequestRecords
      <3>5. n + requests[r].running = slots.tool[Key(r)] + q.running
        BY <3>4, <1>4, <1>5
      <3> HIDE DEF q, n
      <3> QED
        BY <3>1, <3>2, <3>4, <3>5
    <2> QED
      BY <2>1, <2>2
  <1>8. CallerKnown(q)
    BY <1>7, <1>2, <1>3 DEF CallerKnown
  <1>9. /\ slots' \in SlotRecords /\ slots'.global = slots.global /\ slots'.request = slots.request
        /\ slots'.tool[Key(r)] = n
        /\ \A j \in Keys : j # Key(r) => slots'.tool[j] = slots.tool[j]
    BY <1>7, <1>4, <1>2, ToolChange
  <1>10. /\ HoldsGlobal(requests[r]) = HoldsGlobal(q)
         /\ One(HoldsGlobal(requests[r])) = One(HoldsGlobal(q))
         /\ One(requests[r].pc = "in") = One(q.pc = "in")
    BY <1>7 DEF HoldsGlobal
  <1>11. requests' = [requests EXCEPT ![r] = q]
    BY <1>7 DEF Becomes
  <1>12. SlotsCounted' /\ Keys' = Keys
    <2>1. slots'.global + One(HoldsGlobal(requests[r])) = slots.global + One(HoldsGlobal(q))
      BY <1>9, <1>10
    <2>2. slots'.request[Key(r)] + One(requests[r].pc = "in") = slots.request[Key(r)] + One(q.pc = "in")
      BY <1>9, <1>10
    <2>3. slots'.tool[Key(r)] + requests[r].running = slots.tool[Key(r)] + q.running
      BY <1>7, <1>9
    <2> QED
      BY <2>1, <2>2, <2>3, <1>1, <1>2, <1>3, <1>4, <1>7, <1>9, MoveCounts
  <1> QED
    BY <1>1, <1>7, <1>8, <1>9, <1>12, OneRequest

\* FinishRequest: the handler gives the principal's slot back.
LEMMA FinishRequestKeeps ==
  ASSUME GatewayInv, NEW r \in Requests, FinishRequest(r)
  PROVE  GatewayInv'
  <1> DEFINE q == [requests[r] EXCEPT !.pc = "leaving"]
  <1> DEFINE n == slots.request[Key(r)] - 1
  <1>1. requests[r].pc = "in" /\ gateway' = gateway /\ Becomes(r, q)
        /\ slots' = [slots EXCEPT !.request[Key(r)] = n]
    BY DEF FinishRequest
  <1>2. /\ requests[r] \in RequestRecords /\ CallerKnown(requests[r]) /\ gateway.phase # "starting"
        /\ slots \in SlotRecords /\ slots.global \in Nat /\ slots.global <= MaxGlobal
    BY <1>1, Underway
  <1>3. requests[r].caller # 0
    BY <1>1, <1>2 DEF CallerKnown, HoldsGlobal
  <1>4. /\ Key(r) \in Keys /\ SlotKey(gateway.callers[requests[r].caller]) = Key(r)
        /\ slots.request[Key(r)] \in Nat /\ slots.request[Key(r)] <= MaxConcurrency
        /\ slots.tool[Key(r)] \in Nat /\ slots.tool[Key(r)] <= MaxConcurrency
    BY <1>1, <1>3, Underway
  <1>5. /\ q \in RequestRecords /\ q.pc = "leaving" /\ q.caller = requests[r].caller
        /\ q.running = requests[r].running /\ q.token = requests[r].token
    BY <1>2 DEF RequestRecords
  <1>6. CallerKnown(q)
    BY <1>5, <1>2, <1>3 DEF CallerKnown
  <1>7. n \in Nat /\ n <= MaxConcurrency
    <2>1. slots.request[Key(r)] = Cardinality(InFlight(Key(r)))
      BY <1>4 DEF GatewayInv, SlotsCounted
    <2>2. r \in InFlight(Key(r)) /\ IsFiniteSet(InFlight(Key(r)))
      BY <1>1, <1>3, <1>4, FS_Subset, GatewayAssumption DEF InFlight, OfKey
    <2>3. slots.request[Key(r)] # 0
      BY <2>1, <2>2, FS_EmptySet
    <2> QED
      BY <2>3, <1>4, GatewayAssumption
  <1>8. /\ slots' \in SlotRecords /\ slots'.global = slots.global
        /\ slots'.request[Key(r)] = n
        /\ \A j \in Keys : j # Key(r) => slots'.request[j] = slots.request[j]
        /\ slots'.tool = slots.tool
    <2> HIDE DEF q, n
    <2> QED
      BY <1>1, <1>2, <1>4, <1>7, RequestChange
  <1>9. One(HoldsGlobal(requests[r])) = 1 /\ One(HoldsGlobal(q)) = 1
        /\ One(requests[r].pc = "in") = 1 /\ One(q.pc = "in") = 0
    BY <1>1, <1>5 DEF One, HoldsGlobal
  <1>10. requests' = [requests EXCEPT ![r] = q] /\ n + 1 = slots.request[Key(r)]
    BY <1>1, <1>4 DEF Becomes
  <1> HIDE DEF q, n
  <1>11. SlotsCounted' /\ Keys' = Keys
    <2>1. slots'.global + One(HoldsGlobal(requests[r])) = slots.global + One(HoldsGlobal(q))
      BY <1>8, <1>9
    <2>2. slots'.request[Key(r)] + One(requests[r].pc = "in") = slots.request[Key(r)] + One(q.pc = "in")
      BY <1>8, <1>9, <1>10, <1>4
    <2>3. slots'.tool[Key(r)] + requests[r].running = slots.tool[Key(r)] + q.running
      BY <1>5, <1>8
    <2>4. slots'.global <= MaxGlobal /\ slots'.request[Key(r)] <= MaxConcurrency
          /\ slots'.tool[Key(r)] <= MaxConcurrency
      BY <1>2, <1>4, <1>7, <1>8
    <2>5. \A j \in Keys : j # Key(r) => slots'.request[j] = slots.request[j] /\ slots'.tool[j] = slots.tool[j]
      BY <1>8
    <2> QED
      BY <2>1, <2>2, <2>3, <2>4, <2>5, <1>1, <1>3, <1>4, <1>5, <1>8, MoveCounts
  <1> QED
    BY <1>1, <1>5, <1>6, <1>8, <1>11, OneRequest

\* LeaveGlobal: it gives the global slot back.
LEMMA LeaveGlobalKeeps ==
  ASSUME GatewayInv, NEW r \in Requests, LeaveGlobal(r)
  PROVE  GatewayInv'
  <1> DEFINE q == [requests[r] EXCEPT !.pc = "answered"]
  <1> DEFINE n == slots.global - 1
  <1>1. requests[r].pc = "leaving" /\ gateway' = gateway /\ Becomes(r, q)
        /\ slots' = [slots EXCEPT !.global = n]
    BY DEF LeaveGlobal
  <1>2. /\ requests[r] \in RequestRecords /\ CallerKnown(requests[r]) /\ gateway.phase # "starting"
        /\ slots \in SlotRecords /\ slots.global \in Nat /\ slots.global <= MaxGlobal
    BY <1>1, Underway
  <1>3. requests[r].caller # 0
    BY <1>1, <1>2 DEF CallerKnown, HoldsGlobal
  <1>4. /\ Key(r) \in Keys /\ SlotKey(gateway.callers[requests[r].caller]) = Key(r)
        /\ slots.request[Key(r)] \in Nat /\ slots.request[Key(r)] <= MaxConcurrency
        /\ slots.tool[Key(r)] \in Nat /\ slots.tool[Key(r)] <= MaxConcurrency
    BY <1>1, <1>3, Underway
  <1>5. /\ q \in RequestRecords /\ q.pc = "answered" /\ q.caller = requests[r].caller
        /\ q.running = requests[r].running /\ q.token = requests[r].token
    BY <1>2 DEF RequestRecords
  <1>6. CallerKnown(q)
    BY <1>5, <1>2, <1>3 DEF CallerKnown
  <1>7. n \in Nat /\ n <= MaxGlobal
    <2>1. slots.global = Cardinality({x \in Requests : HoldsGlobal(requests[x])})
      BY DEF GatewayInv, SlotsCounted
    <2>2. r \in {x \in Requests : HoldsGlobal(requests[x])} /\ IsFiniteSet({x \in Requests : HoldsGlobal(requests[x])})
      BY <1>1, FS_Subset, GatewayAssumption DEF HoldsGlobal
    <2>3. slots.global # 0
      BY <2>1, <2>2, FS_EmptySet
    <2> QED
      BY <2>3, <1>2, GatewayAssumption
  <1>8. /\ slots' \in SlotRecords /\ slots'.global = n
        /\ slots'.request = slots.request /\ slots'.tool = slots.tool
    <2> HIDE DEF q, n
    <2> QED
      BY <1>1, <1>2, <1>4, <1>7, GlobalChange
  <1>9. One(HoldsGlobal(requests[r])) = 1 /\ One(HoldsGlobal(q)) = 0
        /\ One(requests[r].pc = "in") = 0 /\ One(q.pc = "in") = 0
    BY <1>1, <1>5 DEF One, HoldsGlobal
  <1>10. requests' = [requests EXCEPT ![r] = q] /\ n + 1 = slots.global
    BY <1>1, <1>2 DEF Becomes
  <1> HIDE DEF q, n
  <1>11. SlotsCounted' /\ Keys' = Keys
    <2>1. slots'.global + One(HoldsGlobal(requests[r])) = slots.global + One(HoldsGlobal(q))
      BY <1>8, <1>9, <1>10, <1>2
    <2>2. slots'.request[Key(r)] + One(requests[r].pc = "in") = slots.request[Key(r)] + One(q.pc = "in")
      BY <1>8, <1>9
    <2>3. slots'.tool[Key(r)] + requests[r].running = slots.tool[Key(r)] + q.running
      BY <1>5, <1>8
    <2>4. slots'.global <= MaxGlobal /\ slots'.request[Key(r)] <= MaxConcurrency
          /\ slots'.tool[Key(r)] <= MaxConcurrency
      BY <1>4, <1>7, <1>8
    <2>5. \A j \in Keys : j # Key(r) => slots'.request[j] = slots.request[j] /\ slots'.tool[j] = slots.tool[j]
      BY <1>8
    <2> QED
      BY <2>1, <2>2, <2>3, <2>4, <2>5, <1>1, <1>3, <1>4, <1>5, <1>8, MoveCounts
  <1> QED
    BY <1>1, <1>5, <1>6, <1>8, <1>11, OneRequest

\* GiveUpTool, ExpireRequest and NextRequest hold what was held.
LEMMA QuietKeeps ==
  ASSUME GatewayInv, NEW r \in Requests, GiveUpTool(r) \/ ExpireRequest(r) \/ NextRequest(r)
  PROVE  GatewayInv'
  <1>1. gateway' = gateway /\ slots' = slots
    BY DEF GiveUpTool, ExpireRequest, NextRequest
  <1>2. CASE GiveUpTool(r) \/ ExpireRequest(r)
    <2>1. /\ requests[r] \in RequestRecords /\ CallerKnown(requests[r]) /\ gateway.phase # "starting"
          /\ requests[r].pc # "none"
      BY <1>2, Underway DEF GiveUpTool, ExpireRequest
    <2>2. requests[r].waiting \in Nat
      BY <2>1 DEF RequestRecords
    <2>3. PICK q \in RequestRecords :
             /\ Becomes(r, q) /\ q.pc = requests[r].pc /\ q.caller = requests[r].caller
             /\ q.token = requests[r].token /\ q.running = requests[r].running
             /\ q.waiting > 0 => requests[r].waiting > 0
      <3>1. CASE GiveUpTool(r)
        <4> DEFINE q == [requests[r] EXCEPT !.waiting = requests[r].waiting - 1]
        <4>1. requests[r].waiting > 0 /\ Becomes(r, q)
          BY <3>1 DEF GiveUpTool
        <4>2. requests[r].waiting - 1 \in Nat
          BY <4>1, <2>2
        <4>3. /\ q \in RequestRecords /\ q.pc = requests[r].pc /\ q.caller = requests[r].caller
              /\ q.token = requests[r].token /\ q.running = requests[r].running
          BY <4>2, <2>1 DEF RequestRecords
        <4> HIDE DEF q
        <4> QED
          BY <4>1, <4>3
      <3>2. CASE ExpireRequest(r)
        <4> DEFINE q == [requests[r] EXCEPT !.expired = TRUE]
        <4>1. Becomes(r, q)
          BY <3>2 DEF ExpireRequest
        <4>2. /\ q \in RequestRecords /\ q.pc = requests[r].pc /\ q.caller = requests[r].caller
              /\ q.token = requests[r].token /\ q.running = requests[r].running
              /\ q.waiting = requests[r].waiting
          BY <2>1 DEF RequestRecords
        <4> HIDE DEF q
        <4> QED
          BY <4>1, <4>2
      <3> QED
        BY <3>1, <3>2, <1>2
    <2>4. CallerKnown(q)
      BY <2>1, <2>3 DEF CallerKnown, HoldsGlobal
    <2> QED
      BY <1>1, <2>3, <2>4, OneStill DEF HoldsGlobal
  <1>3. CASE NextRequest(r)
    <2>1. requests[r].pc = "answered" /\ requests[r].running = 0 /\ Becomes(r, NoRequest)
      BY <1>3 DEF NextRequest
    <2>2. CallerKnown(NoRequest)
      BY NoRequestTyped DEF CallerKnown, HoldsGlobal
    <2> QED
      BY <1>1, <2>1, <2>2, NoRequestTyped, OneStill DEF HoldsGlobal
  <1> QED
    BY <1>2, <1>3

\* Signal and StopServing: requests are cancelled, nothing is given back yet.
LEMMA StopKeeps ==
  ASSUME GatewayInv, Signal \/ StopServing
  PROVE  GatewayInv'
  <1>1. /\ slots' = slots
        /\ gateway'.callers = gateway.callers /\ gateway'.page = gateway.page
        /\ gateway' = [phase |-> gateway'.phase, callers |-> gateway'.callers, page |-> gateway'.page]
        /\ gateway.phase # "starting" /\ gateway'.phase # "starting"
    BY DEF GatewayInv, GatewayTyped, Signal, StopServing
  <1>2. requests' \in [Requests -> RequestRecords]
        /\ \A r \in Requests :
              /\ requests'[r].pc = requests[r].pc /\ requests'[r].caller = requests[r].caller
              /\ requests'[r].token = requests[r].token /\ requests'[r].running = requests[r].running
              /\ requests'[r].waiting = requests[r].waiting
              /\ requests[r] = NoRequest => requests'[r] = NoRequest
    <2>1. requests \in [Requests -> RequestRecords]
      BY DEF GatewayInv, GatewayTyped
    <2>2. CASE Signal
      <3> DEFINE stopped(r) == [requests[r] EXCEPT !.expired = requests[r].pc # "none"]
      <3>1. requests' = [r \in Requests |-> stopped(r)]
        BY <2>2 DEF Signal
      <3>2. \A r \in Requests :
              /\ stopped(r) \in RequestRecords
              /\ stopped(r).pc = requests[r].pc /\ stopped(r).caller = requests[r].caller
              /\ stopped(r).token = requests[r].token /\ stopped(r).running = requests[r].running
              /\ stopped(r).waiting = requests[r].waiting
        BY <2>1 DEF RequestRecords
      <3>3. ASSUME NEW r \in Requests, requests[r] = NoRequest PROVE stopped(r) = NoRequest
        <4>1. NoRequest.pc = "none" /\ NoRequest.expired = FALSE
          BY Zenon DEF NoRequest
        <4>2. NoRequest \in RequestRecords
          BY NoRequestTyped
        <4>3. stopped(r) = [NoRequest EXCEPT !.expired = NoRequest.expired]
          BY <3>3, <4>1
        <4> HIDE DEF stopped
        <4> QED
          BY <3>3, <4>2, <4>3 DEF RequestRecords
      <3> HIDE DEF stopped
      <3> QED
        BY <3>1, <3>2, <3>3
    <2>3. CASE StopServing
      BY <2>1, <2>3 DEF StopServing
    <2> QED
      BY <2>2, <2>3
  <1>3. SlotsCounted' /\ Keys' = Keys
    BY <1>1, <1>2, StillCounts DEF HoldsGlobal
  <1>4. GatewayTyped'
    BY <1>1, <1>2, <1>3 DEF GatewayInv, GatewayTyped, SlotRecords, RequestRecords
  <1>5. CallersSound' /\ PageSound'
    <2>1. CallersSound /\ PageSound
      BY DEF GatewayInv
    <2>2. CallersSound'
      BY <2>1, <1>1 DEF CallersSound
    <2>3. PageSound'
      BY <2>1, <1>1 DEF PageSound, UniquePrincipalIDs
    <2> QED
      BY <2>2, <2>3
  <1>6. ASSUME NEW r \in Requests PROVE CallerKnown(requests[r])'
    <2>1. CallerKnown(requests[r])
      BY DEF GatewayInv
    <2> QED
      BY <2>1, <1>1, <1>2 DEF CallerKnown, HoldsGlobal
  <1> QED
    BY <1>3, <1>4, <1>5, <1>6 DEF GatewayInv

\* Every step keeps the invariant.
LEMMA GatewayInvNext == GatewayInv /\ [GatewayNext]_gatewayVars => GatewayInv'
  <1> SUFFICES ASSUME GatewayInv, [GatewayNext]_gatewayVars PROVE GatewayInv'
    OBVIOUS
  <1>1. CASE ServeGateway
    BY <1>1, ServeGatewayKeeps
  <1>2. CASE Signal \/ StopServing
    BY <1>2, StopKeeps
  <1>3. ASSUME NEW r \in Requests, Arrive(r) \/ HandleRequest(r) \/ NextRequest(r) PROVE GatewayInv'
    BY <1>3, ArriveKeeps, TakeGlobalKeeps, TakeCallerKeeps, ToolKeeps, QuietKeeps,
       FinishRequestKeeps, LeaveGlobalKeeps DEF HandleRequest
  <1>4. CASE UNCHANGED gatewayVars
    <2>1. gateway' = gateway /\ requests' = requests /\ slots' = slots
      BY <1>4 DEF gatewayVars
    <2>2. Keys' = Keys /\ Calls' = Calls /\ RequestRecords' = RequestRecords
      BY <2>1 DEF Keys, Calls, RequestRecords, SlotKey
    <2>3. \A k \in Keys : InFlight(k)' = InFlight(k) /\ CallsOf(k)' = CallsOf(k)
      BY <2>1 DEF InFlight, CallsOf, OfKey, SlotKey
    <2>4. SlotsCounted' = SlotsCounted
      BY <2>1, <2>2, <2>3 DEF SlotsCounted, HoldsGlobal
    <2>5. CallersSound' = CallersSound /\ PageSound' = PageSound
      <3>1. CallersSound' = CallersSound
        BY <2>1, Zenon DEF CallersSound
      <3>2. PageSound' = PageSound
        BY <2>1 DEF PageSound, UniquePrincipalIDs
      <3> QED
        BY <3>1, <3>2
    <2>6. GatewayTyped' = GatewayTyped
      BY <2>1, <2>2 DEF GatewayTyped, SlotRecords
    <2>7. \A r \in Requests : CallerKnown(requests[r])' = CallerKnown(requests[r])
      BY <2>1 DEF CallerKnown, HoldsGlobal
    <2> QED
      BY <2>4, <2>5, <2>6, <2>7 DEF GatewayInv
  <1> QED
    BY <1>1, <1>2, <1>3, <1>4 DEF GatewayNext

\* The inductive invariant of the gateway: callers as they were accepted, requests of
\* known callers, and every counter with its holders (http.go, http_config.go).
THEOREM GatewayInductive == GatewaySpec => []GatewayInv
  <1>1. GatewayInit => GatewayInv
    BY GatewayInvInit
  <1> QED
    BY <1>1, GatewayInvNext, PTL DEF GatewaySpec

\* A request is served as the one caller its token belongs to, and no slot is lost or
\* shared beyond its limit, for any callers, principals, limits and requests, however
\* refusals, timeouts and shutdown interleave with tool calls (handler.ServeHTTP).
THEOREM GatewayHolds == GatewaySpec => []GatewayKept
  <1>1. GatewayInv => GatewayKept
    BY GatewayInvEnough
  <1> QED
    BY <1>1, GatewayInductive, PTL

-----------------------------------------------------------------------------
(* The runtime: ToolsFollowAccess. *)

\* The runtimes alone, whatever the gateway does.
RuntimeSpec == RuntimeInit /\ [][RuntimeNext]_runtimeVars

Checkable == OpNames \cup {"accounts_list"}
Registrable == Checkable \cup CompactTools

SyncRecords == [by : {"resync", "reload"}, using : Snapshots, todo : Seq(Checkable),
                wanted : SUBSET Registrable]

\* While nothing has changed since it began, a synchronisation has found every wanted
\* tool it will not ask about any more, and none but wanted ones.
CollectedSoFar(p) ==
    LET all == Wanted(sync[p].using, registry, p)
    IN  sync[p] # Idle /\ due[p] = 0 =>
            /\ ToSet(sync[p].todo) \subseteq ToSet(ToolsToCheck)
            /\ AlwaysWanted \subseteq sync[p].wanted
            /\ sync[p].wanted \subseteq all
            /\ all \subseteq sync[p].wanted \cup ToSet(sync[p].todo)

ToolsTyped ==
    /\ snapshot \in [Serving -> Snapshots]
    /\ tools \in [Serving -> SUBSET Registrable]
    /\ sync \in [Serving -> SyncRecords \cup {Idle}]
    /\ due \in [Serving -> Nat]
    /\ syncFailed \in [Serving -> BOOLEAN]

ToolsInv ==
    /\ ToolsTyped
    /\ \A p \in Serving : CollectedSoFar(p)
    /\ ToolsFollowAccess

\* A synchronisation is told from none.
LEMMA SyncNotIdle == ASSUME NEW s \in SyncRecords PROVE s # Idle
  BY DEF SyncRecords, Idle

\* The tools asked about are names.
LEMMA ToolsToCheckTyped ==
  /\ ToolsToCheck \in Seq(Checkable)
  /\ AlwaysWanted \subseteq Registrable
  /\ \A s, reg, p : Wanted(s, reg, p) \subseteq Registrable
  <1>1. ToolsToCheck \in Seq(Checkable)
    <2>1. RuntimeOps \in Seq(Checkable)
      BY RuntimeAssumption DEF Checkable
    <2>2. <<"accounts_list">> \in Seq(Checkable) /\ <<>> \in Seq(Checkable)
      BY DEF Checkable
    <2> QED
      BY <2>1, <2>2 DEF ToolsToCheck
  <1>2. AlwaysWanted \subseteq Registrable
    BY DEF AlwaysWanted, Registrable
  <1>3. ToSet(ToolsToCheck) \subseteq Checkable
    BY <1>1 DEF ToSet
  <1> QED
    BY <1>1, <1>2, <1>3 DEF Wanted, Registrable

\* What a synchronisation asks about next, and what is left.
LEMMA HeadAndTail ==
  ASSUME NEW S, NEW q \in Seq(S), q # <<>>
  PROVE  /\ Head(q) \in S /\ Tail(q) \in Seq(S)
         /\ ToSet(q) = {Head(q)} \cup ToSet(Tail(q))
  <1>1. Head(q) \in S /\ Tail(q) \in Seq(S) /\ Len(q) \in Nat /\ Len(q) > 0
        /\ Head(q) = q[1] /\ Len(Tail(q)) = Len(q) - 1 /\ DOMAIN q = 1..Len(q)
        /\ DOMAIN Tail(q) = 1..(Len(q) - 1)
    OBVIOUS
  <1>2. \A i \in 1..(Len(q) - 1) : Tail(q)[i] = q[i + 1]
    BY <1>1
  <1>3. ASSUME NEW i \in DOMAIN q PROVE q[i] \in {Head(q)} \cup ToSet(Tail(q))
    <2>1. CASE i = 1
      BY <2>1, <1>1
    <2>2. CASE i # 1
      <3>1. i - 1 \in DOMAIN Tail(q) /\ Tail(q)[i - 1] = q[i]
        BY <2>2, <1>1, <1>2
      <3> QED
        BY <3>1 DEF ToSet
    <2> QED
      BY <2>1, <2>2
  <1>4. ASSUME NEW i \in DOMAIN Tail(q) PROVE Tail(q)[i] \in ToSet(q)
    BY <1>1, <1>2 DEF ToSet
  <1>5. Head(q) \in ToSet(q)
    BY <1>1 DEF ToSet
  <1>6. ToSet(q) \subseteq {Head(q)} \cup ToSet(Tail(q))
    BY <1>3 DEF ToSet
  <1>7. ToSet(Tail(q)) \subseteq ToSet(q)
    BY <1>4 DEF ToSet
  <1> QED
    BY <1>1, <1>5, <1>6, <1>7

\* As long as the process runs, the same tools are asked about.
LEMMA SameWanted ==
  ASSUME config' = config
  PROVE  /\ Serving' = Serving /\ ToolsToCheck' = ToolsToCheck /\ AlwaysWanted' = AlwaysWanted
         /\ \A s, reg, p : Wanted(s, reg, p)' = Wanted(s, reg, p)
  <1>1. Serving' = Serving /\ ToolsToCheck' = ToolsToCheck /\ AlwaysWanted' = AlwaysWanted
    BY DEF Serving, ToolsToCheck, AlwaysWanted
  <1>2. \A s, reg, p, n : WantedTool(s, reg, p, n)' = WantedTool(s, reg, p, n)
    BY Zenon DEF WantedTool, Discoverable
  <1> QED
    BY <1>1, <1>2 DEF Wanted

\* Nothing that the advertised tools depend on changes.
LEMMA ToolsStill ==
  ASSUME ToolsInv, UNCHANGED <<config, registry, snapshot, tools, sync, due, syncFailed>>
  PROVE  ToolsInv'
  <1>1. Serving' = Serving /\ ToolsToCheck' = ToolsToCheck /\ AlwaysWanted' = AlwaysWanted
        /\ \A s, reg, p : Wanted(s, reg, p)' = Wanted(s, reg, p)
    BY SameWanted
  <1>2. ToolsTyped'
    BY <1>1 DEF ToolsInv, ToolsTyped
  <1>3. ASSUME NEW p \in Serving PROVE CollectedSoFar(p)'
    <2>1. CollectedSoFar(p)
      BY DEF ToolsInv
    <2> QED
      BY <2>1, <1>1 DEF CollectedSoFar
  <1>4. ToolsFollowAccess'
    BY <1>1 DEF ToolsInv, ToolsFollowAccess
  <1> QED
    BY <1>1, <1>2, <1>3, <1>4 DEF ToolsInv

\* New synchronises every runtime before it serves.
LEMMA ToolsInvInit == ASSUME RuntimeInit PROVE ToolsInv
  <1>1. ToolsTyped
    <2>1. snapshot \in [Serving -> Snapshots]
      BY DEF RuntimeInit
    <2>2. tools \in [Serving -> SUBSET Registrable]
      BY ToolsToCheckTyped DEF RuntimeInit
    <2>3. sync \in [Serving -> SyncRecords \cup {Idle}]
      BY DEF RuntimeInit
    <2>4. due \in [Serving -> Nat] /\ syncFailed \in [Serving -> BOOLEAN]
      BY DEF RuntimeInit
    <2> QED
      BY <2>1, <2>2, <2>3, <2>4 DEF ToolsTyped
  <1>2. ASSUME NEW p \in Serving
        PROVE  sync[p] = Idle /\ tools[p] = Wanted(snapshot[p], registry, p)
    BY DEF RuntimeInit
  <1> QED
    BY <1>1, <1>2 DEF ToolsInv, CollectedSoFar, ToolsFollowAccess

\* ConnectionsChange: every runtime is due a synchronisation.
LEMMA ConnectionsChangeTools ==
  ASSUME ToolsInv, NEW a \in Accounts, ConnectionsChange(a)
  PROVE  ToolsInv'
  <1>1. config' = config /\ snapshot' = snapshot /\ tools' = tools /\ sync' = sync
        /\ syncFailed' = syncFailed /\ due' = [p \in Serving |-> due[p] + 1]
    BY DEF ConnectionsChange
  <1>2. Serving' = Serving
    BY <1>1, SameWanted
  <1>3. \A p \in Serving : due'[p] \in Nat /\ due'[p] # 0
    BY <1>1 DEF ToolsInv, ToolsTyped
  <1>4. ToolsTyped'
    BY <1>1, <1>2, <1>3 DEF ToolsInv, ToolsTyped
  <1> QED
    BY <1>2, <1>3, <1>4 DEF ToolsInv, CollectedSoFar, ToolsFollowAccess

\* A synchronisation that begins has everything to ask.
LEMMA LockedTools ==
  ASSUME ToolsInv, NEW p \in Serving, NEW by \in {"resync", "reload"}, NEW s \in Snapshots,
         Locked(p, by, s), due' \in [Serving -> Nat], \A o \in Serving : o # p => due'[o] = due[o],
         UNCHANGED <<config, registry, snapshot, tools, syncFailed>>
  PROVE  ToolsInv'
  <1> DEFINE new == [by |-> by, using |-> s, todo |-> ToolsToCheck, wanted |-> AlwaysWanted]
  <1>1. sync' = [sync EXCEPT ![p] = new]
    BY DEF Locked
  <1>2. Serving' = Serving /\ ToolsToCheck' = ToolsToCheck /\ AlwaysWanted' = AlwaysWanted
        /\ \A t, reg, o : Wanted(t, reg, o)' = Wanted(t, reg, o)
    BY SameWanted
  <1>3. new \in SyncRecords /\ new.using = s /\ new.todo = ToolsToCheck /\ new.wanted = AlwaysWanted
    BY ToolsToCheckTyped DEF SyncRecords
  <1>4. new # Idle
    BY <1>3, SyncNotIdle
  <1> HIDE DEF new
  <1>5. sync'[p] = new /\ \A o \in Serving : o # p => sync'[o] = sync[o]
    BY <1>1 DEF ToolsInv, ToolsTyped
  <1>6. ToolsTyped'
    BY <1>1, <1>2, <1>3 DEF ToolsInv, ToolsTyped
  <1>7. ASSUME NEW o \in Serving PROVE CollectedSoFar(o)'
    <2>1. CASE o = p
      <3>1. AlwaysWanted \subseteq Wanted(s, registry, p)
            /\ Wanted(s, registry, p) \subseteq AlwaysWanted \cup ToSet(ToolsToCheck)
        BY DEF Wanted
      <3> QED
        BY <2>1, <3>1, <1>2, <1>3, <1>5 DEF CollectedSoFar
    <2>2. CASE o # p
      <3>1. CollectedSoFar(o)
        BY DEF ToolsInv
      <3> QED
        BY <2>2, <3>1, <1>2, <1>5 DEF CollectedSoFar
    <2> QED
      BY <2>1, <2>2
  <1>8. ToolsFollowAccess'
    BY <1>2, <1>4, <1>5 DEF ToolsInv, ToolsFollowAccess
  <1> QED
    BY <1>2, <1>6, <1>7, <1>8 DEF ToolsInv

\* ResyncTools and ReloadAccess
LEMMA LockKeepsTools ==
  ASSUME ToolsInv, NEW p \in Serving, ResyncTools(p) \/ ReloadAccess(p)
  PROVE  ToolsInv'
  <1>1. CASE ResyncTools(p)
    <2>1. Locked(p, "resync", snapshot[p]) /\ due[p] > 0 /\ due' = [due EXCEPT ![p] = @ - 1]
          /\ UNCHANGED <<config, registry, snapshot, tools, syncFailed>>
      BY <1>1 DEF ResyncTools
    <2>2. snapshot[p] \in Snapshots /\ due \in [Serving -> Nat]
      BY DEF ToolsInv, ToolsTyped
    <2>3. due' \in [Serving -> Nat] /\ \A o \in Serving : o # p => due'[o] = due[o]
      BY <2>1, <2>2
    <2> QED
      BY <2>1, <2>2, <2>3, LockedTools
  <1>2. CASE ReloadAccess(p)
    <2>1. UNCHANGED <<config, registry, snapshot, tools, due, syncFailed>>
      BY <1>2 DEF ReloadAccess
    <2>2. PICK s \in Snapshots : Locked(p, "reload", s) \/ UNCHANGED sync
      BY <1>2 DEF ReloadAccess
    <2>3. due' \in [Serving -> Nat] /\ \A o \in Serving : o # p => due'[o] = due[o]
      BY <2>1 DEF ToolsInv, ToolsTyped
    <2>4. CASE Locked(p, "reload", s)
      BY <2>1, <2>3, <2>4, LockedTools
    <2>5. CASE UNCHANGED sync
      BY <2>1, <2>5, ToolsStill
    <2> QED
      BY <2>2, <2>4, <2>5
  <1> QED
    BY <1>1, <1>2

\* Collect: one more tool is asked about, or the registry cannot be read.
LEMMA CollectTools ==
  ASSUME ToolsInv, NEW p \in Serving, Collect(p)
  PROVE  ToolsInv'
  <1>1. sync[p] # Idle /\ sync[p].todo # <<>>
        /\ UNCHANGED <<config, registry, snapshot, tools, due>>
    BY DEF Collect
  <1>2. Serving' = Serving /\ ToolsToCheck' = ToolsToCheck /\ AlwaysWanted' = AlwaysWanted
        /\ \A t, reg, o : Wanted(t, reg, o)' = Wanted(t, reg, o)
    BY <1>1, SameWanted
  <1>3. sync \in [Serving -> SyncRecords \cup {Idle}] /\ sync[p] \in SyncRecords
    BY <1>1 DEF ToolsInv, ToolsTyped
  <1>4. CASE CollectWanted(p)
    <2> DEFINE t == Head(sync[p].todo)
               yes == WantedTool(sync[p].using, registry, p, t)
               w == IF yes THEN sync[p].wanted \cup {t} ELSE sync[p].wanted
               new == [sync[p] EXCEPT !.todo = Tail(sync[p].todo), !.wanted = w]
    <2>1. sync' = [sync EXCEPT ![p].todo = Tail(@), ![p].wanted = w] /\ syncFailed' = syncFailed
      BY <1>4 DEF CollectWanted
    <2>2. /\ sync[p].todo \in Seq(Checkable) /\ sync[p].using \in Snapshots
          /\ sync[p].wanted \subseteq Registrable
      BY <1>3 DEF SyncRecords
    <2>3. /\ t \in Checkable /\ Tail(sync[p].todo) \in Seq(Checkable)
          /\ ToSet(sync[p].todo) = {t} \cup ToSet(Tail(sync[p].todo))
      BY <1>1, <2>2, HeadAndTail
    <2>4. w \subseteq Registrable
      BY <2>2, <2>3 DEF Registrable
    <2>5. new \in SyncRecords /\ new.using = sync[p].using /\ new.todo = Tail(sync[p].todo)
          /\ new.wanted = w
      BY <1>3, <2>3, <2>4 DEF SyncRecords
    <2>6. sync' = [sync EXCEPT ![p] = new]
      BY <1>3, <2>1
    <2>7. new # Idle
      BY <2>5, SyncNotIdle
    <2> HIDE DEF new
    <2>8. sync'[p] = new /\ \A o \in Serving : o # p => sync'[o] = sync[o]
      BY <1>3, <2>6
    <2>9. ToolsTyped'
      BY <1>1, <1>2, <2>1, <2>5, <2>6 DEF ToolsInv, ToolsTyped
    <2>10. ASSUME NEW o \in Serving PROVE CollectedSoFar(o)'
      <3>1. CollectedSoFar(o)
        BY DEF ToolsInv
      <3>2. CASE o = p
        <4> DEFINE all == Wanted(sync[p].using, registry, p)
        <4>1. t \in ToSet(ToolsToCheck) => (t \in all <=> yes \/ t \in AlwaysWanted)
          BY DEF Wanted
        <4>2. t \in all => yes \/ t \in AlwaysWanted
          BY DEF Wanted
        <4> SUFFICES ASSUME due[p] = 0 PROVE CollectedSoFar(o)'
          BY <3>2, <1>1 DEF CollectedSoFar
        <4>3. /\ AlwaysWanted \subseteq sync[p].wanted /\ sync[p].wanted \subseteq all
              /\ all \subseteq sync[p].wanted \cup ToSet(sync[p].todo)
              /\ ToSet(sync[p].todo) \subseteq ToSet(ToolsToCheck)
          BY <3>1, <3>2, <1>1 DEF CollectedSoFar
        <4>4. yes => t \in all
          BY <4>1, <4>3, <2>3
        <4>5. AlwaysWanted \subseteq w /\ w \subseteq all
          BY <4>3, <4>4
        <4>6. all \subseteq w \cup ToSet(Tail(sync[p].todo))
          BY <4>2, <4>3, <2>3
        <4>7. ToSet(Tail(sync[p].todo)) \subseteq ToSet(ToolsToCheck)
          BY <4>3, <2>3
        <4>8. all = Wanted(sync[p].using, registry, p)
          OBVIOUS
        <4> HIDE DEF all, w, t
        <4> QED
          BY <3>2, <4>5, <4>6, <4>7, <4>8, <1>1, <1>2, <2>5, <2>8 DEF CollectedSoFar
      <3>3. CASE o # p
        BY <3>1, <3>3, <1>1, <1>2, <2>8 DEF CollectedSoFar
      <3> QED
        BY <3>2, <3>3
    <2>11. ToolsFollowAccess'
      BY <1>1, <1>2, <2>1, <2>7, <2>8 DEF ToolsInv, ToolsFollowAccess
    <2> QED
      BY <1>2, <2>9, <2>10, <2>11 DEF ToolsInv
  <1>5. CASE CollectFails(p)
    <2>1. sync' = [sync EXCEPT ![p] = Idle] /\ syncFailed' = [syncFailed EXCEPT ![p] = TRUE]
      BY <1>5 DEF CollectFails
    <2>2. syncFailed \in [Serving -> BOOLEAN]
      BY DEF ToolsInv, ToolsTyped
    <2>3. /\ sync'[p] = Idle /\ syncFailed'[p] = TRUE
          /\ \A o \in Serving : o # p => sync'[o] = sync[o] /\ syncFailed'[o] = syncFailed[o]
      BY <1>3, <2>1, <2>2
    <2>4. ToolsTyped'
      BY <1>1, <1>2, <2>1 DEF ToolsInv, ToolsTyped
    <2>5. ASSUME NEW o \in Serving PROVE CollectedSoFar(o)'
      <3>1. CollectedSoFar(o)
        BY DEF ToolsInv
      <3> QED
        BY <3>1, <1>1, <1>2, <2>3 DEF CollectedSoFar
    <2>6. ToolsFollowAccess'
      BY <1>1, <1>2, <2>3 DEF ToolsInv, ToolsFollowAccess
    <2> QED
      BY <1>2, <2>4, <2>5, <2>6 DEF ToolsInv
  <1> QED
    BY <1>4, <1>5 DEF Collect

\* ApplyWanted: what was collected is advertised, under the snapshot it was judged by.
LEMMA ApplyWantedTools ==
  ASSUME ToolsInv, NEW p \in Serving, ApplyWanted(p)
  PROVE  ToolsInv'
  <1>1. /\ sync[p] # Idle /\ sync[p].todo = <<>>
        /\ snapshot' = [snapshot EXCEPT ![p] = sync[p].using]
        /\ tools' = [tools EXCEPT ![p] = sync[p].wanted]
        /\ sync' = [sync EXCEPT ![p] = Idle]
        /\ syncFailed' = [syncFailed EXCEPT ![p] = FALSE]
        /\ UNCHANGED <<config, registry, due>>
    BY DEF ApplyWanted
  <1>2. Serving' = Serving /\ ToolsToCheck' = ToolsToCheck /\ AlwaysWanted' = AlwaysWanted
        /\ \A t, reg, o : Wanted(t, reg, o)' = Wanted(t, reg, o)
    BY <1>1, SameWanted
  <1>3. ToolsTyped /\ CollectedSoFar(p)
    BY DEF ToolsInv
  <1>4. sync[p].using \in Snapshots /\ sync[p].wanted \subseteq Registrable
    BY <1>1, <1>3 DEF ToolsTyped, SyncRecords
  <1>5. ToolsTyped'
    BY <1>1, <1>2, <1>3, <1>4 DEF ToolsTyped
  <1>6. /\ sync'[p] = Idle /\ snapshot'[p] = sync[p].using /\ tools'[p] = sync[p].wanted
        /\ \A o \in Serving : o # p => /\ sync'[o] = sync[o] /\ snapshot'[o] = snapshot[o]
                                       /\ tools'[o] = tools[o] /\ syncFailed'[o] = syncFailed[o]
    BY <1>1, <1>3 DEF ToolsTyped
  <1>7. due[p] = 0 => tools'[p] = Wanted(snapshot'[p], registry, p)
    <2>1. ToSet(sync[p].todo) = {}
      BY <1>1 DEF ToSet
    <2>2. due[p] = 0 => /\ sync[p].wanted \subseteq Wanted(sync[p].using, registry, p)
                        /\ Wanted(sync[p].using, registry, p) \subseteq sync[p].wanted
      BY <2>1, <1>1, <1>3 DEF CollectedSoFar
    <2>3. due[p] = 0 => sync[p].wanted = Wanted(sync[p].using, registry, p)
      BY <2>2
    <2> HIDE <2>2
    <2> QED
      BY <2>3, <1>6
  <1>8. ASSUME NEW o \in Serving PROVE CollectedSoFar(o)'
    <2>1. CollectedSoFar(o)
      BY DEF ToolsInv
    <2> QED
      BY <2>1, <1>1, <1>2, <1>6 DEF CollectedSoFar
  <1>9. ToolsFollowAccess'
    <2>1. ToolsFollowAccess
      BY DEF ToolsInv
    <2> QED
      BY <2>1, <1>1, <1>2, <1>6, <1>7 DEF ToolsFollowAccess
  <1> QED
    BY <1>2, <1>5, <1>8, <1>9 DEF ToolsInv

\* The steps of calls, of the media store and of the clock.
CallStep(c) ==
    \/ \E p \in Serving :
          \/ \E op \in ToSet(RuntimeOps), a \in Accounts : CallTool(c, p, op, a)
          \/ \E u \in URIs : ReadResource(c, p, u)
          \/ ListCall(c, p) \/ SearchCall(c, p)
          \/ \E op \in ToSet(RuntimeOps) : DescribeCall(c, p, op)
    \/ Load(c) \/ Decide(c) \/ ReadError(c) \/ DescribeAccount(c)
    \/ DiscoverOne(c) \/ FinishTool(c) \/ FinishRead(c) \/ Forget(c)

MediaStep == Tick \/ (\E u \in URIs : TimerFires(u)) \/ Shutdown

\* A step is one of a connection, of a synchronisation, of a call or of the media store.
LEMMA RuntimeSteps ==
  ASSUME RuntimeNext
  PROVE  \/ \E a \in Accounts : ConnectionsChange(a)
         \/ \E p \in Serving : ResyncTools(p) \/ ReloadAccess(p) \/ Collect(p) \/ ApplyWanted(p)
         \/ \E c \in Callers : CallStep(c)
         \/ MediaStep
  BY Zenon DEF RuntimeNext, CallStep, MediaStep

\* A call changes itself and the media store, nothing else.
LEMMA CallStepChanges ==
  ASSUME NEW c \in Callers, CallStep(c)
  PROVE  /\ UNCHANGED <<config, registry, snapshot, tools, sync, due, syncFailed, clock>>
         /\ \E k : calls' = [calls EXCEPT ![c] = k]
  BY Zenon DEF CallStep, CallTool, ReadResource, ListCall, SearchCall, DescribeCall, Load, Decide,
     ReadError, DescribeAccount, DiscoverOne, FinishTool, FinishRead, Forget, Answer, Step

\* Every step keeps the invariant.
LEMMA ToolsInvNext == ToolsInv /\ [RuntimeNext]_runtimeVars => ToolsInv'
  <1> SUFFICES ASSUME ToolsInv, [RuntimeNext]_runtimeVars PROVE ToolsInv'
    OBVIOUS
  <1>1. CASE \E a \in Accounts : ConnectionsChange(a)
    BY <1>1, ConnectionsChangeTools
  <1>2. ASSUME NEW p \in Serving, ResyncTools(p) \/ ReloadAccess(p) \/ Collect(p) \/ ApplyWanted(p)
        PROVE  ToolsInv'
    BY <1>2, LockKeepsTools, CollectTools, ApplyWantedTools
  <1>3. ASSUME NEW c \in Callers, CallStep(c) PROVE ToolsInv'
    BY <1>3, CallStepChanges, ToolsStill
  <1>4. CASE MediaStep
    <2>1. UNCHANGED <<config, registry, snapshot, tools, sync, due, syncFailed>>
      BY <1>4 DEF MediaStep, Tick, TimerFires, Shutdown
    <2> QED
      BY <2>1, ToolsStill
  <1>5. CASE UNCHANGED runtimeVars
    BY <1>5, ToolsStill DEF runtimeVars
  <1> QED
    BY <1>1, <1>2, <1>3, <1>4, <1>5, RuntimeSteps

\* The inductive invariant of the tools: as long as nothing has changed since a
\* synchronisation began, it has collected what is wanted of the tools it has asked
\* about (Runtime.collectWanted, applyWanted).
THEOREM ToolsInductive == RuntimeSpec => []ToolsInv
  BY ToolsInvInit, ToolsInvNext, PTL DEF RuntimeSpec

\* Whenever no synchronisation is running or due and the last one read the registry, the
\* advertised tools are those the snapshot in force and the registry call for, for any
\* operations, snapshots, accounts and principals (Runtime.ReloadAccess, ResyncTools).
THEOREM ToolsFollow == RuntimeSpec => []ToolsFollowAccess
  <1>1. ToolsInv => ToolsFollowAccess
    BY DEF ToolsInv
  <1> QED
    BY <1>1, ToolsInductive, PTL

-----------------------------------------------------------------------------
(* The media store: Accounted, through every operation. *)

StoreFields == {"entries", "bytes", "closed", "issued"}

\* The store with what its count needs: finitely many entries, of known references,
\* each of a natural cost.
StoreSound(st) ==
    /\ DOMAIN st = StoreFields
    /\ st.closed \in BOOLEAN /\ st.bytes \in Nat
    /\ IsFiniteSet(DOMAIN st.entries) /\ DOMAIN st.entries \subseteq st.issued
    /\ \A u \in DOMAIN st.entries : st.entries[u].cost \in Nat
    /\ Accounted(st)

\* From st to nx a known reference either stays what it is or goes for good.
Evolves(st, nx) ==
    /\ st.issued \subseteq nx.issued
    /\ \A u \in DOMAIN nx.entries : u \in st.issued => /\ u \in DOMAIN st.entries
                                                       /\ nx.entries[u] = st.entries[u]

\* The costs of the entries and their sum.
LEMMA CostsSound ==
  ASSUME NEW st, StoreSound(st)
  PROVE  /\ DOMAIN Costs(st) = DOMAIN st.entries
         /\ \A u \in DOMAIN st.entries : Costs(st)[u] = st.entries[u].cost /\ Costs(st)[u] \in Nat
         /\ st.bytes = SumFunctionOnSet(Costs(st), DOMAIN st.entries)
  BY DEF StoreSound, Costs, Accounted, SumFunction

\* Some entries are removed, and the count of bytes by what they cost.
LEMMA SomeRemoved ==
  ASSUME NEW st, StoreSound(st), NEW D \in SUBSET DOMAIN st.entries, NEW nx, DOMAIN nx = StoreFields,
         nx.entries = [u \in D |-> st.entries[u]],
         nx.bytes = st.bytes - SumFunctionOnSet(Costs(st), DOMAIN st.entries \ D),
         nx.closed = st.closed, nx.issued = st.issued
  PROVE  StoreSound(nx) /\ Evolves(st, nx) /\ nx.bytes <= st.bytes
  <1>1. /\ IsFiniteSet(DOMAIN st.entries) /\ DOMAIN st.entries \subseteq st.issued
        /\ st.closed \in BOOLEAN /\ st.bytes \in Nat
        /\ \A u \in DOMAIN st.entries : st.entries[u].cost \in Nat
        /\ st.bytes <= MaxBytes /\ Cardinality(DOMAIN st.entries) <= MaxEntries
        /\ st.closed => DOMAIN st.entries = {}
    BY DEF StoreSound, Accounted
  <1>2. DOMAIN nx.entries = D /\ \A u \in D : nx.entries[u] = st.entries[u]
    OBVIOUS
  <1>3. IsFiniteSet(D) /\ Cardinality(D) <= Cardinality(DOMAIN st.entries)
        /\ Cardinality(D) \in Nat /\ Cardinality(DOMAIN st.entries) \in Nat
        /\ IsFiniteSet(DOMAIN st.entries \ D)
    BY <1>1, FS_Subset, FS_CardinalityType, FS_Difference
  <1> DEFINE f == Costs(st)
             E == DOMAIN st.entries
  <1>4. \A u \in E : f[u] \in Nat /\ f[u] = st.entries[u].cost
    BY CostsSound
  <1>5. SumFunctionOnSet(f, E) = SumFunctionOnSet(f, D) + SumFunctionOnSet(f, E \ D)
        /\ SumFunctionOnSet(f, D) \in Nat /\ SumFunctionOnSet(f, E \ D) \in Nat
    <2>1. SumFunctionOnSet(f, D) \in Nat /\ SumFunctionOnSet(f, E \ D) \in Nat
      BY <1>3, <1>4, SumType
    <2> QED
      BY <2>1, <1>1, <1>4, SumSplit
  <1>6. st.bytes = SumFunctionOnSet(f, E)
    BY CostsSound
  <1>7. SumFunctionOnSet(Costs(nx), D) = SumFunctionOnSet(f, D)
    <2>1. \A u \in D : Costs(nx)[u] = f[u]
      BY <1>2, <1>4 DEF Costs
    <2> QED
      BY <2>1, <1>3, SumSame
  <1>8. SumFunction(Costs(nx)) = SumFunctionOnSet(Costs(nx), D)
    BY <1>2 DEF SumFunction, Costs
  <1> HIDE DEF f, E
  <1>9. nx.bytes = SumFunction(Costs(nx)) /\ nx.bytes \in Nat /\ nx.bytes <= st.bytes
    <2>1. nx.bytes = st.bytes - SumFunctionOnSet(f, E \ D)
      BY DEF f, E
    <2> QED
      BY <2>1, <1>5, <1>6, <1>7, <1>8
  <1>10. nx.bytes <= MaxBytes /\ Cardinality(DOMAIN nx.entries) <= MaxEntries
    BY <1>1, <1>2, <1>3, <1>9, MediaLimits
  <1>11. Accounted(nx)
    BY <1>1, <1>2, <1>9, <1>10 DEF Accounted
  <1>12. StoreSound(nx)
    BY <1>1, <1>2, <1>3, <1>9, <1>11 DEF StoreSound
  <1>13. Evolves(st, nx)
    BY <1>2 DEF Evolves
  <1> QED
    BY <1>9, <1>12, <1>13

\* A timer removes its entry, if it is still there.
LEMMA DropArtifactSound ==
  ASSUME NEW st, StoreSound(st), NEW uri
  PROVE  StoreSound(DropArtifact(st, uri)) /\ Evolves(st, DropArtifact(st, uri))
  <1>1. CASE uri \notin DOMAIN st.entries
    BY <1>1 DEF DropArtifact, Evolves
  <1>2. CASE uri \in DOMAIN st.entries
    <2> DEFINE nx == DropArtifact(st, uri)
               D == DOMAIN st.entries \ {uri}
    <2>1. nx = [st EXCEPT !.entries = DropKey(@, uri), !.bytes = @ - st.entries[uri].cost]
      BY <1>2 DEF DropArtifact
    <2>2. DOMAIN nx = StoreFields /\ nx.entries = [u \in D |-> st.entries[u]]
          /\ nx.bytes = st.bytes - st.entries[uri].cost
          /\ nx.closed = st.closed /\ nx.issued = st.issued
      BY <2>1 DEF StoreSound, StoreFields, DropKey
    <2>3. SumFunctionOnSet(Costs(st), DOMAIN st.entries \ D) = st.entries[uri].cost
      <3>1. DOMAIN st.entries \ D = {uri} /\ {uri} \ {uri} = {}
        BY <1>2
      <3>2. Costs(st)[uri] \in Nat /\ Costs(st)[uri] = st.entries[uri].cost
        BY <1>2, CostsSound
      <3>3. IsFiniteSet({uri})
        BY FS_Singleton
      <3>4. SumFunctionOnSet(Costs(st), {uri}) = Costs(st)[uri] + SumFunctionOnSet(Costs(st), {uri} \ {uri})
        BY <3>2, <3>3, SumRemove
      <3> QED
        BY <3>1, <3>2, <3>4, SumEmpty
    <2> HIDE DEF nx
    <2>4. StoreSound(nx) /\ Evolves(st, nx)
      BY <2>2, <2>3, SomeRemoved
    <2> QED
      BY <2>4 DEF nx
  <1> QED
    BY <1>1, <1>2

\* Lookup, Read and Put first remove what has expired.
LEMMA ExpireSound ==
  ASSUME NEW st, StoreSound(st), NEW now
  PROVE  /\ StoreSound(Expire(st, now)) /\ Evolves(st, Expire(st, now))
         /\ Expire(st, now).issued = st.issued /\ Expire(st, now).closed = st.closed
         /\ DOMAIN Expire(st, now).entries \subseteq DOMAIN st.entries
  <1> DEFINE nx == Expire(st, now)
             over == {u \in DOMAIN st.entries : now >= st.entries[u].expires}
             D == DOMAIN st.entries \ over
  <1>1. nx = [st EXCEPT !.entries = [u \in DOMAIN @ \ over |-> @[u]],
                        !.bytes = @ - SumFunctionOnSet(Costs(st), over)]
    BY DEF Expire
  <1>2. over = DOMAIN st.entries \ D /\ D \subseteq DOMAIN st.entries
    OBVIOUS
  <1> HIDE DEF over
  <1>3. DOMAIN nx = StoreFields /\ nx.entries = [u \in D |-> st.entries[u]]
        /\ nx.bytes = st.bytes - SumFunctionOnSet(Costs(st), over)
        /\ nx.closed = st.closed /\ nx.issued = st.issued
    BY <1>1 DEF StoreSound, StoreFields
  <1> HIDE DEF nx, D
  <1>4. StoreSound(nx) /\ Evolves(st, nx)
    BY <1>2, <1>3, SomeRemoved
  <1> QED
    BY <1>2, <1>3, <1>4 DEF nx

\* Put keeps an entry under a new reference, if there is room for it.
LEMMA PutSound ==
  ASSUME NEW st, StoreSound(st), NEW now, NEW uri, uri \notin st.issued, NEW id, NEW op, NEW readOnly,
         NEW size \in Nat
  PROVE  /\ StoreSound(Put(st, now, uri, id, op, readOnly, size).store)
         /\ Evolves(st, Put(st, now, uri, id, op, readOnly, size).store)
  <1> DEFINE live == Expire(st, now)
             put == Put(st, now, uri, id, op, readOnly, size)
             item == [id |-> id, op |-> op, cost |-> size, expires |-> now + Lifetime]
             nx == [live EXCEPT !.entries = SetKey(@, uri, item),
                                !.bytes = @ + size, !.issued = @ \cup {uri}]
  <1>1. /\ StoreSound(live) /\ Evolves(st, live) /\ live.issued = st.issued /\ live.closed = st.closed
    BY ExpireSound
  <1>2. CASE ~Storable(id, readOnly) \/ size > MaxItem \/ st.closed
    <2>1. put.store = st
      BY <1>2 DEF Put
    <2>2. Evolves(st, st)
      BY DEF Evolves
    <2> QED
      BY <2>1, <2>2
  <1>3. CASE /\ ~(~Storable(id, readOnly) \/ size > MaxItem \/ st.closed)
             /\ Cardinality(DOMAIN live.entries) >= MaxEntries \/ size > MaxBytes - live.bytes
    <2>1. put.store = live
      BY <1>3 DEF Put
    <2> QED
      BY <2>1, <1>1
  <1>4. CASE /\ ~(~Storable(id, readOnly) \/ size > MaxItem \/ st.closed)
             /\ ~(Cardinality(DOMAIN live.entries) >= MaxEntries \/ size > MaxBytes - live.bytes)
    <2>1. put.store = nx
      BY <1>4 DEF Put
    <2> HIDE DEF put, live
    <2> DEFINE E == DOMAIN live.entries
    <2>2. /\ DOMAIN live = StoreFields /\ live.bytes \in Nat /\ live.closed \in BOOLEAN
          /\ IsFiniteSet(E) /\ E \subseteq live.issued /\ uri \notin E
          /\ \A u \in E : live.entries[u].cost \in Nat
      BY <1>1 DEF StoreSound
    <2>3. /\ DOMAIN nx = StoreFields /\ nx.entries = SetKey(live.entries, uri, item)
          /\ nx.bytes = live.bytes + size /\ nx.issued = live.issued \cup {uri}
          /\ nx.closed = live.closed
      BY <2>2 DEF StoreFields
    <2>4. item.cost = size /\ item.cost \in Nat
      OBVIOUS
    <2> HIDE DEF nx, item
    <2>5. /\ DOMAIN nx.entries = E \cup {uri} /\ nx.entries[uri] = item
          /\ \A u \in E : nx.entries[u] = live.entries[u]
      BY <2>2, <2>3 DEF SetKey
    <2>6. /\ IsFiniteSet(E \cup {uri}) /\ Cardinality(E \cup {uri}) = Cardinality(E) + 1
          /\ Cardinality(E) \in Nat
      BY <2>2, FS_AddElement, FS_CardinalityType
    <2>7. \A u \in E \cup {uri} : nx.entries[u].cost \in Nat /\ Costs(nx)[u] = nx.entries[u].cost
      BY <2>2, <2>4, <2>5 DEF Costs
    <2>8. SumFunctionOnSet(Costs(nx), E \cup {uri}) = SumFunctionOnSet(Costs(nx), E) + size
      <3>1. \A u \in E \cup {uri} : Costs(nx)[u] \in Nat
        BY <2>7
      <3>2. SumFunctionOnSet(Costs(nx), E \cup {uri}) = SumFunctionOnSet(Costs(nx), E) + Costs(nx)[uri]
        BY <3>1, <2>2, SumAdd
      <3> QED
        BY <3>2, <2>4, <2>5, <2>7
    <2>9. SumFunctionOnSet(Costs(nx), E) = live.bytes
      <3>1. \A u \in E : Costs(nx)[u] = Costs(live)[u]
        BY <1>1, <2>5, <2>7, CostsSound
      <3>2. SumFunctionOnSet(Costs(nx), E) = SumFunctionOnSet(Costs(live), E)
        BY <3>1, <2>2, SumSame
      <3> QED
        BY <3>2, <1>1, CostsSound
    <2>10. nx.bytes = SumFunction(Costs(nx))
      <3>1. DOMAIN Costs(nx) = E \cup {uri}
        BY <2>5 DEF Costs
      <3> QED
        BY <3>1, <2>3, <2>8, <2>9 DEF SumFunction
    <2>11. nx.bytes \in Nat /\ nx.bytes <= MaxBytes
      BY <1>4, <2>2, <2>3, MediaLimits
    <2>12. Cardinality(DOMAIN nx.entries) <= MaxEntries
      BY <1>4, <2>5, <2>6, MediaLimits
    <2>13. nx.closed = FALSE
      BY <1>1, <1>4, <2>2, <2>3
    <2>14. Accounted(nx)
      BY <2>10, <2>11, <2>12, <2>13 DEF Accounted
    <2>15. StoreSound(nx)
      BY <2>2, <2>3, <2>5, <2>6, <2>7, <2>11, <2>13, <2>14 DEF StoreSound
    <2>16. Evolves(st, nx)
      BY <1>1, <2>3, <2>5 DEF Evolves
    <2> QED
      BY <2>1, <2>15, <2>16 DEF put
  <1> QED
    BY <1>2, <1>3, <1>4

\* A new store and a closed one are empty.
LEMMA EmptySound ==
  /\ StoreSound(EmptyStore)
  /\ \A st : StoreSound(st) => StoreSound(Close(st)) /\ Evolves(st, Close(st))
  <1>1. ASSUME NEW c \in BOOLEAN, NEW i, NEW st, DOMAIN st = StoreFields,
               st.entries = EmptyMap, st.bytes = 0, st.closed = c, st.issued = i
        PROVE  StoreSound(st) /\ DOMAIN st.entries = {} /\ st.issued = i
    <2>1. DOMAIN st = StoreFields /\ DOMAIN st.entries = {} /\ st.bytes = 0 /\ st.closed = c
          /\ st.issued = i
      BY <1>1 DEF EmptyMap
    <2>2. SumFunction(Costs(st)) = 0
      BY <2>1, SumEmpty DEF SumFunction, Costs
    <2>3. Accounted(st)
      BY <2>1, <2>2, MediaLimits, FS_EmptySet DEF Accounted
    <2> QED
      BY <2>1, <2>3, FS_EmptySet DEF StoreSound
  <1>2. StoreSound(EmptyStore)
    <2>1. /\ DOMAIN EmptyStore = StoreFields /\ EmptyStore.entries = EmptyMap
          /\ EmptyStore.bytes = 0 /\ EmptyStore.closed = FALSE /\ EmptyStore.issued = {}
      BY DEF EmptyStore, StoreFields
    <2> QED
      BY <2>1, <1>1
  <1>3. ASSUME NEW st, StoreSound(st) PROVE StoreSound(Close(st)) /\ Evolves(st, Close(st))
    <2>1. /\ DOMAIN Close(st) = StoreFields /\ Close(st).entries = EmptyMap
          /\ Close(st).bytes = 0 /\ Close(st).closed = TRUE /\ Close(st).issued = st.issued
      BY DEF Close, EmptyStore, StoreFields
    <2>2. StoreSound(Close(st)) /\ DOMAIN Close(st).entries = {} /\ Close(st).issued = st.issued
      BY <2>1, <1>1
    <2> QED
      BY <2>2 DEF Evolves
  <1> QED
    BY <1>2, <1>3

-----------------------------------------------------------------------------
(* The calls of the runtime: CallsDecidedFresh and MediaHeld. *)

CallFields == {"pc", "kind", "principal", "op", "account", "actions", "using", "id", "uri", "origin",
               "todo", "found", "seenSnapshots", "seenRegistries"}

UnderWay == {"authorizing", "deciding", "listing", "discovering", "running"}

\* What k has seen includes what is in force, and what it judges by it has seen.
SeenSound(k) ==
    /\ DOMAIN k = CallFields
    /\ k.principal \in Serving
    /\ snapshot[k.principal] \in k.seenSnapshots
    /\ registry \in k.seenRegistries
    /\ k.pc = "deciding" => k.using \in k.seenSnapshots
    /\ k.pc \in {"authorizing", "deciding"} => k.found = {}

\* What let k run, or shows what it has found, is something k has seen.
DecidedFresh(k) ==
    /\ (k.pc = "running") => \E s \in k.seenSnapshots, r \in k.seenRegistries :
          /\ Authorize(s, r, k.principal, k.account, k.op, k.actions) = NoRefusal
          /\ k.id = r[k.account]
    /\ (k.pc = "listing") => \A f \in k.found :
          \E s \in k.seenSnapshots, r \in k.seenRegistries :
              UsableBy(s, r, k.principal, f[1], f[2])

\* Only the local tools list and discover; a read knows whose bytes it asks for.
KindSound(k) ==
    /\ k.pc = "listing" => k.kind = "accounts"
    /\ k.pc = "discovering" => k.kind = "discover"
    /\ k.kind = "media" =>
          /\ k.uri \in media.issued
          /\ k.uri \in DOMAIN media.entries => media.entries[k.uri].id = k.origin
          /\ k.pc = "running" => k.id.principal = k.principal

ServedSound(k) == k.kind = "media" /\ k.answer = NoRefusal => k.origin = k.id /\ k.origin.principal = k.principal

CallSound(k) ==
    /\ k.pc \in UnderWay \cup {"idle", "answered"}
    /\ k.pc \in UnderWay => SeenSound(k) /\ KindSound(k) /\ DecidedFresh(k)
    /\ k.pc = "answered" => ServedSound(k)

CallsInv ==
    /\ StoreSound(media)
    /\ calls = [c \in Callers |-> calls[c]]
    /\ \A c \in Callers : CallSound(calls[c])

\* The properties follow from the invariant.
LEMMA CallsInvEnough == CallsInv => CallsDecidedFresh /\ MediaHeld
  <1> SUFFICES ASSUME CallsInv PROVE CallsDecidedFresh /\ MediaHeld
    OBVIOUS
  <1>1. \A c \in Callers : DecidedFresh(calls[c])
    BY DEF CallsInv, CallSound, DecidedFresh, UnderWay
  <1>2. CallsDecidedFresh
    BY <1>1 DEF CallsDecidedFresh, DecidedFresh
  <1>3. Accounted(media)
    BY DEF CallsInv, StoreSound
  <1>4. MediaHeld
    BY <1>3 DEF CallsInv, CallSound, ServedSound, MediaHeld
  <1> QED
    BY <1>2, <1>4

\* No call is made before the process serves.
LEMMA CallsInvInit == ASSUME RuntimeInit PROVE CallsInv
  <1>1. calls = [c \in Callers |-> NoCall] /\ media = EmptyStore
    BY DEF RuntimeInit
  <1>2. CallSound(NoCall)
    BY DEF CallSound, NoCall, UnderWay
  <1> QED
    BY <1>1, <1>2, EmptySound DEF CallsInv

\* Snapshots and registries only add to what a call has seen.
LEMMA DecidedStays ==
  ASSUME NEW k, NEW n, DecidedFresh(k), n.pc = k.pc, n.principal = k.principal,
         n.account = k.account, n.op = k.op, n.actions = k.actions, n.id = k.id, n.found = k.found,
         k.seenSnapshots \subseteq n.seenSnapshots, k.seenRegistries \subseteq n.seenRegistries
  PROVE  DecidedFresh(n)
  <1>1. CASE k.pc = "running"
    BY <1>1 DEF DecidedFresh
  <1>2. CASE k.pc = "listing"
    BY <1>2 DEF DecidedFresh
  <1>3. CASE k.pc \notin {"running", "listing"}
    BY <1>3 DEF DecidedFresh
  <1> QED
    BY <1>1, <1>2, <1>3

\* The call that follows is sound if what it becomes is.
LEMMA SoundAfter ==
  ASSUME NEW c, NEW m, calls'[c] = m, CallSound(m)'
  PROVE  CallSound(calls[c])'
  BY Zenon DEF CallSound, SeenSound, KindSound, DecidedFresh, ServedSound

\* A call under way goes on, and has seen what takes effect.
LEMMA WitnessedCall ==
  ASSUME config' = config, media' = media,
         NEW k, k.pc \in UnderWay, SeenSound(k), KindSound(k), DecidedFresh(k),
         NEW n, DOMAIN n = CallFields, n.pc = k.pc, n.kind = k.kind, n.principal = k.principal,
         n.account = k.account, n.op = k.op, n.actions = k.actions,
         n.id = k.id, n.found = k.found, n.uri = k.uri, n.origin = k.origin, n.using = k.using,
         n.seenSnapshots = k.seenSnapshots \cup {snapshot'[k.principal]},
         n.seenRegistries = k.seenRegistries \cup {registry'}
  PROVE  CallSound(n)'
  <1>1. Serving' = Serving
    BY SameWanted
  <1>2. DecidedFresh(n)
    BY DecidedStays
  <1>3. SeenSound(n)'
    BY <1>1 DEF SeenSound
  <1>4. KindSound(n)'
    BY DEF KindSound
  <1>5. DecidedFresh(n)'
    BY <1>2 DEF DecidedFresh
  <1>6. n.pc \in UnderWay /\ n.pc # "answered"
    BY DEF UnderWay
  <1> QED
    BY <1>3, <1>4, <1>5, <1>6 DEF CallSound

\* A snapshot or a registry takes effect: every call under way has seen it.
LEMMA WitnessedCalls ==
  ASSUME CallsInv, config' = config, media' = media,
         calls' = [c \in Callers |->
            IF calls[c].pc \in {"idle", "answered"} THEN calls[c]
            ELSE [calls[c] EXCEPT !.seenSnapshots = @ \cup {snapshot'[calls[c].principal]},
                                  !.seenRegistries = @ \cup {registry'}]]
  PROVE  CallsInv'
  <1>1. StoreSound(media)' /\ Serving' = Serving
    BY SameWanted DEF CallsInv
  <1>2. ASSUME NEW c \in Callers PROVE CallSound(calls[c])'
    <2>1. CallSound(calls[c])
      BY DEF CallsInv
    <2>2. CASE calls[c].pc \in {"idle", "answered"}
      <3>1. calls'[c] = calls[c]
        BY <2>2
      <3>2. calls[c].pc \notin UnderWay
        BY <2>2 DEF UnderWay
      <3> QED
        BY <2>1, <3>1, <3>2 DEF CallSound, ServedSound
    <2>3. CASE calls[c].pc \notin {"idle", "answered"}
      <3> DEFINE k == calls[c]
                 n == [k EXCEPT !.seenSnapshots = @ \cup {snapshot'[k.principal]},
                                !.seenRegistries = @ \cup {registry'}]
      <3>1. k.pc \in UnderWay /\ SeenSound(k) /\ KindSound(k) /\ DecidedFresh(k)
        BY <2>1, <2>3 DEF CallSound
      <3>2. DOMAIN k = CallFields
        BY <3>1 DEF SeenSound
      <3>3. /\ DOMAIN n = CallFields
            /\ n.pc = k.pc /\ n.kind = k.kind /\ n.principal = k.principal
            /\ n.account = k.account /\ n.op = k.op /\ n.actions = k.actions
            /\ n.id = k.id /\ n.found = k.found
            /\ n.uri = k.uri /\ n.origin = k.origin /\ n.using = k.using
            /\ n.seenSnapshots = k.seenSnapshots \cup {snapshot'[k.principal]}
            /\ n.seenRegistries = k.seenRegistries \cup {registry'}
        BY <3>2 DEF CallFields
      <3>4. calls'[c] = n
        BY <2>3
      <3> HIDE DEF n, k
      <3>5. PICK m : m = n
        OBVIOUS
      <3>6. CallSound(m)'
        <4>1. /\ DOMAIN m = CallFields
              /\ m.pc = k.pc /\ m.kind = k.kind /\ m.principal = k.principal
              /\ m.account = k.account /\ m.op = k.op /\ m.actions = k.actions
              /\ m.id = k.id /\ m.found = k.found
              /\ m.uri = k.uri /\ m.origin = k.origin /\ m.using = k.using
              /\ m.seenSnapshots = k.seenSnapshots \cup {snapshot'[k.principal]}
              /\ m.seenRegistries = k.seenRegistries \cup {registry'}
          BY <3>3, <3>5
        <4> QED
          BY <4>1, <3>1, WitnessedCall
      <3>7. calls'[c] = m
        BY <3>4, <3>5
      <3> QED
        BY <3>6, <3>7, SoundAfter
    <2> QED
      BY <2>2, <2>3
  <1> QED
    BY <1>1, <1>2 DEF CallsInv

\* ConnectionsChange and ApplyWanted
LEMMA ChangeKeepsCalls ==
  ASSUME CallsInv, \/ \E a \in Accounts : ConnectionsChange(a)
                   \/ \E p \in Serving : ApplyWanted(p)
  PROVE  CallsInv'
  <1>1. CASE \E a \in Accounts : ConnectionsChange(a)
    <2>1. config' = config /\ media' = media /\ snapshot' = snapshot /\ Witnessed(snapshot, registry')
      BY <1>1 DEF ConnectionsChange
    <2>2. calls' = [c \in Callers |->
            IF calls[c].pc \in {"idle", "answered"} THEN calls[c]
            ELSE [calls[c] EXCEPT !.seenSnapshots = @ \cup {snapshot'[calls[c].principal]},
                                  !.seenRegistries = @ \cup {registry'}]]
      BY <2>1 DEF Witnessed
    <2> QED
      BY <2>1, <2>2, WitnessedCalls
  <1>2. CASE \E p \in Serving : ApplyWanted(p)
    <2>1. config' = config /\ media' = media /\ registry' = registry /\ Witnessed(snapshot', registry)
      BY <1>2 DEF ApplyWanted
    <2>2. calls' = [c \in Callers |->
            IF calls[c].pc \in {"idle", "answered"} THEN calls[c]
            ELSE [calls[c] EXCEPT !.seenSnapshots = @ \cup {snapshot'[calls[c].principal]},
                                  !.seenRegistries = @ \cup {registry'}]]
      BY <2>1 DEF Witnessed
    <2> QED
      BY <2>1, <2>2, WitnessedCalls
  <1> QED
    BY <1>1, <1>2

\* The media store goes on, and at most one call takes a step.
LEMMA OneStep ==
  ASSUME CallsInv, UNCHANGED <<config, registry, snapshot>>, StoreSound(media'), Evolves(media, media'),
         NEW c \in Callers, NEW n, calls' = [calls EXCEPT ![c] = n], CallSound(n)'
  PROVE  CallsInv'
  <1>1. Serving' = Serving
    BY SameWanted
  <1>2. calls' = [x \in Callers |-> calls'[x]] /\ calls'[c] = n
        /\ \A o \in Callers : o # c => calls'[o] = calls[o]
    BY DEF CallsInv
  <1>3. ASSUME NEW o \in Callers, o # c PROVE CallSound(calls[o])'
    <2>1. CallSound(calls[o]) /\ calls'[o] = calls[o]
      BY <1>2, <1>3 DEF CallsInv
    <2>2. CASE calls[o].pc \in UnderWay
      <3>1. SeenSound(calls[o]) /\ KindSound(calls[o]) /\ DecidedFresh(calls[o])
        BY <2>1, <2>2 DEF CallSound
      <3>2. SeenSound(calls[o])'
        BY <1>1, <2>1, <3>1 DEF SeenSound
      <3>3. KindSound(calls[o])'
        BY <2>1, <3>1 DEF KindSound, Evolves
      <3>4. DecidedFresh(calls[o])'
        BY <2>1, <3>1 DEF DecidedFresh
      <3>5. calls[o].pc # "answered"
        BY <2>2 DEF UnderWay
      <3> QED
        BY <2>1, <2>2, <3>2, <3>3, <3>4, <3>5 DEF CallSound
    <2>3. CASE calls[o].pc \notin UnderWay
      BY <2>1, <2>3 DEF CallSound, ServedSound
    <2> QED
      BY <2>2, <2>3
  <1>4. CallSound(calls[c])'
    BY <1>2, SoundAfter
  <1> QED
    BY <1>2, <1>3, <1>4 DEF CallsInv

\* One call becomes n, which is sound as things are.
LEMMA StepSound ==
  ASSUME CallsInv, UNCHANGED <<config, registry, snapshot>>, StoreSound(media'), Evolves(media, media'),
         NEW c \in Callers, NEW n, calls' = [calls EXCEPT ![c] = n], CallSound(n)
  PROVE  CallsInv'
  <1>1. Serving' = Serving
    BY SameWanted
  <1>2. ASSUME n.pc \in UnderWay PROVE SeenSound(n)' /\ KindSound(n)' /\ DecidedFresh(n)'
    <2>1. SeenSound(n) /\ KindSound(n) /\ DecidedFresh(n)
      BY <1>2 DEF CallSound
    <2>2. SeenSound(n)'
      BY <1>1, <2>1 DEF SeenSound
    <2>3. KindSound(n)'
      BY <2>1 DEF KindSound, Evolves
    <2>4. DecidedFresh(n)'
      BY <2>1 DEF DecidedFresh
    <2> QED
      BY <2>2, <2>3, <2>4
  <1>3. CallSound(n)'
    BY <1>2 DEF CallSound, ServedSound
  <1> QED
    BY <1>3, OneStep

\* The media store stays as it is.
LEMMA MediaStays ==
  ASSUME CallsInv, media' = media
  PROVE  StoreSound(media') /\ Evolves(media, media')
  BY DEF CallsInv, Evolves

\* A call that starts.
LEMMA BaseFields ==
  ASSUME NEW kind, NEW p, NEW pc
  PROVE  /\ DOMAIN Base(kind, p, pc) = CallFields
         /\ Base(kind, p, pc).pc = pc /\ Base(kind, p, pc).kind = kind
         /\ Base(kind, p, pc).principal = p
         /\ Base(kind, p, pc).seenSnapshots = {snapshot[p]}
         /\ Base(kind, p, pc).seenRegistries = {registry} /\ Base(kind, p, pc).found = {}
  BY DEF Base, CallFields

\* It has seen what is in force, and has decided nothing.
LEMMA StartSound ==
  ASSUME NEW p \in Serving, NEW n, DOMAIN n = CallFields, n.principal = p,
         n.seenSnapshots = {snapshot[p]}, n.seenRegistries = {registry}, n.found = {},
         n.pc \in {"authorizing", "discovering"}, KindSound(n)
  PROVE  CallSound(n)
  BY DEF CallSound, SeenSound, DecidedFresh, UnderWay

\* CallTool, ListCall, SearchCall and DescribeCall
LEMMA StartKeepsCalls ==
  ASSUME CallsInv, NEW c \in Callers, NEW p \in Serving,
         \/ \E op \in ToSet(RuntimeOps), a \in Accounts : CallTool(c, p, op, a)
         \/ ListCall(c, p) \/ SearchCall(c, p)
         \/ \E op \in ToSet(RuntimeOps) : DescribeCall(c, p, op)
  PROVE  CallsInv'
  <1>1. CASE \E op \in ToSet(RuntimeOps), a \in Accounts : CallTool(c, p, op, a)
    <2>1. PICK op \in ToSet(RuntimeOps), a \in Accounts : CallTool(c, p, op, a)
      BY <1>1
    <2>2. PICK acts : Step(c, [Base("tool", p, "authorizing") EXCEPT !.op = op, !.account = a, !.actions = acts])
      BY <2>1 DEF CallTool
    <2> DEFINE b == Base("tool", p, "authorizing")
               n == [b EXCEPT !.op = op, !.account = a, !.actions = acts]
    <2>3. media' = media
      BY <2>1 DEF CallTool
    <2>4. calls' = [calls EXCEPT ![c] = n] /\ UNCHANGED <<config, registry, snapshot>>
      BY <2>2 DEF Step
    <2>5. /\ DOMAIN b = CallFields /\ b.pc = "authorizing" /\ b.kind = "tool" /\ b.principal = p
          /\ b.seenSnapshots = {snapshot[p]} /\ b.seenRegistries = {registry} /\ b.found = {}
      BY BaseFields
    <2> HIDE DEF b
    <2>6. /\ DOMAIN n = CallFields /\ n.pc = "authorizing" /\ n.kind = "tool" /\ n.principal = p
          /\ n.seenSnapshots = {snapshot[p]} /\ n.seenRegistries = {registry} /\ n.found = {}
      BY <2>5 DEF CallFields
    <2> HIDE DEF n
    <2>7. KindSound(n)
      BY <2>6 DEF KindSound
    <2>8. CallSound(n)
      BY <2>6, <2>7, StartSound
    <2> QED
      BY <2>3, <2>4, <2>8, MediaStays, StepSound
  <1>2. CASE ListCall(c, p)
    <2> DEFINE n == Base("accounts", p, "authorizing")
    <2>1. calls' = [calls EXCEPT ![c] = n] /\ UNCHANGED <<config, registry, snapshot, media>>
      BY <1>2 DEF ListCall, Step
    <2>2. /\ DOMAIN n = CallFields /\ n.pc = "authorizing" /\ n.kind = "accounts" /\ n.principal = p
          /\ n.seenSnapshots = {snapshot[p]} /\ n.seenRegistries = {registry} /\ n.found = {}
      BY BaseFields
    <2> HIDE DEF n
    <2>3. KindSound(n)
      BY <2>2 DEF KindSound
    <2>4. CallSound(n)
      BY <2>2, <2>3, StartSound
    <2> QED
      BY <2>1, <2>4, MediaStays, StepSound
  <1>3. CASE SearchCall(c, p) \/ \E op \in ToSet(RuntimeOps) : DescribeCall(c, p, op)
    <2>1. PICK todo : /\ Step(c, [Base("discover", p, "discovering") EXCEPT !.todo = todo])
                      /\ media' = media
      BY <1>3 DEF SearchCall, DescribeCall
    <2> DEFINE b == Base("discover", p, "discovering")
               n == [b EXCEPT !.todo = todo]
    <2>2. calls' = [calls EXCEPT ![c] = n] /\ UNCHANGED <<config, registry, snapshot, media>>
      BY <2>1 DEF Step
    <2>3. /\ DOMAIN b = CallFields /\ b.pc = "discovering" /\ b.kind = "discover" /\ b.principal = p
          /\ b.seenSnapshots = {snapshot[p]} /\ b.seenRegistries = {registry} /\ b.found = {}
      BY BaseFields
    <2> HIDE DEF b
    <2>4. /\ DOMAIN n = CallFields /\ n.pc = "discovering" /\ n.kind = "discover" /\ n.principal = p
          /\ n.seenSnapshots = {snapshot[p]} /\ n.seenRegistries = {registry} /\ n.found = {}
      BY <2>3 DEF CallFields
    <2> HIDE DEF n
    <2>5. KindSound(n)
      BY <2>4 DEF KindSound
    <2>6. CallSound(n)
      BY <2>4, <2>5, StartSound
    <2> QED
      BY <2>2, <2>6, MediaStays, StepSound
  <1> QED
    BY <1>1, <1>2, <1>3

\* ReadResource: the call remembers whose bytes the reference stands for.
LEMMA ReadResourceCalls ==
  ASSUME CallsInv, NEW c \in Callers, NEW p \in Serving, NEW uri \in URIs, ReadResource(c, p, uri)
  PROVE  CallsInv'
  <1> DEFINE e == media.entries[uri]
             b == Base("media", p, "authorizing")
             n == [b EXCEPT !.op = e.op, !.account = e.id.account,
                            !.actions = Definition[e.op].actions, !.uri = uri, !.origin = e.id]
  <1>1. /\ media' = Expire(media, clock) /\ uri \in DOMAIN media'.entries
        /\ calls' = [calls EXCEPT ![c] = n] /\ UNCHANGED <<config, registry, snapshot>>
    BY DEF ReadResource, Step
  <1>2. StoreSound(media)
    BY DEF CallsInv
  <1>3. StoreSound(media') /\ Evolves(media, media') /\ uri \in DOMAIN media.entries
    BY <1>1, <1>2, ExpireSound
  <1>4. uri \in media.issued
    BY <1>2, <1>3 DEF StoreSound
  <1>5. /\ DOMAIN b = CallFields /\ b.pc = "authorizing" /\ b.kind = "media" /\ b.principal = p
        /\ b.seenSnapshots = {snapshot[p]} /\ b.seenRegistries = {registry} /\ b.found = {}
    BY BaseFields
  <1> HIDE DEF b
  <1>6. /\ DOMAIN n = CallFields /\ n.pc = "authorizing" /\ n.kind = "media" /\ n.principal = p
        /\ n.seenSnapshots = {snapshot[p]} /\ n.seenRegistries = {registry} /\ n.found = {}
        /\ n.uri = uri /\ n.origin = media.entries[uri].id
    BY <1>5 DEF CallFields
  <1> HIDE DEF n
  <1>7. KindSound(n)
    BY <1>4, <1>6 DEF KindSound
  <1>8. CallSound(n)
    BY <1>6, <1>7, StartSound
  <1> QED
    BY <1>1, <1>3, <1>8, StepSound

\* Load: the snapshot a call will judge by is the one in force.
LEMMA LoadCalls ==
  ASSUME CallsInv, NEW c \in Callers, Load(c)
  PROVE  CallsInv'
  <1> DEFINE k == calls[c]
             n == [k EXCEPT !.pc = "deciding", !.using = snapshot[k.principal]]
  <1>1. k.pc = "authorizing" /\ media' = media
        /\ calls' = [calls EXCEPT ![c] = n] /\ UNCHANGED <<config, registry, snapshot>>
    BY DEF Load, Step
  <1>2. SeenSound(k) /\ KindSound(k)
    BY <1>1 DEF CallsInv, CallSound, UnderWay
  <1> HIDE DEF k
  <1>3. /\ DOMAIN n = CallFields /\ n.pc = "deciding" /\ n.using = snapshot[k.principal] /\ n.found = k.found
        /\ n.principal = k.principal /\ n.kind = k.kind /\ n.uri = k.uri /\ n.origin = k.origin
        /\ n.seenSnapshots = k.seenSnapshots /\ n.seenRegistries = k.seenRegistries
    BY <1>2 DEF SeenSound, CallFields
  <1> HIDE DEF n
  <1>4. SeenSound(n)
    BY <1>1, <1>2, <1>3 DEF SeenSound
  <1>5. KindSound(n)
    BY <1>2, <1>3 DEF KindSound
  <1>6. CallSound(n)
    BY <1>3, <1>4, <1>5 DEF CallSound, DecidedFresh, UnderWay
  <1> QED
    BY <1>1, <1>6, MediaStays, StepSound

\* A call that is answered, not with bytes.
LEMMA AnswerKeepsCalls ==
  ASSUME CallsInv, NEW c \in Callers, NEW how, Answer(c, how),
         calls[c].kind # "media" \/ how # NoRefusal, StoreSound(media'), Evolves(media, media')
  PROVE  CallsInv'
  <1> DEFINE k == calls[c]
             n == [pc |-> "answered", kind |-> k.kind, principal |-> k.principal, id |-> k.id,
                   origin |-> k.origin, answer |-> how]
  <1>1. calls' = [calls EXCEPT ![c] = n] /\ UNCHANGED <<config, registry, snapshot>>
    BY DEF Answer, Step
  <1>2. n.pc = "answered" /\ n.kind = k.kind /\ n.answer = how
    OBVIOUS
  <1> HIDE DEF n
  <1>3. CallSound(n)
    BY <1>2 DEF CallSound, ServedSound, UnderWay
  <1> QED
    BY <1>1, <1>3, StepSound

\* Decide: the call is let in by the snapshot it loaded and the registry it reads.
LEMMA DecideCalls ==
  ASSUME CallsInv, NEW c \in Callers, Decide(c)
  PROVE  CallsInv'
  <1> DEFINE k == calls[c]
  <1>1. k.pc = "deciding" /\ media' = media
    BY DEF Decide
  <1>2. SeenSound(k) /\ KindSound(k) /\ DOMAIN k = CallFields
    BY <1>1 DEF CallsInv, CallSound, SeenSound, UnderWay
  <1>3. k.using \in k.seenSnapshots /\ registry \in k.seenRegistries
    BY <1>1, <1>2 DEF SeenSound
  <1>4. StoreSound(media') /\ Evolves(media, media')
    BY <1>1, MediaStays
  <1>5. CASE k.kind = "accounts" /\ ListsAccounts(k.using, k.principal)
    <2>1. PICK todo : Step(c, [k EXCEPT !.pc = "listing", !.todo = todo])
      BY <1>5 DEF Decide
    <2> DEFINE n == [k EXCEPT !.pc = "listing", !.todo = todo]
    <2>2. calls' = [calls EXCEPT ![c] = n] /\ UNCHANGED <<config, registry, snapshot>>
      BY <2>1 DEF Step
    <2> HIDE DEF k
    <2>3. /\ DOMAIN n = CallFields /\ n.pc = "listing" /\ n.kind = "accounts"
          /\ n.principal = k.principal /\ n.found = k.found
          /\ n.seenSnapshots = k.seenSnapshots /\ n.seenRegistries = k.seenRegistries
      BY <1>2, <1>5 DEF CallFields
    <2> HIDE DEF n
    <2>4. SeenSound(n)
      BY <1>2, <2>3 DEF SeenSound
    <2>5. KindSound(n)
      BY <2>3 DEF KindSound
    <2>6. k.found = {}
      BY <1>1, <1>2 DEF SeenSound, k
    <2>7. CallSound(n)
      BY <2>3, <2>4, <2>5, <2>6 DEF CallSound, DecidedFresh, UnderWay
    <2> QED
      BY <1>4, <2>2, <2>7, StepSound
  <1>6. CASE k.kind = "accounts" /\ ~ListsAccounts(k.using, k.principal)
    <2>1. Answer(c, "forbidden_operation")
      BY <1>6 DEF Decide
    <2> QED
      BY <2>1, <1>4, RefusalsTold, AnswerKeepsCalls
  <1>7. CASE k.kind # "accounts" /\ Refusal(k) # NoRefusal
    <2>1. Answer(c, Refusal(k))
      BY <1>7 DEF Decide
    <2> QED
      BY <2>1, <1>4, <1>7, AnswerKeepsCalls
  <1>8. CASE k.kind # "accounts" /\ Refusal(k) = NoRefusal
    <2> DEFINE n == [k EXCEPT !.pc = "running", !.id = registry[k.account]]
    <2>1. calls' = [calls EXCEPT ![c] = n] /\ UNCHANGED <<config, registry, snapshot>>
      BY <1>8 DEF Decide, Step
    <2>2. Authorize(k.using, registry, k.principal, k.account, k.op, k.actions) = NoRefusal
      BY <1>8 DEF Refusal
    <2>3. registry[k.account].principal = k.principal
      BY <2>2, Authorized
    <2> HIDE DEF k
    <2>4. /\ DOMAIN n = CallFields /\ n.pc = "running" /\ n.kind = k.kind
          /\ n.principal = k.principal /\ n.account = k.account /\ n.op = k.op
          /\ n.actions = k.actions /\ n.id = registry[k.account] /\ n.uri = k.uri /\ n.origin = k.origin
          /\ n.seenSnapshots = k.seenSnapshots /\ n.seenRegistries = k.seenRegistries
      BY <1>2 DEF CallFields
    <2> HIDE DEF n
    <2>5. SeenSound(n)
      BY <1>2, <2>4 DEF SeenSound
    <2>6. KindSound(n)
      BY <1>2, <2>3, <2>4 DEF KindSound
    <2>7. DecidedFresh(n)
      BY <1>3, <2>2, <2>4 DEF DecidedFresh
    <2>8. CallSound(n)
      BY <2>4, <2>5, <2>6, <2>7 DEF CallSound, UnderWay
    <2> QED
      BY <1>4, <2>1, <2>8, StepSound
  <1> QED
    BY <1>5, <1>6, <1>7, <1>8

\* DescribeAccount: what is found was usable at this moment.
LEMMA DescribeAccountCalls ==
  ASSUME CallsInv, NEW c \in Callers, DescribeAccount(c)
  PROVE  CallsInv'
  <1> DEFINE k == calls[c]
  <1>1. k.pc = "listing" /\ media' = media
    BY DEF DescribeAccount
  <1>2. SeenSound(k) /\ KindSound(k) /\ DecidedFresh(k) /\ DOMAIN k = CallFields
    BY <1>1 DEF CallsInv, CallSound, SeenSound, UnderWay
  <1>3. k.kind = "accounts"
    BY <1>1, <1>2 DEF KindSound
  <1>4. StoreSound(media') /\ Evolves(media, media')
    BY <1>1, MediaStays
  <1>5. CASE k.todo = <<>>
    <2>1. Answer(c, NoRefusal)
      BY <1>5 DEF DescribeAccount
    <2> QED
      BY <2>1, <1>3, <1>4, AnswerKeepsCalls
  <1>6. CASE k.todo # <<>>
    <2> DEFINE ask == Head(k.todo)
               yes == UsableBy(snapshot[k.principal], registry, k.principal, ask[1], ask[2])
               more == IF yes THEN k.found \cup {ask} ELSE k.found
               n == [k EXCEPT !.todo = Tail(k.todo), !.found = more]
    <2>1. calls' = [calls EXCEPT ![c] = n] /\ UNCHANGED <<config, registry, snapshot>>
      BY <1>6 DEF DescribeAccount, Step
    <2>2. \A f \in more : f \in k.found
                          \/ UsableBy(snapshot[k.principal], registry, k.principal, f[1], f[2])
      OBVIOUS
    <2> HIDE DEF k, more
    <2>3. /\ DOMAIN n = CallFields /\ n.pc = "listing" /\ n.kind = "accounts"
          /\ n.principal = k.principal /\ n.found = more
          /\ n.seenSnapshots = k.seenSnapshots /\ n.seenRegistries = k.seenRegistries
      BY <1>1, <1>2, <1>3 DEF CallFields
    <2> HIDE DEF n
    <2>4. SeenSound(n)
      BY <1>2, <2>3 DEF SeenSound
    <2>5. KindSound(n)
      BY <2>3 DEF KindSound
    <2>6. DecidedFresh(n)
      <3>1. ASSUME NEW f \in more
            PROVE  \E s \in k.seenSnapshots, r \in k.seenRegistries : UsableBy(s, r, k.principal, f[1], f[2])
        <4>1. CASE f \in k.found
          BY <4>1, <1>1, <1>2 DEF DecidedFresh
        <4>2. CASE UsableBy(snapshot[k.principal], registry, k.principal, f[1], f[2])
          BY <4>2, <1>2 DEF SeenSound
        <4> QED
          BY <4>1, <4>2, <2>2
      <3> QED
        BY <3>1, <2>3 DEF DecidedFresh
    <2>7. CallSound(n)
      BY <2>3, <2>4, <2>5, <2>6 DEF CallSound, UnderWay
    <2> QED
      BY <1>4, <2>1, <2>7, StepSound
  <1> QED
    BY <1>5, <1>6

\* DiscoverOne
LEMMA DiscoverOneCalls ==
  ASSUME CallsInv, NEW c \in Callers, DiscoverOne(c)
  PROVE  CallsInv'
  <1> DEFINE k == calls[c]
  <1>1. k.pc = "discovering" /\ media' = media
    BY DEF DiscoverOne
  <1>2. SeenSound(k) /\ KindSound(k) /\ DOMAIN k = CallFields
    BY <1>1 DEF CallsInv, CallSound, SeenSound, UnderWay
  <1>3. k.kind = "discover"
    BY <1>1, <1>2 DEF KindSound
  <1>4. StoreSound(media') /\ Evolves(media, media')
    BY <1>1, MediaStays
  <1>5. CASE k.todo = <<>>
    <2>1. PICK how : Answer(c, how)
      BY <1>5 DEF DiscoverOne
    <2> QED
      BY <2>1, <1>3, <1>4, AnswerKeepsCalls
  <1>6. CASE k.todo # <<>>
    <2>1. PICK more : Step(c, [k EXCEPT !.todo = Tail(@), !.found = more])
      BY <1>6 DEF DiscoverOne
    <2> DEFINE n == [k EXCEPT !.todo = Tail(@), !.found = more]
    <2>2. calls' = [calls EXCEPT ![c] = n] /\ UNCHANGED <<config, registry, snapshot>>
      BY <2>1 DEF Step
    <2> HIDE DEF k
    <2>3. /\ DOMAIN n = CallFields /\ n.pc = "discovering" /\ n.kind = "discover"
          /\ n.principal = k.principal
          /\ n.seenSnapshots = k.seenSnapshots /\ n.seenRegistries = k.seenRegistries
      BY <1>1, <1>2, <1>3 DEF CallFields
    <2> HIDE DEF n
    <2>4. SeenSound(n)
      BY <1>2, <2>3 DEF SeenSound
    <2>5. KindSound(n)
      BY <2>3 DEF KindSound
    <2>6. CallSound(n)
      BY <2>3, <2>4, <2>5 DEF CallSound, DecidedFresh, UnderWay
    <2> QED
      BY <1>4, <2>2, <2>6, StepSound
  <1> QED
    BY <1>5, <1>6

\* FinishTool: what the operation read may be kept, under a reference of its own.
LEMMA FinishToolCalls ==
  ASSUME CallsInv, NEW c \in Callers, FinishTool(c)
  PROVE  CallsInv'
  <1> DEFINE k == calls[c]
  <1>1. k.kind = "tool"
    BY DEF FinishTool
  <1>2. CASE k.op \in MediaOps
    <2>1. PICK u \in URIs \ media.issued, size \in Sizes :
             LET put == Put(media, clock, u, k.id, k.op, ~Write(k.op), size)
             IN  /\ media' = put.store
                 /\ Answer(c, IF put.ok THEN NoRefusal ELSE "budget_exhausted")
      BY <1>2 DEF FinishTool
    <2>2. StoreSound(media) /\ size \in Nat
      BY RuntimeAssumption DEF CallsInv
    <2>3. StoreSound(media') /\ Evolves(media, media')
      BY <2>1, <2>2, PutSound
    <2>4. \E how : Answer(c, how)
      BY <2>1
    <2> QED
      BY <1>1, <2>3, <2>4, AnswerKeepsCalls
  <1>3. CASE k.op \notin MediaOps
    <2>1. Answer(c, NoRefusal) /\ media' = media
      BY <1>3 DEF FinishTool
    <2> QED
      BY <1>1, <2>1, MediaStays, AnswerKeepsCalls
  <1> QED
    BY <1>2, <1>3

\* FinishRead: bytes are served to the identity they were read with.
LEMMA FinishReadCalls ==
  ASSUME CallsInv, NEW c \in Callers, FinishRead(c)
  PROVE  CallsInv'
  <1> DEFINE k == calls[c]
  <1>1. /\ k.pc = "running" /\ k.kind = "media" /\ media' = Expire(media, clock)
        /\ Answer(c, IF Readable(media, clock, k.uri, k.id) THEN NoRefusal ELSE "not_found")
    BY DEF FinishRead
  <1>2. StoreSound(media) /\ KindSound(k)
    BY <1>1 DEF CallsInv, CallSound, UnderWay
  <1>3. StoreSound(media') /\ Evolves(media, media')
        /\ DOMAIN Expire(media, clock).entries \subseteq DOMAIN media.entries
    BY <1>1, <1>2, ExpireSound
  <1>4. CASE ~Readable(media, clock, k.uri, k.id)
    <2>1. Answer(c, "not_found")
      BY <1>1, <1>4
    <2> QED
      BY <2>1, <1>3, RefusalsTold, AnswerKeepsCalls
  <1>5. CASE Readable(media, clock, k.uri, k.id)
    <2>1. k.uri \in DOMAIN media.entries /\ media.entries[k.uri].id = k.id
      BY <1>3, <1>5 DEF Readable, Holds, SameIdentity
    <2>2. k.origin = k.id /\ k.origin.principal = k.principal
      BY <1>1, <1>2, <2>1 DEF KindSound
    <2> DEFINE n == [pc |-> "answered", kind |-> k.kind, principal |-> k.principal, id |-> k.id,
                     origin |-> k.origin, answer |-> NoRefusal]
    <2>3. calls' = [calls EXCEPT ![c] = n] /\ UNCHANGED <<config, registry, snapshot>>
      BY <1>1, <1>5 DEF Answer, Step
    <2>4. n.pc = "answered" /\ n.id = k.id /\ n.origin = k.origin /\ n.principal = k.principal
      OBVIOUS
    <2> HIDE DEF n
    <2>5. CallSound(n)
      BY <2>2, <2>4 DEF CallSound, ServedSound, UnderWay
    <2> QED
      BY <1>3, <2>3, <2>5, StepSound
  <1> QED
    BY <1>4, <1>5

\* ReadError and Forget
LEMMA EndKeepsCalls ==
  ASSUME CallsInv, NEW c \in Callers, ReadError(c) \/ Forget(c)
  PROVE  CallsInv'
  <1>1. media' = media
    BY DEF ReadError, Forget
  <1>2. CASE ReadError(c)
    <2>1. Answer(c, "upstream_failure")
      BY <1>2 DEF ReadError
    <2> QED
      BY <2>1, <1>1, RefusalsTold, MediaStays, AnswerKeepsCalls
  <1>3. CASE Forget(c)
    <2>1. calls' = [calls EXCEPT ![c] = NoCall] /\ UNCHANGED <<config, registry, snapshot>>
      BY <1>3 DEF Forget, Step
    <2>2. CallSound(NoCall)
      BY DEF CallSound, NoCall, UnderWay
    <2> QED
      BY <2>1, <2>2, <1>1, MediaStays, StepSound
  <1> QED
    BY <1>2, <1>3

\* Steps that leave the calls alone: synchronisations, time and the media store.
LEMMA BesideCalls ==
  ASSUME CallsInv, UNCHANGED <<config, registry, snapshot, calls>>, StoreSound(media'),
         Evolves(media, media')
  PROVE  CallsInv'
  <1>1. CASE Callers = {}
    BY <1>1 DEF CallsInv
  <1>2. ASSUME NEW c \in Callers PROVE CallsInv'
    <2>1. calls' = [calls EXCEPT ![c] = calls[c]]
      BY DEF CallsInv
    <2>2. CallSound(calls[c])
      BY DEF CallsInv
    <2> QED
      BY <2>1, <2>2, StepSound
  <1> QED
    BY <1>1, <1>2

\* Every step keeps the invariant.
LEMMA CallsInvNext == CallsInv /\ [RuntimeNext]_runtimeVars => CallsInv'
  <1> SUFFICES ASSUME CallsInv, [RuntimeNext]_runtimeVars PROVE CallsInv'
    OBVIOUS
  <1>1. CASE \/ \E a \in Accounts : ConnectionsChange(a)
             \/ \E p \in Serving : ApplyWanted(p)
    BY <1>1, ChangeKeepsCalls
  <1>2. CASE \E p \in Serving : ResyncTools(p) \/ ReloadAccess(p) \/ Collect(p)
    <2>1. UNCHANGED <<config, registry, snapshot, calls, media>>
      BY <1>2 DEF ResyncTools, ReloadAccess, Collect
    <2> QED
      BY <2>1, MediaStays, BesideCalls
  <1>3. ASSUME NEW c \in Callers, CallStep(c) PROVE CallsInv'
    <2>1. CASE \E p \in Serving, u \in URIs : ReadResource(c, p, u)
      BY <2>1, ReadResourceCalls
    <2>2. CASE \E p \in Serving :
                  \/ \E op \in ToSet(RuntimeOps), a \in Accounts : CallTool(c, p, op, a)
                  \/ ListCall(c, p) \/ SearchCall(c, p)
                  \/ \E op \in ToSet(RuntimeOps) : DescribeCall(c, p, op)
      BY <2>2, StartKeepsCalls
    <2>3. CASE Load(c) \/ Decide(c) \/ ReadError(c) \/ DescribeAccount(c)
               \/ DiscoverOne(c) \/ FinishTool(c) \/ FinishRead(c) \/ Forget(c)
      BY <2>3, LoadCalls, DecideCalls, EndKeepsCalls, DescribeAccountCalls, DiscoverOneCalls,
         FinishToolCalls, FinishReadCalls
    <2> QED
      BY <1>3, <2>1, <2>2, <2>3 DEF CallStep
  <1>4. CASE MediaStep
    <2>1. UNCHANGED <<config, registry, snapshot, calls>>
      BY <1>4 DEF MediaStep, Tick, TimerFires, Shutdown
    <2>2. StoreSound(media)
      BY DEF CallsInv
    <2>3. CASE Tick
      <3>1. media' = media
        BY <2>3 DEF Tick
      <3> QED
        BY <2>1, <3>1, MediaStays, BesideCalls
    <2>4. CASE \E u \in URIs : TimerFires(u)
      <3>1. PICK u \in URIs : media' = DropArtifact(media, u)
        BY <2>4 DEF TimerFires
      <3> QED
        BY <2>1, <2>2, <3>1, DropArtifactSound, BesideCalls
    <2>5. CASE Shutdown
      <3>1. media' = Close(media)
        BY <2>5 DEF Shutdown
      <3> QED
        BY <2>1, <2>2, <3>1, EmptySound, BesideCalls
    <2> QED
      BY <1>4, <2>3, <2>4, <2>5 DEF MediaStep
  <1>5. CASE UNCHANGED runtimeVars
    <2>1. UNCHANGED <<config, registry, snapshot, calls, media>>
      BY <1>5 DEF runtimeVars
    <2> QED
      BY <2>1, MediaStays, BesideCalls
  <1> QED
    BY <1>1, <1>2, <1>3, <1>4, <1>5, RuntimeSteps

\* The inductive invariant of the calls and of the media store: what a call has seen
\* includes what is in force, what it decided is something it has seen, and a reference
\* stands for the bytes of one identity for good (handler.go, mediaartifact/store.go).
THEOREM CallsInductive == RuntimeSpec => []CallsInv
  BY CallsInvInit, CallsInvNext, PTL DEF RuntimeSpec

\* A call runs, and an account is shown with a capability, only if a snapshot and a
\* registry in force since it started let it, for any configuration, callers and
\* interleaving of reloads and reconnects (Authorizer.Authorize, handleAccountsList).
THEOREM DecidedOnWhatWasInForce == RuntimeSpec => []CallsDecidedFresh
  BY CallsInvEnough, CallsInductive, PTL

\* Media is served under the very identity it was read with, and the store's count of
\* bytes and entries is right and within its limits, for any limits, sizes and callers
\* (Store.Put, Read and expire).
THEOREM MediaHeldAlways == RuntimeSpec => []MediaHeld
  BY CallsInvEnough, CallsInductive, PTL

=============================================================================
