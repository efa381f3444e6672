------------------------- MODULE LendingQueueProofs -------------------------
(***************************************************************************)
(* Theorems about LendingQueue for any finite set of requests, any split   *)
(* into own, borrowed and streaming ones, any models, depths and leases:   *)
(* all its invariants and action properties.                               *)
(*                                                                         *)
(* The argument follows the shape of the code.  Every critical section of  *)
(* queue.mu first changes the queue and then admits.  Sound says what the  *)
(* queue is like between the two, as a predicate of the changed queue;     *)
(* AdmitKeeps, proved once, says that admitLocked keeps it and leaves a    *)
(* backend that is busy or will be looked at again; each action then only  *)
(* has to reach a Sound queue.                                             *)
(***************************************************************************)
EXTENDS LendingQueue, FiniteSetTheorems, SequenceTheorems, WellFoundedInduction, TLAPS

-----------------------------------------------------------------------------
(* Sequences of entries                                                    *)

\* Nothing is twice in the sequence.
Distinct(s) == \A i, k \in DOMAIN s : s[i] = s[k] => i = k

\* Every set of naturals has a least element: the induction principle of the
\* lemmas below.
LEMMA LeastNat ==
    ASSUME NEW T \in SUBSET Nat, T # {}
    PROVE  \E n \in T : \A m \in T : n <= m
<1>1. PICK x \in T : \A y \in T : ~(<<y, x>> \in OpToRel(<, Nat))
  BY NatLessThanWellFounded, WFMin, Zenon
<1>2. \A y \in T : ~(y < x)
  BY <1>1 DEF OpToRel
<1> QED
  BY <1>2

\* The length of a sequence without repetitions is the number of its elements.
LEMMA DistinctCount ==
    ASSUME NEW S, NEW s \in Seq(S), Distinct(s)
    PROVE  IsFiniteSet(ToSet(s)) /\ Cardinality(ToSet(s)) = Len(s)
<1> DEFINE f == [i \in 1..Len(s) |-> s[i]]
<1>1. f \in Bijection(1..Len(s), ToSet(s))
  BY DEF Distinct, ToSet, Bijection, Injection, Surjection, IsInjective
<1>2. ExistsBijection(1..Len(s), ToSet(s))
  BY <1>1 DEF ExistsBijection
<1>3. IsFiniteSet(1..Len(s)) /\ Cardinality(1..Len(s)) = Len(s)
  <2>1. Len(s) \in Nat /\ 1 \in Int /\ Len(s) \in Int
    OBVIOUS
  <2>2. /\ IsFiniteSet(1..Len(s))
        /\ Cardinality(1..Len(s)) = IF 1 > Len(s) THEN 0 ELSE Len(s) - 1 + 1
    BY <2>1, FS_Interval, Zenon
  <2> QED
    BY <2>1, <2>2
<1> QED
  BY <1>2, <1>3, FS_Bijection

\* What is left of a sequence after its first n elements.
LEMMA SuffixFacts ==
    ASSUME NEW S, NEW s \in Seq(S), NEW n \in 0..Len(s)
    PROVE  LET t == SubSeq(s, n + 1, Len(s))
               taken == {s[i] : i \in 1..n}
           IN  /\ t \in Seq(S)
               /\ Len(t) = Len(s) - n
               /\ \A i \in DOMAIN t : t[i] = s[n + i]
               /\ DOMAIN t = 1..(Len(s) - n)
               /\ ToSet(s) = taken \cup ToSet(t)
               /\ Distinct(s) => Distinct(t) /\ taken \cap ToSet(t) = {}
<1> DEFINE t == SubSeq(s, n + 1, Len(s))
           taken == {s[i] : i \in 1..n}
<1>1. t \in Seq(S) /\ Len(t) = Len(s) - n /\ DOMAIN t = 1..(Len(s) - n)
  OBVIOUS
<1>2. \A i \in DOMAIN t : t[i] = s[n + i]
  OBVIOUS
<1>3. ToSet(s) = taken \cup ToSet(t)
  <2>1. ASSUME NEW i \in DOMAIN s PROVE s[i] \in taken \cup ToSet(t)
    <3>1. CASE i <= n
      BY <3>1
    <3>2. CASE i > n
      <4>1. i - n \in DOMAIN t /\ t[i - n] = s[i]
        BY <3>2, <1>1, <1>2
      <4> QED
        BY <4>1 DEF ToSet
    <3> QED
      BY <3>1, <3>2
  <2>2. ToSet(t) \subseteq ToSet(s)
    BY <1>1, <1>2 DEF ToSet
  <2>3. taken \subseteq ToSet(s)
    BY DEF ToSet
  <2> QED
    BY <2>1, <2>2, <2>3 DEF ToSet
<1>4. Distinct(s) => Distinct(t) /\ taken \cap ToSet(t) = {}
  <2> SUFFICES ASSUME Distinct(s) PROVE Distinct(t) /\ taken \cap ToSet(t) = {}
    OBVIOUS
  <2> HIDE DEF t
  <2>1. Distinct(t)
    BY <1>1, <1>2 DEF Distinct
  <2>2. taken \cap ToSet(t) = {}
    BY <1>1, <1>2 DEF Distinct, ToSet
  <2> QED
    BY <2>1, <2>2
<1> QED
  BY <1>1, <1>2, <1>3, <1>4

\* One element taken out of a sequence.
LEMMA RemoveFacts ==
    ASSUME NEW S, NEW s \in Seq(S), NEW p \in DOMAIN s
    PROVE  LET t == RemoveAt(s, p)
           IN  /\ t \in Seq(S)
               /\ DOMAIN t = 1..(Len(s) - 1)
               /\ \A i \in DOMAIN t : t[i] = IF i < p THEN s[i] ELSE s[i + 1]
               /\ Distinct(s) => Distinct(t) /\ ToSet(t) = ToSet(s) \ {s[p]}
<1> DEFINE t == RemoveAt(s, p)
           a == SubSeq(s, 1, p - 1)
           b == SubSeq(s, p + 1, Len(s))
<1>1. a \in Seq(S) /\ Len(a) = p - 1 /\ \A i \in 1..(p - 1) : a[i] = s[i]
  OBVIOUS
<1>2. b \in Seq(S) /\ Len(b) = Len(s) - p /\ \A i \in 1..(Len(s) - p) : b[i] = s[i + p]
  OBVIOUS
<1>3. t = a \o b
  BY DEF RemoveAt
<1> HIDE DEF t, a, b
<1>4. t \in Seq(S) /\ Len(t) = Len(s) - 1 /\ DOMAIN t = 1..(Len(s) - 1)
  BY <1>1, <1>2, <1>3
<1>5. ASSUME NEW i \in DOMAIN t PROVE t[i] = IF i < p THEN s[i] ELSE s[i + 1]
  <2>1. CASE i < p
    BY <1>1, <1>2, <1>3, <1>4, <2>1
  <2>2. CASE i >= p
    <3>1. i \in 1..(Len(a) + Len(b)) /\ ~(i <= Len(a))
      BY <1>1, <1>2, <1>4, <2>2
    <3>2. t[i] = b[i - Len(a)]
      BY <1>1, <1>2, <1>3, <3>1, ConcatProperties
    <3> DEFINE q == i - Len(a)
    <3>3. q \in 1..(Len(s) - p) /\ q + p = i + 1
      BY <1>1, <1>4, <2>2
    <3> HIDE DEF q
    <3>4. b[q] = s[q + p]
      BY <1>2, <3>3
    <3>5. t[i] = s[i + 1]
      BY <3>2, <3>3, <3>4 DEF q
    <3> QED
      BY <3>5, <1>4, <2>2
  <2> QED
    BY <1>4, <2>1, <2>2
<1>6. ASSUME Distinct(s) PROVE Distinct(t) /\ ToSet(t) = ToSet(s) \ {s[p]}
  <2>1. Distinct(t)
    BY <1>4, <1>5, <1>6 DEF Distinct
  <2>2. ToSet(t) \subseteq ToSet(s) \ {s[p]}
    BY <1>4, <1>5, <1>6 DEF Distinct, ToSet
  <2>3. ASSUME NEW i \in DOMAIN s, i # p PROVE s[i] \in ToSet(t)
    <3>1. CASE i < p
      BY <3>1, <1>4, <1>5 DEF ToSet
    <3>2. CASE i > p
      <4>1. i - 1 \in DOMAIN t /\ t[i - 1] = s[i]
        BY <3>2, <1>4, <1>5
      <4> QED
        BY <4>1 DEF ToSet
    <3> QED
      BY <3>1, <3>2, <2>3
  <2>4. ToSet(s) \ {s[p]} \subseteq ToSet(t)
    BY <2>3 DEF ToSet
  <2> QED
    BY <2>1, <2>2, <2>4
<1> QED
  BY <1>4, <1>5, <1>6 DEF t

\* An element put at the end.
LEMMA AppendFacts ==
    ASSUME NEW S, NEW s \in Seq(S), NEW e \in S
    PROVE  LET t == Append(s, e)
           IN  /\ t \in Seq(S)
               /\ DOMAIN t = 1..(Len(s) + 1)
               /\ \A i \in DOMAIN t : t[i] = IF i <= Len(s) THEN s[i] ELSE e
               /\ ToSet(t) = ToSet(s) \cup {e}
               /\ Distinct(s) /\ e \notin ToSet(s) => Distinct(t)
<1> DEFINE t == Append(s, e)
<1>1. t \in Seq(S) /\ Len(t) = Len(s) + 1 /\ DOMAIN t = 1..(Len(s) + 1)
  OBVIOUS
<1>2. \A i \in DOMAIN t : t[i] = IF i <= Len(s) THEN s[i] ELSE e
  OBVIOUS
<1> HIDE DEF t
<1>3. ToSet(t) = ToSet(s) \cup {e}
  <2>1. t[Len(s) + 1] = e /\ Len(s) + 1 \in DOMAIN t
    BY <1>1, <1>2
  <2> QED
    BY <1>1, <1>2, <2>1 DEF ToSet
<1>4. Distinct(s) /\ e \notin ToSet(s) => Distinct(t)
  BY <1>1, <1>2 DEF Distinct, ToSet
<1> QED
  BY <1>1, <1>2, <1>3, <1>4 DEF t

\* An element put at the front.
LEMMA PrependFacts ==
    ASSUME NEW S, NEW s \in Seq(S), NEW e \in S
    PROVE  LET t == <<e>> \o s
           IN  /\ t \in Seq(S)
               /\ DOMAIN t = 1..(Len(s) + 1)
               /\ \A i \in DOMAIN t : t[i] = IF i = 1 THEN e ELSE s[i - 1]
               /\ ToSet(t) = {e} \cup ToSet(s)
               /\ Distinct(s) /\ e \notin ToSet(s) => Distinct(t)
<1> DEFINE t == <<e>> \o s
<1>1. t \in Seq(S) /\ Len(t) = Len(s) + 1 /\ DOMAIN t = 1..(Len(s) + 1)
  OBVIOUS
<1>2. \A i \in DOMAIN t : t[i] = IF i = 1 THEN e ELSE s[i - 1]
  OBVIOUS
<1> HIDE DEF t
<1>3. ToSet(t) = {e} \cup ToSet(s)
  <2>1. t[1] = e /\ 1 \in DOMAIN t
    BY <1>1, <1>2
  <2>2. ASSUME NEW i \in DOMAIN s PROVE s[i] \in ToSet(t)
    <3>1. i + 1 \in DOMAIN t /\ t[i + 1] = s[i]
      BY <1>1, <1>2
    <3> QED
      BY <3>1 DEF ToSet
  <2>3. ToSet(t) \subseteq {e} \cup ToSet(s)
    BY <1>1, <1>2 DEF ToSet
  <2> QED
    BY <2>1, <2>2, <2>3 DEF ToSet
<1>4. Distinct(s) /\ e \notin ToSet(s) => Distinct(t)
  <2> SUFFICES ASSUME Distinct(s), e \notin ToSet(s),
                      NEW i \in DOMAIN t, NEW k \in DOMAIN t, t[i] = t[k]
               PROVE  i = k
    BY DEF Distinct
  <2>1. CASE i = 1 \/ k = 1
    BY <1>1, <1>2, <2>1 DEF ToSet
  <2>2. CASE i # 1 /\ k # 1
    <3>1. s[i - 1] = s[k - 1] /\ i - 1 \in DOMAIN s /\ k - 1 \in DOMAIN s
      BY <1>1, <1>2, <2>2
    <3>2. i - 1 = k - 1
      BY <3>1 DEF Distinct
    <3> QED
      BY <3>2, <1>1
  <2> QED
    BY <2>1, <2>2
<1> QED
  BY <1>1, <1>2, <1>3, <1>4 DEF t

\* KeepNative, position by position: f[n] is what is kept of the first n.
KeptStep(w, n, before) == IF Native(w[n]) THEN Append(before, w[n]) ELSE before

KeptUpTo(w, n, f) ==
    f = [i \in 0..n |-> IF i = 0 THEN <<>> ELSE KeptStep(w, i, f[i - 1])]

\* The recursion of KeepNative has a solution.
LEMMA KeptExists ==
    ASSUME NEW w PROVE \A n \in Nat : \E f : KeptUpTo(w, n, f)
<1> DEFINE T == {n \in Nat : ~\E f : KeptUpTo(w, n, f)}
<1> SUFFICES ASSUME T # {} PROVE FALSE
  OBVIOUS
<1>1. T \in SUBSET Nat
  OBVIOUS
<1>2. PICK n \in T : \A m \in T : n <= m
  <2> HIDE DEF T
  <2> QED
    BY <1>1, LeastNat
<1>3. n # 0
  <2>1. KeptUpTo(w, 0, [i \in 0..0 |-> <<>>])
    BY DEF KeptUpTo
  <2> QED
    BY <1>2, <2>1
<1>4. n - 1 \in Nat /\ n - 1 \notin T
  BY <1>2, <1>3
<1>5. PICK f : KeptUpTo(w, n - 1, f)
  BY <1>4
<1> DEFINE g == [i \in 0..n |-> IF i = n THEN KeptStep(w, n, f[n - 1]) ELSE f[i]]
<1>6. \A i \in 0..(n - 1) : f[i] = IF i = 0 THEN <<>> ELSE KeptStep(w, i, f[i - 1])
  <2> HIDE DEF T
  <2> QED
    BY <1>5 DEF KeptUpTo
<1>7. \A i \in 0..n : g[i] = IF i = 0 THEN <<>> ELSE KeptStep(w, i, g[i - 1])
  <2> SUFFICES ASSUME NEW i \in 0..n
               PROVE  g[i] = IF i = 0 THEN <<>> ELSE KeptStep(w, i, g[i - 1])
    OBVIOUS
  <2>1. n \in Nat /\ n # 0
    BY <1>2, <1>3
  <2> HIDE DEF T
  <2>2. CASE i = n
    <3>1. g[i] = KeptStep(w, i, f[i - 1]) /\ g[i - 1] = f[i - 1]
      BY <2>1, <2>2
    <3> QED
      BY <3>1, <2>1, <2>2
  <2>3. CASE i # n /\ i # 0
    <3>1. g[i] = f[i] /\ g[i - 1] = f[i - 1] /\ i \in 0..(n - 1)
      BY <2>1, <2>3
    <3> QED
      BY <3>1, <2>3, <1>6
  <2>4. CASE i # n /\ i = 0
    BY <2>1, <2>4, <1>6
  <2> QED
    BY <2>2, <2>3, <2>4
<1>8. KeptUpTo(w, n, g)
  <2> DEFINE h == [i \in 0..n |-> IF i = 0 THEN <<>> ELSE KeptStep(w, i, g[i - 1])]
  <2>1. \A i \in 0..n : g[i] = h[i]
    BY <1>7
  <2>2. g = h
    BY <2>1
  <2> QED
    BY <2>2, Zenon DEF KeptUpTo
<1> QED
  BY <1>2, <1>8

\* KeepNative keeps the native entries and nothing else, none of them twice.
\* (Their order does not matter to what follows: all of them are native.)
LEMMA KeepNativeFacts ==
    ASSUME NEW S, NEW w \in Seq(S)
    PROVE  LET t == KeepNative(w)
           IN  /\ t \in Seq(S)
               /\ ToSet(t) = {e \in ToSet(w) : Native(e)}
               /\ Distinct(w) => Distinct(t)
<1> DEFINE L == Len(w)
           kept == CHOOSE f : KeptUpTo(w, L, f)
<1>1. L \in Nat
  OBVIOUS
<1>2. KeepNative(w) = kept[L]
  BY DEF KeepNative, KeptUpTo, KeptStep
<1>3. KeptUpTo(w, L, kept)
  BY <1>1, KeptExists
<1> HIDE DEF kept
<1>4. kept[0] = <<>> /\ \A n \in 1..L : kept[n] = KeptStep(w, n, kept[n - 1])
  <2>1. \A n \in 0..L : kept[n] = IF n = 0 THEN <<>> ELSE KeptStep(w, n, kept[n - 1])
    BY <1>3 DEF KeptUpTo
  <2> QED
    BY <2>1, <1>1
<1> DEFINE First(n) == {w[i] : i \in 1..n}
           Good(n) == /\ kept[n] \in Seq(S)
                      /\ ToSet(kept[n]) = {e \in First(n) : Native(e)}
                      /\ Distinct(w) => Distinct(kept[n])
           T == {n \in 0..L : ~Good(n)}
<1>5. T = {}
  <2> SUFFICES ASSUME T # {} PROVE FALSE
    OBVIOUS
  <2>1. T \in SUBSET Nat
    OBVIOUS
  <2>2. PICK n \in T : \A m \in T : n <= m
    <3> HIDE DEF T
    <3> QED
      BY <2>1, LeastNat
  <2>3. n # 0
    <3>1. Good(0)
      BY <1>4 DEF ToSet, Distinct
    <3> HIDE DEF Good
    <3> QED
      BY <2>2, <3>1
  <2>4. n \in 1..L /\ Good(n - 1) /\ ~Good(n)
    <3> HIDE DEF Good
    <3> QED
      BY <2>2, <2>3
  <2>5. w[n] \in S /\ First(n) = First(n - 1) \cup {w[n]}
    BY <2>4
  <2>6. kept[n] = KeptStep(w, n, kept[n - 1])
    BY <2>4, <1>4
  <2>7. CASE ~Native(w[n])
    BY <2>4, <2>5, <2>6, <2>7 DEF KeptStep
  <2>8. CASE Native(w[n])
    <3>1. kept[n] = Append(kept[n - 1], w[n]) /\ kept[n - 1] \in Seq(S)
      BY <2>4, <2>6, <2>8 DEF KeptStep
    <3>2. kept[n] \in Seq(S) /\ ToSet(kept[n]) = ToSet(kept[n - 1]) \cup {w[n]}
      BY <2>5, <3>1, AppendFacts
    <3>3. Distinct(w) => Distinct(kept[n])
      <4>1. Distinct(w) => w[n] \notin First(n - 1)
        BY <2>4 DEF Distinct
      <4>2. Distinct(w) => w[n] \notin ToSet(kept[n - 1])
        BY <4>1, <2>4
      <4> QED
        BY <4>2, <2>4, <2>5, <3>1, AppendFacts
    <3> QED
      BY <3>2, <3>3, <2>4, <2>5, <2>8
  <2> QED
    BY <2>7, <2>8
<1>6. Good(L)
  BY <1>1, <1>5
<1>7. First(L) = ToSet(w)
  BY DEF ToSet
<1> QED
  BY <1>2, <1>6, <1>7

-----------------------------------------------------------------------------
(* The inductive invariant                                                 *)

\* What an entry's place, its outcome and its handler say of one another.
Placed(at, waiting, running, outcomes, out) ==
    \A j \in Jobs :
        /\ j \in ToSet(waiting) => at[j] = "waiting" /\ outcomes[j] = "none"
        /\ j \in running => \/ at[j] \in {"acquiring", "running"}
                            \/ at[j] = "waiting" /\ outcomes[j] = "admitted"
        /\ j \in out => \/ at[j] \in {"forwarding", "abandoning"}
                        \/ at[j] = "waiting" /\ outcomes[j] = "withdrawn"
        /\ outcomes[j] # "none" => at[j] = "waiting"
        /\ at[j] = "waiting" =>
              /\ outcomes[j] = "none" => j \in ToSet(waiting)
              /\ outcomes[j] = "admitted" => j \in running
              /\ outcomes[j] = "withdrawn" => j \in out
              /\ outcomes[j] = "returned" => j \in Borrowed

\* Own entries are ahead of borrowed ones.
NativeFirst(waiting) ==
    \A i, k \in DOMAIN waiting : i < k /\ Native(waiting[k]) => Native(waiting[i])

\* Borrowed entries yield to requests that arrived here.
Yields(waiting, running, back, pre) ==
    (\E j \in ToSet(waiting) \cup running : Native(j) /\ j \notin back) =>
        /\ ToSet(waiting) \cap Borrowed = {}
        /\ \A b \in running \cap Borrowed : pre[b] # "open"

\* The state of the queue inside a critical section, before its admissions.
Sound(at, waiting, running, outcomes, out, back, pre) ==
    /\ waiting \in Seq(Jobs)
    /\ Distinct(waiting)
    /\ running \in SUBSET Jobs
    /\ outcomes \in [Jobs -> Outcome]
    /\ Placed(at, waiting, running, outcomes, out)
    /\ NativeFirst(waiting)
    /\ Yields(waiting, running, back, pre)

\* Admissions leave no room unused without a recheck, and never all of it.
Busy ==
    /\ NeverIdleWithWork
    /\ HeldIsRechecked

\* Only own requests go to helpers, and one that came back is marked.
LendersOwn ==
    /\ LentOnce
    /\ \A j \in Jobs : pc[j] \in {"forwarding", "returning"} => Native(j)
    /\ \A j \in Jobs : pc[j] = "returning" => j \in requeued

RestOK ==
    /\ pc \in [Jobs -> Handler]
    /\ depth \in 1..MaxDepth
    /\ recheck \in BOOLEAN
    /\ requeued \in SUBSET Jobs
    /\ preemption \in [Borrowed -> {"open", "started", "preempted"}]
    /\ lent \in SUBSET Jobs
    /\ lease \in [Models -> 0..MaxSlots]
    /\ due \in SUBSET Models
    /\ dispatching \in Models \cup {NoModel}
    /\ slots \in 0..MaxSlots

QueueInv ==
    /\ RestOK
    /\ Sound(pc, pending, admitted, result, lent, requeued, preemption)
    /\ LendersOwn
    /\ Busy

-----------------------------------------------------------------------------
(* Admission                                                               *)

\* The entries taken from the front are as many as positions.
LEMMA TakenCount ==
    ASSUME NEW w \in Seq(Jobs), Distinct(w), NEW n \in 0..Len(w),
           NEW run \in SUBSET Jobs, run \cap ToSet(w) = {}
    PROVE  LET taken == {w[i] : i \in 1..n}
           IN  /\ Cardinality(run) \in Nat
               /\ Cardinality(run) = 0 <=> run = {}
               /\ Cardinality(run \cup taken) = Cardinality(run) + n
<1> DEFINE taken == {w[i] : i \in 1..n}
           a == SubSeq(w, 1, n)
<1>1. a \in Seq(Jobs) /\ Len(a) = n /\ \A i \in 1..n : a[i] = w[i]
  OBVIOUS
<1> HIDE DEF a
<1>2. Distinct(a) /\ ToSet(a) = taken
  BY <1>1 DEF Distinct, ToSet
<1>3. IsFiniteSet(taken) /\ Cardinality(taken) = n
  BY <1>1, <1>2, DistinctCount
<1>4. IsFiniteSet(run) /\ Cardinality(run) \in Nat
  BY LendingAssumption, FS_Subset, FS_CardinalityType
<1>5. Cardinality(run) = 0 <=> run = {}
  BY <1>4, FS_EmptySet
<1>6. run \cap taken = {}
  BY DEF ToSet
<1>7. Cardinality(run \cap taken) = 0
  BY <1>6, FS_EmptySet
<1>8. Cardinality(run \cup taken) =
        Cardinality(run) + Cardinality(taken) - Cardinality(run \cap taken)
  BY <1>3, <1>4, FS_Union
<1> QED
  BY <1>3, <1>4, <1>5, <1>7, <1>8

\* The entries in taken are moved from w to the backend.
Admits(w, run, outcomes, taken) ==
    /\ pending' \in Seq(Jobs)
    /\ Distinct(pending')
    /\ ToSet(pending') = ToSet(w) \ taken
    /\ NativeFirst(w) => NativeFirst(pending')
    /\ admitted' = run \cup taken
    /\ result' = [j \in Jobs |-> IF j \in taken THEN "admitted" ELSE outcomes[j]]
    /\ recheck' \in BOOLEAN
    /\ Busy'
    /\ taken # {} => Cardinality(admitted') <= depth'

\* What admitLocked does to the queue.
LEMMA AdmitEffect ==
    ASSUME NEW w \in Seq(Jobs), Distinct(w),
           NEW run \in SUBSET Jobs, run \cap ToSet(w) = {},
           NEW outcomes, NEW out, NEW armed \in BOOLEAN,
           depth' \in 1..MaxDepth,
           AdmitLocked(w, run, outcomes, out, armed)
    PROVE  \E taken \in SUBSET ToSet(w) : Admits(w, run, outcomes, taken)
<1>1. PICK n \in 0..Len(w) :
        LET taken == {w[i] : i \in 1..n}
            busy == Cardinality(run)
        IN  /\ \A i \in 0..(n - 1) : ~Full(busy + i)
            /\ \/ Full(busy + n) /\ recheck' = armed
               \/ n = Len(w) /\ recheck' = armed
               \/ /\ recheck' = TRUE
                  /\ ~Full(busy + n)
                  /\ n < Len(w)
                  /\ MayHold(w[n + 1], run \cup taken, out)
            /\ pending' = SubSeq(w, n + 1, Len(w))
            /\ admitted' = run \cup taken
            /\ result' = [j \in Jobs |-> IF j \in taken THEN "admitted" ELSE outcomes[j]]
  BY DEF AdmitLocked
<1> DEFINE taken == {w[i] : i \in 1..n}
           busy == Cardinality(run)
<1>2. /\ busy \in Nat
      /\ busy = 0 <=> run = {}
      /\ Cardinality(admitted') = busy + n
  BY <1>1, TakenCount
<1>3. /\ pending' \in Seq(Jobs)
      /\ Len(pending') = Len(w) - n
      /\ \A i \in DOMAIN pending' : pending'[i] = w[n + i]
      /\ DOMAIN pending' = 1..(Len(w) - n)
      /\ ToSet(w) = taken \cup ToSet(pending')
      /\ Distinct(pending')
      /\ taken \cap ToSet(pending') = {}
  BY <1>1, SuffixFacts
<1>4. taken \in SUBSET ToSet(w) /\ ToSet(pending') = ToSet(w) \ taken
  BY <1>3
<1>5. NativeFirst(w) => NativeFirst(pending')
  <2> SUFFICES ASSUME NativeFirst(w), NEW i \in DOMAIN pending', NEW k \in DOMAIN pending',
                      i < k, Native(pending'[k])
               PROVE  Native(pending'[i])
    BY DEF NativeFirst
  <2>1. n + i \in DOMAIN w /\ n + k \in DOMAIN w /\ n + i < n + k
    BY <1>3
  <2>2. pending'[i] = w[n + i] /\ pending'[k] = w[n + k]
    BY <1>3
  <2> QED
    BY <2>1, <2>2 DEF NativeFirst
<1>6. recheck' \in BOOLEAN
  BY <1>1
<1>7. Busy'
  <2> SUFFICES ASSUME pending' # <<>>
               PROVE  admitted' # {} /\ (Cardinality(admitted') < depth' => recheck')
    BY DEF Busy, NeverIdleWithWork, HeldIsRechecked
  <2>1. n < Len(w)
    BY <1>3
  <2>2. CASE Full(busy + n) /\ recheck' = armed
    <3>1. busy + n >= depth'
      BY <2>2 DEF Full
    <3>2. busy # 0 \/ n # 0
      BY <3>1, <1>2
    <3>3. n # 0 => w[1] \in taken
      OBVIOUS
    <3>4. admitted' # {}
      BY <3>2, <3>3, <1>1, <1>2
    <3> QED
      BY <3>1, <3>4, <1>2, LendingAssumption
  <2>3. CASE recheck' = TRUE /\ MayHold(w[n + 1], run \cup taken, out)
    BY <2>3, <1>1 DEF MayHold
  <2>4. n # Len(w)
    BY <2>1
  <2> QED
    BY <1>1, <2>4, <2>2, <2>3, Zenon
<1>8. taken # {} => Cardinality(admitted') <= depth'
  <2> SUFFICES ASSUME taken # {} PROVE busy + n <= depth'
    BY <1>2
  <2>1. n - 1 \in 0..(n - 1) /\ n \in Nat
    OBVIOUS
  <2>2. ~(busy + (n - 1) >= depth')
    BY <1>1, <2>1 DEF Full
  <2> QED
    BY <2>1, <2>2, <1>2, LendingAssumption
<1> QED
  BY <1>1, <1>3, <1>4, <1>5, <1>6, <1>7, <1>8 DEF Admits

\* Admission keeps the queue sound.
LEMMA AdmitKeeps ==
    ASSUME NEW at, NEW w, NEW run, NEW outcomes, NEW out, NEW back, NEW pre, NEW hold,
           NEW armed \in BOOLEAN,
           Sound(at, w, run, outcomes, out, back, pre),
           depth' \in 1..MaxDepth,
           AdmitLocked(w, run, outcomes, hold, armed)
    PROVE  /\ Sound(at, pending', admitted', result', out, back, pre)
           /\ recheck' \in BOOLEAN
           /\ Busy'
           /\ admitted' \subseteq run \/ Cardinality(admitted') <= depth'
<1>1. /\ w \in Seq(Jobs) /\ Distinct(w) /\ run \in SUBSET Jobs
      /\ outcomes \in [Jobs -> Outcome]
      /\ Placed(at, w, run, outcomes, out)
      /\ NativeFirst(w)
      /\ Yields(w, run, back, pre)
  BY DEF Sound
<1>2. ToSet(w) \subseteq Jobs
  BY <1>1 DEF ToSet
<1>3. run \cap ToSet(w) = {}
  BY <1>1, <1>2 DEF Placed
<1>4. PICK taken \in SUBSET ToSet(w) : Admits(w, run, outcomes, taken)
  <2>1. w \in Seq(Jobs) /\ Distinct(w) /\ run \in SUBSET Jobs /\ run \cap ToSet(w) = {}
    BY <1>1, <1>3
  <2> QED
    BY <2>1, AdmitEffect
<1> USE DEF Admits
<1>5. admitted' \in SUBSET Jobs /\ result' \in [Jobs -> Outcome]
  BY <1>1, <1>2, <1>4 DEF Outcome
<1>6. Placed(at, pending', admitted', result', out)
  BY <1>1, <1>2, <1>3, <1>4 DEF Placed
<1>7. Yields(pending', admitted', back, pre)
  BY <1>1, <1>2, <1>4 DEF Yields
<1> QED
  BY <1>1, <1>4, <1>5, <1>6, <1>7 DEF Sound

-----------------------------------------------------------------------------
(* The steps of the queue                                                  *)

\* An admission leaves recheck a truth value.
LEMMA AdmitRecheck ==
    ASSUME NEW w, NEW run, NEW outcomes, NEW out, NEW armed \in BOOLEAN,
           AdmitLocked(w, run, outcomes, out, armed)
    PROVE  recheck' \in BOOLEAN
BY DEF AdmitLocked

\* A non-empty finite set of naturals has a largest element.
LEMMA GreatestOf ==
    ASSUME NEW T \in SUBSET Nat, T # {}, NEW b \in Nat, \A x \in T : x <= b
    PROVE  \E n \in T : \A m \in T : m <= n
<1> DEFINE U == {b - x : x \in T}
<1>1. U \in SUBSET Nat /\ U # {}
  <2>1. U \in SUBSET Nat
    OBVIOUS
  <2>2. PICK x \in T : TRUE
    OBVIOUS
  <2>3. b - x \in U
    OBVIOUS
  <2> QED
    BY <2>1, <2>3
<1>2. PICK u \in U : \A v \in U : u <= v
  <2> HIDE DEF U
  <2> QED
    BY <1>1, LeastNat
<1>3. PICK n \in T : u = b - n
  BY <1>2
<1>4. \A m \in T : b - n <= b - m
  BY <1>2, <1>3
<1> QED
  BY <1>4

\* WithdrawNewest finds an entry when there is one.
LEMMA NewestIsOne ==
    ASSUME NEW m, pending \in Seq(Jobs), Withdrawable(m) # {}
    PROVE  Newest(m) \in Withdrawable(m)
<1>1. Withdrawable(m) \in SUBSET Nat /\ \A i \in Withdrawable(m) : i <= Len(pending)
  BY DEF Withdrawable
<1>2. Len(pending) \in Nat
  OBVIOUS
<1>3. \E i \in Withdrawable(m) : \A k \in Withdrawable(m) : k <= i
  BY <1>1, <1>2, GreatestOf
<1> QED
  BY <1>3 DEF Newest

\* The handlers, the book, the leases and the dispatcher keep their types.
LEMMA RestStep == QueueInv /\ [Next]_vars => RestOK'
<1> SUFFICES ASSUME QueueInv, [Next]_vars PROVE RestOK'
  OBVIOUS
<1>a. RestOK /\ pending \in Seq(Jobs)
  BY DEF QueueInv, Sound
<1> USE <1>a, LendingAssumption DEF RestOK, Handler, Move, queueVars, dispatchVars
<1>1. ASSUME NEW j \in Jobs, EnqueueNative(j) PROVE RestOK'
  BY <1>1, AdmitRecheck DEF EnqueueNative
<1>2. ASSUME NEW j \in Jobs, EnqueueBorrowed(j) PROVE RestOK'
  BY <1>2, AdmitRecheck DEF EnqueueBorrowed
<1>3. ASSUME NEW j \in Jobs, RefuseBorrowed(j) PROVE RestOK'
  BY <1>3 DEF RefuseBorrowed
<1>4. ASSUME NEW j \in Jobs, ReadAdmitted(j) PROVE RestOK'
  BY <1>4 DEF ReadAdmitted
<1>5. ASSUME NEW j \in Jobs, ReadWithdrawn(j) PROVE RestOK'
  BY <1>5 DEF ReadWithdrawn
<1>6. ASSUME NEW j \in Jobs, ReadReturned(j) PROVE RestOK'
  BY <1>6 DEF ReadReturned, Finish
<1>7. ASSUME NEW j \in Jobs, Abandon(j) PROVE RestOK'
  BY <1>7, AdmitRecheck DEF Abandon
<1>8. ASSUME NEW j \in Jobs, ReleaseAbandoned(j) PROVE RestOK'
  BY <1>8 DEF ReleaseAbandoned, Finish
<1>9. ASSUME NEW j \in Jobs, Start(j) PROVE RestOK'
  BY <1>9 DEF Start
<1>10. ASSUME NEW j \in Jobs, Complete(j) PROVE RestOK'
  BY <1>10, AdmitRecheck DEF Complete, Finish
<1>11. ASSUME NEW j \in Jobs, Answered(j) PROVE RestOK'
  BY <1>11 DEF Answered, Finish
<1>12. ASSUME NEW j \in Jobs, HandedBack(j) PROVE RestOK'
  BY <1>12 DEF HandedBack
<1>13. ASSUME NEW j \in Jobs, Requeue(j) PROVE RestOK'
  BY <1>13, AdmitRecheck DEF Requeue
<1>14. ASSUME NEW m \in Models, AcceptLease(m) PROVE RestOK'
  BY <1>14 DEF AcceptLease
<1>15. ASSUME NEW m \in Models, ExpireLease(m) PROVE RestOK'
  BY <1>15 DEF ExpireLease
<1>16. ASSUME NEW m \in Models, ClearLease(m) PROVE RestOK'
  BY <1>16 DEF ClearLease
<1>17. ASSUME NEW m \in Models, BeginDispatch(m) PROVE RestOK'
  BY <1>17 DEF BeginDispatch
<1>18. ASSUME Lend PROVE RestOK'
  <2>1. Newest(dispatching) \in DOMAIN pending
    BY <1>18, NewestIsOne DEF Lend, Withdrawable
  <2> QED
    BY <1>18, <2>1, AdmitRecheck DEF Lend
<1>19. ASSUME EndDispatch PROVE RestOK'
  BY <1>19, AdmitRecheck DEF EndDispatch
<1>20. ASSUME Readmit PROVE RestOK'
  BY <1>20, AdmitRecheck DEF Readmit
<1>21. ASSUME NEW d \in 0..MaxDepth, SetDepth(d) PROVE RestOK'
  BY <1>21, AdmitRecheck DEF SetDepth, UsableDepth
<1>22. CASE UNCHANGED vars
  BY <1>22 DEF vars, queueVars, dispatchVars
<1> QED
  BY <1>1, <1>2, <1>3, <1>4, <1>5, <1>6, <1>7, <1>8, <1>9,
     <1>10, <1>11, <1>12, <1>13, <1>14, <1>15, <1>16, <1>17, <1>18, <1>19, <1>20, <1>21,
     <1>22
     DEF Next, JobNext, Read

\* Only own requests are lent, and none that came back.
LEMMA LendersOwnStep ==
    QueueInv /\ [Next]_vars => LendersOwn'
<1> SUFFICES ASSUME QueueInv, [Next]_vars PROVE LendersOwn'
  OBVIOUS
<1>a. /\ pc \in [Jobs -> Handler] /\ requeued \in SUBSET Jobs /\ lent \in SUBSET Jobs
      /\ pending \in Seq(Jobs)
      /\ Placed(pc, pending, admitted, result, lent)
      /\ LendersOwn
  BY DEF QueueInv, RestOK, Sound
<1> USE <1>a, LendingAssumption DEF LendersOwn, LentOnce, Placed, Native, Handler, Move,
        queueVars, dispatchVars
<1>1. ASSUME NEW j \in Jobs, EnqueueNative(j) PROVE LendersOwn'
  BY <1>1 DEF EnqueueNative
<1>2. ASSUME NEW j \in Jobs, EnqueueBorrowed(j) PROVE LendersOwn'
  BY <1>2 DEF EnqueueBorrowed
<1>3. ASSUME NEW j \in Jobs, RefuseBorrowed(j) PROVE LendersOwn'
  BY <1>3 DEF RefuseBorrowed
<1>4. ASSUME NEW j \in Jobs, ReadAdmitted(j) PROVE LendersOwn'
  BY <1>4 DEF ReadAdmitted
<1>5. ASSUME NEW j \in Jobs, ReadWithdrawn(j) PROVE LendersOwn'
  BY <1>5 DEF ReadWithdrawn
<1>6. ASSUME NEW j \in Jobs, ReadReturned(j) PROVE LendersOwn'
  BY <1>6 DEF ReadReturned, Finish
<1>7. ASSUME NEW j \in Jobs, Abandon(j) PROVE LendersOwn'
  BY <1>7 DEF Abandon
<1>8. ASSUME NEW j \in Jobs, ReleaseAbandoned(j) PROVE LendersOwn'
  BY <1>8 DEF ReleaseAbandoned, Finish
<1>9. ASSUME NEW j \in Jobs, Start(j) PROVE LendersOwn'
  BY <1>9 DEF Start
<1>10. ASSUME NEW j \in Jobs, Complete(j) PROVE LendersOwn'
  BY <1>10 DEF Complete, Finish
<1>11. ASSUME NEW j \in Jobs, Answered(j) PROVE LendersOwn'
  BY <1>11 DEF Answered, Finish
<1>12. ASSUME NEW j \in Jobs, HandedBack(j) PROVE LendersOwn'
  BY <1>12 DEF HandedBack
<1>13. ASSUME NEW j \in Jobs, Requeue(j) PROVE LendersOwn'
  BY <1>13 DEF Requeue
<1>14. ASSUME NEW m \in Models, AcceptLease(m) PROVE LendersOwn'
  BY <1>14 DEF AcceptLease
<1>15. ASSUME NEW m \in Models, ExpireLease(m) PROVE LendersOwn'
  BY <1>15 DEF ExpireLease
<1>16. ASSUME NEW m \in Models, ClearLease(m) PROVE LendersOwn'
  BY <1>16 DEF ClearLease
<1>17. ASSUME NEW m \in Models, BeginDispatch(m) PROVE LendersOwn'
  BY <1>17 DEF BeginDispatch
<1>18. ASSUME Lend PROVE LendersOwn'
  <2>1. Withdrawable(dispatching) # {}
    BY <1>18 DEF Lend
  <2>2. Newest(dispatching) \in Withdrawable(dispatching)
    BY <2>1, NewestIsOne
  <2>3. LET j == pending[Newest(dispatching)] IN Native(j) /\ ~Pinned(j)
    BY <2>2 DEF Withdrawable
  <2> QED
    BY <1>18, <2>3 DEF Lend, Pinned
<1>19. ASSUME EndDispatch PROVE LendersOwn'
  BY <1>19 DEF EndDispatch
<1>20. ASSUME Readmit PROVE LendersOwn'
  BY <1>20 DEF Readmit
<1>21. ASSUME NEW d \in 0..MaxDepth, SetDepth(d) PROVE LendersOwn'
  BY <1>21 DEF SetDepth, UsableDepth
<1>22. CASE UNCHANGED vars
  BY <1>22 DEF vars, queueVars, dispatchVars
<1> QED
  BY <1>1, <1>2, <1>3, <1>4, <1>5, <1>6, <1>7, <1>8, <1>9,
     <1>10, <1>11, <1>12, <1>13, <1>14, <1>15, <1>16, <1>17, <1>18, <1>19, <1>20, <1>21,
     <1>22
     DEF Next, JobNext, Read

\* The order of own and borrowed entries survives a removal.
LEMMA RemoveKeepsOrder ==
    ASSUME NEW s \in Seq(Jobs), NativeFirst(s), NEW p \in DOMAIN s
    PROVE  NativeFirst(RemoveAt(s, p))
<1> DEFINE t == RemoveAt(s, p)
<1>1. /\ DOMAIN t = 1..(Len(s) - 1)
      /\ \A i \in DOMAIN t : t[i] = IF i < p THEN s[i] ELSE s[i + 1]
  BY RemoveFacts
<1> HIDE DEF t
<1>2. NativeFirst(t)
  BY <1>1 DEF NativeFirst
<1> QED
  BY <1>2 DEF t

\* discard takes out the entry of j and nothing else.
LEMMA DiscardFacts ==
    ASSUME NEW j \in Jobs, pending \in Seq(Jobs), Distinct(pending), NativeFirst(pending)
    PROVE  /\ Discard(j) \in Seq(Jobs)
           /\ Distinct(Discard(j))
           /\ ToSet(Discard(j)) = ToSet(pending) \ {j}
           /\ NativeFirst(Discard(j))
<1>1. CASE Positions(j) = {}
  BY <1>1 DEF Discard, Positions, ToSet
<1>2. CASE Positions(j) # {}
  <2> DEFINE p == CHOOSE i \in Positions(j) : \A k \in Positions(j) : i <= k
  <2>1. Positions(j) \in SUBSET Nat
    BY DEF Positions
  <2>2. \E i \in Positions(j) : \A k \in Positions(j) : i <= k
    BY <1>2, <2>1, LeastNat
  <2>3. p \in Positions(j)
    BY <2>2
  <2>4. Discard(j) = RemoveAt(pending, p)
    BY <1>2 DEF Discard
  <2> HIDE DEF p
  <2>5. p \in DOMAIN pending /\ pending[p] = j
    BY <2>3 DEF Positions
  <2> QED
    BY <2>4, <2>5, RemoveFacts, RemoveKeepsOrder
<1> QED
  BY <1>1, <1>2

\* What every step leaves behind: a sound queue that is busy, and no more on
\* the backend than the depth allows unless nothing was added to run.
Stepped(run) ==
    /\ Sound(pc', pending', admitted', result', lent', requeued', preemption')
    /\ Busy'
    /\ admitted' \subseteq run \/ Cardinality(admitted') <= depth'

\* Every critical section ends in a sound queue.
LEMMA SoundStep == QueueInv /\ [Next]_vars => Stepped(admitted)
<1> SUFFICES ASSUME QueueInv, [Next]_vars PROVE Stepped(admitted)
  OBVIOUS
<1>a. /\ RestOK /\ LendersOwn /\ Busy
      /\ Sound(pc, pending, admitted, result, lent, requeued, preemption)
  BY DEF QueueInv
<1>b. /\ pending \in Seq(Jobs) /\ Distinct(pending) /\ admitted \in SUBSET Jobs
      /\ result \in [Jobs -> Outcome]
      /\ Placed(pc, pending, admitted, result, lent)
      /\ NativeFirst(pending)
      /\ Yields(pending, admitted, requeued, preemption)
  BY <1>a DEF Sound
<1>c. ToSet(pending) \subseteq Jobs
  BY <1>b DEF ToSet
<1>d. \A j \in Jobs : j \in lent => j \notin requeued /\ Native(j)
  BY <1>a DEF LendersOwn, LentOnce, Native
<1> USE <1>a, <1>b, <1>c, <1>d, LendingAssumption DEF RestOK, Handler, Native, Move,
        queueVars, dispatchVars
<1>1. ASSUME NEW j \in Jobs, EnqueueNative(j) PROVE Stepped(admitted)
  <2> DEFINE w == KeepNative(Append(pending, j))
           run == admitted
           said == [k \in Jobs |-> IF k \in WaitsBorrowed THEN "returned" ELSE result[k]]
  <2>a. /\ AdmitLocked(w, run, said, lent, recheck)
        /\ depth' = depth
    BY <1>1 DEF EnqueueNative
  <2> USE <1>1 DEF EnqueueNative
  <2>s. /\ pc[j] = "idle" /\ Native(j) /\ j \notin ToSet(pending)
    BY DEF Placed
  <2>t. LET v == Append(pending, j)
        IN  v \in Seq(Jobs) /\ Distinct(v) /\ ToSet(v) = ToSet(pending) \cup {j}
    BY <2>s, AppendFacts
  <2>u. w \in Seq(Jobs) /\ Distinct(w) /\ ToSet(w) = {e \in ToSet(pending) : Native(e)} \cup {j}
    <3>1. /\ w \in Seq(Jobs) /\ Distinct(w)
          /\ ToSet(w) = {e \in ToSet(Append(pending, j)) : Native(e)}
      BY ONLY <2>t, KeepNativeFacts
    <3> QED
      BY <3>1, <2>s, <2>t
  <2>v. \A i \in DOMAIN w : Native(w[i])
    BY <2>s, <2>u DEF ToSet
  <2>w. NativeFirst(w)
    BY <2>v DEF NativeFirst
  <2>x. WaitsBorrowed = ToSet(pending) \cap Borrowed
    BY DEF WaitsBorrowed, ToSet
  <2> HIDE DEF w
  <2>1. said \in [Jobs -> Outcome] /\ run \in SUBSET Jobs
    BY <2>s, <2>x DEF Outcome
  <2>2. Placed(pc', w, run, said, lent')
    BY <2>s, <2>x, <2>u DEF Placed
  <2>3. Yields(w, run, requeued', preemption')
    BY <2>s, <2>x, <2>u DEF Yields, Placed
  <2>4. Sound(pc', w, run, said, lent', requeued', preemption')
    BY <2>u, <2>w, <2>1, <2>2, <2>3 DEF Sound
  <2>5. depth' \in 1..MaxDepth /\ recheck \in BOOLEAN
    BY <2>a
  <2> HIDE DEF run, said, EnqueueNative
  <2>6. Stepped(run)
    BY <2>a, <2>4, <2>5, AdmitKeeps DEF Stepped
  <2> QED
    BY <2>6 DEF run, Stepped
<1>2. ASSUME NEW j \in Jobs, EnqueueBorrowed(j) PROVE Stepped(admitted)
  <2> DEFINE w == Append(pending, j)
           run == admitted
           said == result
  <2>a. /\ AdmitLocked(w, run, said, lent, recheck)
        /\ depth' = depth
    BY <1>2 DEF EnqueueBorrowed
  <2> USE <1>2 DEF EnqueueBorrowed
  <2>s. j \in Borrowed /\ j \notin ToSet(pending)
    BY DEF Placed
  <2>u. w \in Seq(Jobs) /\ Distinct(w) /\ ToSet(w) = ToSet(pending) \cup {j}
    BY <2>s, AppendFacts
  <2>v. /\ DOMAIN w = 1..(Len(pending) + 1)
        /\ \A i \in DOMAIN w : w[i] = IF i <= Len(pending) THEN pending[i] ELSE j
    BY AppendFacts
  <2>w. NativeFirst(w)
    BY <2>s, <2>v DEF NativeFirst, Native
  <2>x. \A k \in ToSet(pending) \cup admitted : ~Native(k)
    BY DEF HoldsOwnWork, ToSet
  <2> HIDE DEF w
  <2>1. said \in [Jobs -> Outcome] /\ run \in SUBSET Jobs
    BY <2>s, <2>x DEF Outcome
  <2>2. Placed(pc', w, run, said, lent')
    BY <2>s, <2>x, <2>u DEF Placed
  <2>3. Yields(w, run, requeued', preemption')
    BY <2>s, <2>x, <2>u DEF Yields, Placed
  <2>4. Sound(pc', w, run, said, lent', requeued', preemption')
    BY <2>u, <2>w, <2>1, <2>2, <2>3 DEF Sound
  <2>5. depth' \in 1..MaxDepth /\ recheck \in BOOLEAN
    BY <2>a
  <2> HIDE DEF run, said, EnqueueBorrowed
  <2>6. Stepped(run)
    BY <2>a, <2>4, <2>5, AdmitKeeps DEF Stepped
  <2> QED
    BY <2>6 DEF run, Stepped
<1>3. ASSUME NEW j \in Jobs, RefuseBorrowed(j) PROVE Stepped(admitted)
  <2> USE <1>3 DEF RefuseBorrowed
  <2>1. result' \in [Jobs -> Outcome]
    BY DEF Outcome
  <2>2. Placed(pc', pending', admitted', result', lent')
    BY DEF Placed
  <2>3. Yields(pending', admitted', requeued', preemption')
    BY DEF Yields, Placed
  <2>4. NativeFirst(pending') /\ Distinct(pending') /\ Busy'
    BY DEF Busy, NeverIdleWithWork, HeldIsRechecked
  <2> QED
    BY <2>1, <2>2, <2>3, <2>4 DEF Sound, Stepped
<1>4. ASSUME NEW j \in Jobs, ReadAdmitted(j) PROVE Stepped(admitted)
  <2> USE <1>4 DEF ReadAdmitted
  <2>1. result' \in [Jobs -> Outcome]
    BY DEF Outcome
  <2>2. Placed(pc', pending', admitted', result', lent')
    BY DEF Placed
  <2>3. Yields(pending', admitted', requeued', preemption')
    BY DEF Yields, Placed
  <2>4. NativeFirst(pending') /\ Distinct(pending') /\ Busy'
    BY DEF Busy, NeverIdleWithWork, HeldIsRechecked
  <2> QED
    BY <2>1, <2>2, <2>3, <2>4 DEF Sound, Stepped
<1>5. ASSUME NEW j \in Jobs, ReadWithdrawn(j) PROVE Stepped(admitted)
  <2> USE <1>5 DEF ReadWithdrawn
  <2>1. result' \in [Jobs -> Outcome]
    BY DEF Outcome
  <2>2. Placed(pc', pending', admitted', result', lent')
    BY DEF Placed
  <2>3. Yields(pending', admitted', requeued', preemption')
    BY DEF Yields, Placed
  <2>4. NativeFirst(pending') /\ Distinct(pending') /\ Busy'
    BY DEF Busy, NeverIdleWithWork, HeldIsRechecked
  <2> QED
    BY <2>1, <2>2, <2>3, <2>4 DEF Sound, Stepped
<1>6. ASSUME NEW j \in Jobs, ReadReturned(j) PROVE Stepped(admitted)
  <2> USE <1>6 DEF ReadReturned, Finish
  <2>1. result' \in [Jobs -> Outcome]
    BY DEF Outcome
  <2>2. Placed(pc', pending', admitted', result', lent')
    BY DEF Placed
  <2>3. Yields(pending', admitted', requeued', preemption')
    BY DEF Yields, Placed
  <2>4. NativeFirst(pending') /\ Distinct(pending') /\ Busy'
    BY DEF Busy, NeverIdleWithWork, HeldIsRechecked
  <2> QED
    BY <2>1, <2>2, <2>3, <2>4 DEF Sound, Stepped
<1>7. ASSUME NEW j \in Jobs, Abandon(j) PROVE Stepped(admitted)
  <2> DEFINE w == Discard(j)
           run == admitted \ {j}
           said == [result EXCEPT ![j] = "none"]
  <2>a. /\ AdmitLocked(w, run, said, lent, recheck)
        /\ depth' = depth
    BY <1>7 DEF Abandon
  <2> USE <1>7 DEF Abandon
  <2>u. w \in Seq(Jobs) /\ Distinct(w) /\ ToSet(w) = ToSet(pending) \ {j}
    BY DiscardFacts
  <2>w. NativeFirst(w)
    BY DiscardFacts
  <2> HIDE DEF w
  <2>1. said \in [Jobs -> Outcome] /\ run \in SUBSET Jobs
    BY DEF Outcome
  <2>2. Placed(pc', w, run, said, lent')
    BY <2>u DEF Placed
  <2>3. Yields(w, run, requeued', preemption')
    BY <2>u DEF Yields, Placed
  <2>4. Sound(pc', w, run, said, lent', requeued', preemption')
    BY <2>u, <2>w, <2>1, <2>2, <2>3 DEF Sound
  <2>5. depth' \in 1..MaxDepth /\ recheck \in BOOLEAN
    BY <2>a
  <2> HIDE DEF run, said, Abandon
  <2>6. Stepped(run)
    BY <2>a, <2>4, <2>5, AdmitKeeps DEF Stepped
  <2> QED
    BY <2>6 DEF run, Stepped
<1>8. ASSUME NEW j \in Jobs, ReleaseAbandoned(j) PROVE Stepped(admitted)
  <2> USE <1>8 DEF ReleaseAbandoned, Finish
  <2>1. result' \in [Jobs -> Outcome]
    BY DEF Outcome
  <2>2. Placed(pc', pending', admitted', result', lent')
    BY DEF Placed
  <2>3. Yields(pending', admitted', requeued', preemption')
    BY DEF Yields, Placed
  <2>4. NativeFirst(pending') /\ Distinct(pending') /\ Busy'
    BY DEF Busy, NeverIdleWithWork, HeldIsRechecked
  <2> QED
    BY <2>1, <2>2, <2>3, <2>4 DEF Sound, Stepped
<1>9. ASSUME NEW j \in Jobs, Start(j) PROVE Stepped(admitted)
  <2> USE <1>9 DEF Start
  <2>1. result' \in [Jobs -> Outcome]
    BY DEF Outcome
  <2>2. Placed(pc', pending', admitted', result', lent')
    BY DEF Placed
  <2>3. Yields(pending', admitted', requeued', preemption')
    BY DEF Yields, Placed
  <2>4. NativeFirst(pending') /\ Distinct(pending') /\ Busy'
    BY DEF Busy, NeverIdleWithWork, HeldIsRechecked
  <2> QED
    BY <2>1, <2>2, <2>3, <2>4 DEF Sound, Stepped
<1>10. ASSUME NEW j \in Jobs, Complete(j) PROVE Stepped(admitted)
  <2> DEFINE w == pending
           run == admitted \ {j}
           said == result
  <2>a. /\ AdmitLocked(w, run, said, lent, recheck)
        /\ depth' = depth
    BY <1>10 DEF Complete, Finish
  <2> USE <1>10 DEF Complete, Finish
  <2>u. w \in Seq(Jobs) /\ Distinct(w) /\ ToSet(w) = ToSet(pending) /\ NativeFirst(w)
    OBVIOUS
  <2> HIDE DEF w
  <2>1. said \in [Jobs -> Outcome] /\ run \in SUBSET Jobs
    BY DEF Outcome
  <2>2. Placed(pc', w, run, said, lent')
    BY <2>u DEF Placed
  <2>3. Yields(w, run, requeued', preemption')
    BY <2>u DEF Yields, Placed
  <2>4. Sound(pc', w, run, said, lent', requeued', preemption')
    BY <2>u, <2>1, <2>2, <2>3 DEF Sound
  <2>5. depth' \in 1..MaxDepth /\ recheck \in BOOLEAN
    BY <2>a
  <2> HIDE DEF run, said, Complete, Finish
  <2>6. Stepped(run)
    BY <2>a, <2>4, <2>5, AdmitKeeps DEF Stepped
  <2> QED
    BY <2>6 DEF run, Stepped
<1>11. ASSUME NEW j \in Jobs, Answered(j) PROVE Stepped(admitted)
  <2> USE <1>11 DEF Answered, Finish
  <2>1. result' \in [Jobs -> Outcome]
    BY DEF Outcome
  <2>2. Placed(pc', pending', admitted', result', lent')
    BY DEF Placed
  <2>3. Yields(pending', admitted', requeued', preemption')
    BY DEF Yields, Placed
  <2>4. NativeFirst(pending') /\ Distinct(pending') /\ Busy'
    BY DEF Busy, NeverIdleWithWork, HeldIsRechecked
  <2> QED
    BY <2>1, <2>2, <2>3, <2>4 DEF Sound, Stepped
<1>12. ASSUME NEW j \in Jobs, HandedBack(j) PROVE Stepped(admitted)
  <2> USE <1>12 DEF HandedBack
  <2>1. result' \in [Jobs -> Outcome]
    BY DEF Outcome
  <2>2. Placed(pc', pending', admitted', result', lent')
    BY DEF Placed
  <2>3. Yields(pending', admitted', requeued', preemption')
    BY DEF Yields, Placed
  <2>4. NativeFirst(pending') /\ Distinct(pending') /\ Busy'
    BY DEF Busy, NeverIdleWithWork, HeldIsRechecked
  <2> QED
    BY <2>1, <2>2, <2>3, <2>4 DEF Sound, Stepped
<1>13. ASSUME NEW j \in Jobs, Requeue(j) PROVE Stepped(admitted)
  <2> DEFINE w == (<<j>> \o pending)
           run == admitted
           said == result
  <2>a. /\ AdmitLocked(w, run, said, lent, recheck)
        /\ depth' = depth
    BY <1>13 DEF Requeue
  <2> USE <1>13 DEF Requeue
  <2>s. Native(j) /\ j \in requeued /\ j \notin ToSet(pending)
    BY DEF Placed, LendersOwn
  <2>u. w \in Seq(Jobs) /\ Distinct(w) /\ ToSet(w) = {j} \cup ToSet(pending)
    BY <2>s, PrependFacts
  <2>v. /\ DOMAIN w = 1..(Len(pending) + 1)
        /\ \A i \in DOMAIN w : w[i] = IF i = 1 THEN j ELSE pending[i - 1]
    BY PrependFacts
  <2>w. NativeFirst(w)
    BY <2>s, <2>v DEF NativeFirst, Native
  <2> HIDE DEF w
  <2>1. said \in [Jobs -> Outcome] /\ run \in SUBSET Jobs
    BY <2>s DEF Outcome
  <2>2. Placed(pc', w, run, said, lent')
    BY <2>s, <2>u DEF Placed
  <2>3. Yields(w, run, requeued', preemption')
    BY <2>s, <2>u DEF Yields, Placed
  <2>4. Sound(pc', w, run, said, lent', requeued', preemption')
    BY <2>u, <2>w, <2>1, <2>2, <2>3 DEF Sound
  <2>5. depth' \in 1..MaxDepth /\ recheck \in BOOLEAN
    BY <2>a
  <2> HIDE DEF run, said, Requeue
  <2>6. Stepped(run)
    BY <2>a, <2>4, <2>5, AdmitKeeps DEF Stepped
  <2> QED
    BY <2>6 DEF run, Stepped
<1>14. ASSUME NEW m \in Models, AcceptLease(m) PROVE Stepped(admitted)
  BY <1>14 DEF AcceptLease, Stepped, Busy, NeverIdleWithWork, HeldIsRechecked
<1>15. ASSUME NEW m \in Models, ExpireLease(m) PROVE Stepped(admitted)
  BY <1>15 DEF ExpireLease, Stepped, Busy, NeverIdleWithWork, HeldIsRechecked
<1>16. ASSUME NEW m \in Models, ClearLease(m) PROVE Stepped(admitted)
  <2> USE <1>16 DEF ClearLease
  <2>1. Busy'
    BY DEF Busy, NeverIdleWithWork, HeldIsRechecked
  <2> QED
    BY <2>1 DEF Stepped
<1>17. ASSUME NEW m \in Models, BeginDispatch(m) PROVE Stepped(admitted)
  BY <1>17 DEF BeginDispatch, Stepped, Busy, NeverIdleWithWork, HeldIsRechecked
<1>18. ASSUME Lend PROVE Stepped(admitted)
  <2> DEFINE p == Newest(dispatching)
  <2> DEFINE w == RemoveAt(pending, p)
           run == admitted
           said == [result EXCEPT ![pending[p]] = "withdrawn"]
  <2>a. /\ AdmitLocked(w, run, said, lent \cup {pending[p]}, recheck)
        /\ depth' = depth
    BY <1>18 DEF Lend
  <2> USE <1>18 DEF Lend
  <2>s. p \in DOMAIN pending /\ Native(pending[p]) /\ ~Pinned(pending[p]) /\ pending[p] \in Jobs
    BY NewestIsOne DEF Withdrawable
  <2>t. pending[p] \in ToSet(pending)
    BY <2>s DEF ToSet
  <2>u. w \in Seq(Jobs) /\ Distinct(w) /\ ToSet(w) = ToSet(pending) \ {pending[p]}
    BY <2>s, RemoveFacts
  <2>w. NativeFirst(w)
    BY <2>s, RemoveKeepsOrder
  <2> HIDE DEF w
  <2>1. said \in [Jobs -> Outcome] /\ run \in SUBSET Jobs
    BY <2>s, <2>t DEF Outcome
  <2>2. Placed(pc', w, run, said, lent')
    BY <2>s, <2>t, <2>u DEF Placed
  <2>3. Yields(w, run, requeued', preemption')
    BY <2>s, <2>t, <2>u DEF Yields, Placed
  <2>4. Sound(pc', w, run, said, lent', requeued', preemption')
    BY <2>u, <2>w, <2>1, <2>2, <2>3 DEF Sound
  <2>5. depth' \in 1..MaxDepth /\ recheck \in BOOLEAN
    BY <2>a
  <2> HIDE DEF run, said, Lend
  <2>6. Stepped(run)
    BY <2>a, <2>4, <2>5, AdmitKeeps DEF Stepped
  <2> QED
    BY <2>6 DEF run, Stepped
<1>19. ASSUME EndDispatch PROVE Stepped(admitted)
  <2>1. CASE HasSlot
    <3>1. /\ depth' \in 1..MaxDepth
          /\ AdmitLocked(pending, admitted, result, lent, recheck)
          /\ UNCHANGED <<pc, lent, requeued, preemption>>
      BY <1>19, <2>1 DEF EndDispatch
    <3>2. Sound(pc', pending, admitted, result, lent', requeued', preemption')
      BY <3>1
    <3> QED
      BY <3>1, <3>2, AdmitKeeps DEF Stepped
  <2>2. CASE ~HasSlot
    BY <1>19, <2>2 DEF EndDispatch, Stepped, Busy, NeverIdleWithWork, HeldIsRechecked
  <2> QED
    BY <2>1, <2>2
<1>20. ASSUME Readmit PROVE Stepped(admitted)
  <2>1. /\ depth' \in 1..MaxDepth
        /\ AdmitLocked(pending, admitted, result, lent, FALSE)
        /\ UNCHANGED <<pc, lent, requeued, preemption>>
    BY <1>20 DEF Readmit
  <2>2. Sound(pc', pending, admitted, result, lent', requeued', preemption')
    BY <2>1
  <2> QED
    BY <2>1, <2>2, AdmitKeeps DEF Stepped
<1>21. ASSUME NEW d \in 0..MaxDepth, SetDepth(d) PROVE Stepped(admitted)
  <2>1. /\ depth' \in 1..MaxDepth
        /\ AdmitLocked(pending, admitted, result, lent, recheck)
        /\ UNCHANGED <<pc, lent, requeued, preemption>>
    BY <1>21 DEF SetDepth, UsableDepth
  <2>2. Sound(pc', pending, admitted, result, lent', requeued', preemption')
    BY <2>1
  <2> QED
    BY <2>1, <2>2, AdmitKeeps DEF Stepped
<1>22. CASE UNCHANGED vars
  BY <1>22 DEF vars, Stepped, Busy, NeverIdleWithWork, HeldIsRechecked
<1> QED
  BY <1>1, <1>2, <1>3, <1>4, <1>5, <1>6, <1>7, <1>8, <1>9,
     <1>10, <1>11, <1>12, <1>13, <1>14, <1>15, <1>16, <1>17, <1>18, <1>19, <1>20, <1>21,
     <1>22
     DEF Next, JobNext, Read

-----------------------------------------------------------------------------
(* The theorems                                                            *)

\* The queue starts empty and sound.
LEMMA InitQueue == Init => QueueInv
<1> SUFFICES ASSUME Init PROVE QueueInv
  OBVIOUS
<1> USE LendingAssumption DEF Init
<1>1. RestOK
  <2>1. recheck \in BOOLEAN
    BY Zenon
  <2>2. /\ pc \in [Jobs -> Handler]
        /\ preemption \in [Borrowed -> {"open", "started", "preempted"}]
        /\ lease \in [Models -> 0..MaxSlots]
    BY DEF Handler
  <2> QED
    BY <2>1, <2>2 DEF RestOK
<1>2. ToSet(pending) = {} /\ pending \in Seq(Jobs) /\ DOMAIN pending = {}
  BY DEF ToSet
<1>3. Sound(pc, pending, admitted, result, lent, requeued, preemption)
  <2>1. result \in [Jobs -> Outcome] /\ admitted \in SUBSET Jobs
    BY DEF Outcome
  <2>2. Placed(pc, pending, admitted, result, lent)
    BY <1>2 DEF Placed
  <2>3. /\ NativeFirst(pending) /\ Distinct(pending)
        /\ Yields(pending, admitted, requeued, preemption)
    BY <1>2 DEF NativeFirst, Distinct, Yields
  <2> QED
    BY <1>2, <2>1, <2>2, <2>3 DEF Sound
<1>4. LendersOwn /\ Busy
  BY DEF LendersOwn, LentOnce, Busy, NeverIdleWithWork, HeldIsRechecked
<1> QED
  BY <1>1, <1>3, <1>4 DEF QueueInv

\* QueueInv is kept by every step.
LEMMA QueueStep == QueueInv /\ [Next]_vars => QueueInv'
<1> SUFFICES ASSUME QueueInv, [Next]_vars PROVE QueueInv'
  OBVIOUS
<1>1. RestOK' /\ LendersOwn'
  BY RestStep, LendersOwnStep
<1>2. Sound(pc', pending', admitted', result', lent', requeued', preemption') /\ Busy'
  BY SoundStep DEF Stepped
<1> QED
  BY <1>1, <1>2 DEF QueueInv

\* The inductive invariant of the lending queue, for any number of requests,
\* any mix of own, borrowed and streaming ones, any models, depths and slots.
THEOREM QueueInvariant == Spec => []QueueInv
<1>1. Init => QueueInv
  BY InitQueue
<1>2. QueueInv /\ [Next]_vars => QueueInv'
  BY QueueStep
<1> QED
  BY <1>1, <1>2, PTL DEF Spec

\* Every entry is in one place and its handler hears one outcome that says
\* which; no place on the backend or at a helper outlives its handler.
THEOREM EntriesAccounted == Spec => []QueueIsSound
<1>1. QueueInv => QueueIsSound
  <2> SUFFICES ASSUME QueueInv PROVE QueueIsSound
    OBVIOUS
  <2>1. RestOK /\ Sound(pc, pending, admitted, result, lent, requeued, preemption)
    BY DEF QueueInv
  <2>2. /\ pending \in Seq(Jobs) /\ Distinct(pending) /\ admitted \in SUBSET Jobs
        /\ result \in [Jobs -> Outcome]
        /\ Placed(pc, pending, admitted, result, lent)
    BY <2>1 DEF Sound
  <2>3. TypeOK
    BY <2>1, <2>2 DEF RestOK, TypeOK
  <2>4. Entries = ToSet(pending) /\ ToSet(pending) \subseteq Jobs
    BY <2>2 DEF Entries, ToSet
  <2>5. Cardinality(Entries) = Len(pending)
    BY <2>2, <2>4, DistinctCount
  <2>6. ASSUME NEW j \in Jobs, pc[j] = "waiting"
        PROVE  CASE result[j] = "none"      -> j \in Entries /\ j \notin admitted \cup lent
                 [] result[j] = "admitted"  -> j \in admitted /\ j \notin Entries \cup lent
                 [] result[j] = "withdrawn" -> j \in lent /\ j \notin Entries \cup admitted
                 [] result[j] = "returned"  -> j \in Borrowed /\ j \notin Entries \cup admitted \cup lent
    BY <2>2, <2>4, <2>6 DEF Placed, Outcome
  <2>7. OneOutcome
    BY <2>5, <2>6 DEF OneOutcome
  <2>8. NoLeak
    BY <2>1, <2>2, <2>4 DEF NoLeak, Placed, RestOK
  <2> QED
    BY <2>3, <2>7, <2>8 DEF QueueIsSound
<1> QED
  BY <1>1, QueueInvariant, PTL

\* A request held for a helper never leaves the backend without work.
THEOREM BackendBusy == Spec => []NeverIdleWithWork
<1>1. QueueInv => NeverIdleWithWork
  BY DEF QueueInv, Busy
<1> QED
  BY <1>1, QueueInvariant, PTL

\* Room on the backend beside waiting requests is always due to a hold that
\* will be reconsidered.
THEOREM HoldsReconsidered == Spec => []HeldIsRechecked
<1>1. QueueInv => HeldIsRechecked
  BY DEF QueueInv, Busy
<1> QED
  BY <1>1, QueueInvariant, PTL

\* The node's own requests go before borrowed ones, in the queue and between
\* the queue and the runtime.
THEOREM OwnWorkWins == Spec => []OwnWorkHasPriority
<1>1. QueueInv => OwnWorkHasPriority
  BY DEF QueueInv, Sound, NativeFirst, Yields, OwnWorkHasPriority, OwnWorkFirst,
         BorrowedYields,
         Entries, ToSet
<1> QED
  BY <1>1, QueueInvariant, PTL

\* Only own, unpinned requests are lent, and none that was handed back.
THEOREM NeverLentTwice == Spec => []LentOnce
<1>1. QueueInv => LentOnce
  BY DEF QueueInv, LendersOwn
<1> QED
  BY <1>1, QueueInvariant, PTL

\* No step gives the backend more than the depth in force.
THEOREM DepthKept == Spec => AdmissionWithinDepth
<1>1. QueueInv /\ [Next]_vars =>
        [admitted' \subseteq admitted \/ Cardinality(admitted') <= depth']_vars
  BY SoundStep DEF Stepped
<1> QED
  BY <1>1, QueueInvariant, PTL DEF Spec, AdmissionWithinDepth

\* The requests of a model are no more in a smaller book.
LEMMA LentCountMonotone ==
    ASSUME NEW a \in SUBSET Jobs, NEW b \in SUBSET a, NEW m
    PROVE  /\ LentCount(m, a) \in Nat
           /\ LentCount(m, b) \in Nat
           /\ LentCount(m, b) <= LentCount(m, a)
<1> DEFINE A == {j \in a : ModelOf[j] = m}
           B == {j \in b : ModelOf[j] = m}
<1>1. B \in SUBSET A /\ A \in SUBSET Jobs
  OBVIOUS
<1> HIDE DEF A, B
<1>2. IsFiniteSet(A) /\ IsFiniteSet(B) /\ Cardinality(B) <= Cardinality(A)
  BY <1>1, LendingAssumption, FS_Subset
<1>3. Cardinality(A) \in Nat /\ Cardinality(B) \in Nat
  BY <1>2, FS_CardinalityType
<1> QED
  BY <1>2, <1>3 DEF LentCount, A, B

\* One more request in the book is at most one more of its model and none of
\* another.
LEMMA LentCountAdd ==
    ASSUME NEW a \in SUBSET Jobs, NEW j \in Jobs, NEW m
    PROVE  /\ LentCount(m, a \cup {j}) <= LentCount(m, a) + 1
           /\ ModelOf[j] # m => LentCount(m, a \cup {j}) = LentCount(m, a)
<1> DEFINE A == {k \in a : ModelOf[k] = m}
           B == {k \in a \cup {j} : ModelOf[k] = m}
<1>1. IsFiniteSet(A)
  BY LendingAssumption, FS_Subset
<1>2. B = IF ModelOf[j] = m THEN A \cup {j} ELSE A
  OBVIOUS
<1> HIDE DEF A, B
<1>3. Cardinality(A \cup {j}) = IF j \in A THEN Cardinality(A) ELSE Cardinality(A) + 1
  BY <1>1, FS_AddElement
<1>4. Cardinality(A) \in Nat
  BY <1>1, FS_CardinalityType
<1>5. /\ Cardinality(B) <= Cardinality(A) + 1
      /\ (ModelOf[j] # m => Cardinality(B) = Cardinality(A))
  BY <1>2, <1>3, <1>4
<1> QED
  BY <1>5 DEF LentCount, A, B

\* Nothing but Lend adds to the book of lent requests.
LEMMA OnlyLendAdds == [Next]_vars => Lend \/ lent' \in SUBSET lent
<1> SUFFICES ASSUME [Next]_vars, ~Lend PROVE lent' \in SUBSET lent
  OBVIOUS
<1> USE DEF queueVars, dispatchVars
<1>1. ASSUME NEW j \in Jobs, EnqueueNative(j) PROVE lent' \in SUBSET lent
  BY <1>1 DEF EnqueueNative
<1>2. ASSUME NEW j \in Jobs, EnqueueBorrowed(j) PROVE lent' \in SUBSET lent
  BY <1>2 DEF EnqueueBorrowed
<1>3. ASSUME NEW j \in Jobs, RefuseBorrowed(j) PROVE lent' \in SUBSET lent
  BY <1>3 DEF RefuseBorrowed
<1>4. ASSUME NEW j \in Jobs, ReadAdmitted(j) PROVE lent' \in SUBSET lent
  BY <1>4 DEF ReadAdmitted
<1>5. ASSUME NEW j \in Jobs, ReadWithdrawn(j) PROVE lent' \in SUBSET lent
  BY <1>5 DEF ReadWithdrawn
<1>6. ASSUME NEW j \in Jobs, ReadReturned(j) PROVE lent' \in SUBSET lent
  BY <1>6 DEF ReadReturned, Finish
<1>7. ASSUME NEW j \in Jobs, Abandon(j) PROVE lent' \in SUBSET lent
  BY <1>7 DEF Abandon
<1>8. ASSUME NEW j \in Jobs, ReleaseAbandoned(j) PROVE lent' \in SUBSET lent
  BY <1>8 DEF ReleaseAbandoned, Finish
<1>9. ASSUME NEW j \in Jobs, Start(j) PROVE lent' \in SUBSET lent
  BY <1>9 DEF Start
<1>10. ASSUME NEW j \in Jobs, Complete(j) PROVE lent' \in SUBSET lent
  BY <1>10 DEF Complete, Finish
<1>11. ASSUME NEW j \in Jobs, Answered(j) PROVE lent' \in SUBSET lent
  BY <1>11 DEF Answered, Finish
<1>12. ASSUME NEW j \in Jobs, HandedBack(j) PROVE lent' \in SUBSET lent
  BY <1>12 DEF HandedBack
<1>13. ASSUME NEW j \in Jobs, Requeue(j) PROVE lent' \in SUBSET lent
  BY <1>13 DEF Requeue
<1>14. ASSUME NEW m \in Models, AcceptLease(m) PROVE lent' \in SUBSET lent
  BY <1>14 DEF AcceptLease
<1>15. ASSUME NEW m \in Models, ExpireLease(m) PROVE lent' \in SUBSET lent
  BY <1>15 DEF ExpireLease
<1>16. ASSUME NEW m \in Models, ClearLease(m) PROVE lent' \in SUBSET lent
  BY <1>16 DEF ClearLease
<1>17. ASSUME NEW m \in Models, BeginDispatch(m) PROVE lent' \in SUBSET lent
  BY <1>17 DEF BeginDispatch
<1>19. ASSUME EndDispatch PROVE lent' \in SUBSET lent
  BY <1>19 DEF EndDispatch
<1>20. ASSUME Readmit PROVE lent' \in SUBSET lent
  BY <1>20 DEF Readmit
<1>21. ASSUME NEW d \in 0..MaxDepth, SetDepth(d) PROVE lent' \in SUBSET lent
  BY <1>21 DEF SetDepth, UsableDepth
<1>22. CASE UNCHANGED vars
  BY <1>22 DEF vars
<1> QED
  BY <1>1, <1>2, <1>3, <1>4, <1>5, <1>6, <1>7, <1>8, <1>9,
     <1>10, <1>11, <1>12, <1>13, <1>14, <1>15, <1>16, <1>17, <1>19, <1>20, <1>21, <1>22
     DEF Next, JobNext, Read

\* A model's requests at helpers never grow past the slots of the lease that
\* the dispatcher read.
THEOREM SlotsKept == Spec => LendingWithinSlots
<1> DEFINE Bounded == \A m \in Models :
                LentCount(m, lent') > LentCount(m, lent) => LentCount(m, lent') <= slots
<1>1. QueueInv /\ [Next]_vars => [Bounded]_vars
  <2> SUFFICES ASSUME QueueInv, [Next]_vars, NEW m \in Models,
                      LentCount(m, lent') > LentCount(m, lent)
               PROVE  LentCount(m, lent') <= slots
    BY DEF Bounded
  <2>1. lent \in SUBSET Jobs /\ slots \in Nat /\ pending \in Seq(Jobs)
    BY DEF QueueInv, RestOK, Sound
  <2>2. LentCount(m, lent) \in Nat
    BY <2>1, LentCountMonotone
  <2>3. CASE lent' \in SUBSET lent
    BY <2>1, <2>3, LentCountMonotone
  <2>4. CASE Lend
    <3> DEFINE p == Newest(dispatching)
    <3>1. p \in DOMAIN pending /\ ModelOf[pending[p]] = dispatching
      BY <2>1, <2>4, NewestIsOne DEF Lend, Withdrawable
    <3>2. lent' = lent \cup {pending[p]} /\ LentCount(dispatching, lent) < slots
      BY <2>4 DEF Lend, HasSlot
    <3> HIDE DEF p
    <3>3. pending[p] \in Jobs
      BY <2>1, <3>1
    <3>4. LentCount(m, lent') <= LentCount(m, lent) + 1
      BY <2>1, <3>2, <3>3, LentCountAdd
    <3>5. CASE m = dispatching
      <4>1. lent' \in SUBSET Jobs /\ LentCount(m, lent') \in Nat
        BY <2>1, <3>2, <3>3, LentCountMonotone
      <4> QED
        BY <2>1, <2>2, <3>2, <3>4, <3>5, <4>1
    <3>6. CASE m # dispatching
      <4>1. LentCount(m, lent \cup {pending[p]}) = LentCount(m, lent)
        BY <2>1, <3>1, <3>3, <3>6, LentCountAdd
      <4> QED
        BY <2>2, <3>2, <4>1
    <3> QED
      BY <3>5, <3>6
  <2> QED
    BY <2>3, <2>4, OnlyLendAdds
<1> QED
  BY <1>1, QueueInvariant, PTL DEF Spec, LendingWithinSlots, Bounded
=============================================================================
