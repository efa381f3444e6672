------------------------ MODULE ClusterRegistryProofs ------------------------
(***************************************************************************)
(* The registry of nodes keeps one owner per node id and URL, gives models *)
(* of different content different public ids unless one is named like an   *)
(* index of the other, and counts the routes it has leased: for any slaves,*)
(* catalogs, requests and any interleaving of registrations, polls and     *)
(* refreshes, whose snapshots may be stale.                                *)
(*                                                                         *)
(* Two parts.  About the view: the groups of one base id are told apart by *)
(* the place of their first model, so the number of groups before a group  *)
(* is its own, and a name with an index determines both.  About the state: *)
(* whatever is carried to the registry is a snapshot its URL once had, so  *)
(* the nodes it shows are of those inputs.                                 *)
(***************************************************************************)
EXTENDS ClusterRegistry, TLAPS, FiniteSetTheorems, FunctionTheorems, SequenceTheorems, WellFoundedInduction

(* ------------------------------- public ids ------------------------------ *)
\* A set of natural numbers that is not empty has a least one.
LEMMA Least ==
    ASSUME NEW T, T \subseteq Nat, T # {}
    PROVE  \E x \in T : \A y \in T : x <= y
<1> DEFINE Less == OpToRel(<, Nat)
<1>1. PICK x \in T : \A y \in T : ~(<<y, x>> \in Less) BY NatLessThanWellFounded, WFMin
<1>2. \A y \in T : y < x => <<y, x>> \in Less BY DEF OpToRel
<1> HIDE DEF Less
<1>3. \A y \in T : ~(y < x) BY <1>1, <1>2
<1>4. \A y \in T : y \in Nat OBVIOUS
<1>5. \A y \in T : x <= y BY <1>3, <1>4
<1>6. QED BY <1>5

\* firstOf is the place of one of the group.
LEMMA FirstIsMember ==
    ASSUME NEW same, \A d \in same : d.rank \in Nat, NEW e \in same
    PROVE  /\ firstOf(same, modelIdentity(e.model)) \in Nat
           /\ \E d \in same : /\ modelIdentity(d.model) = modelIdentity(e.model)
                              /\ d.rank = firstOf(same, modelIdentity(e.model))
<1> DEFINE i == modelIdentity(e.model)
           group == {d \in same : modelIdentity(d.model) = i}
           ranks == {d.rank : d \in group}
<1>1. ranks \subseteq Nat /\ ranks # {} OBVIOUS
<1>2. \E r \in ranks : \A s \in ranks : r <= s BY <1>1, Least
<1>3. \E r \in ranks : \A d \in group : r <= d.rank BY <1>2
<1>4. firstOf(same, i) = CHOOSE r \in ranks : \A d \in group : r <= d.rank BY DEF firstOf
<1>5. firstOf(same, i) \in ranks BY <1>3, <1>4
<1>6. QED BY <1>1, <1>5

\* Where a place belongs to one candidate, it belongs to one group.
LEMMA FirstTells ==
    ASSUME NEW same, \A d \in same : d.rank \in Nat, \A d, e \in same : d.rank = e.rank => d = e,
           NEW c \in same, NEW d \in same,
           firstOf(same, modelIdentity(c.model)) = firstOf(same, modelIdentity(d.model))
    PROVE  modelIdentity(c.model) = modelIdentity(d.model)
    BY FirstIsMember

\* The groups before the one of x.
Before(same, x) ==
    {i \in {modelIdentity(e.model) : e \in same} : firstOf(same, i) < firstOf(same, modelIdentity(x.model))}

\* The groups that come before another are fewer.
LEMMA FewerBefore ==
    ASSUME NEW same, \A d \in same : d.rank \in Nat, \A d, e \in same : d.rank = e.rank => d = e,
           NEW c \in same, NEW d \in same,
           firstOf(same, modelIdentity(c.model)) < firstOf(same, modelIdentity(d.model))
    PROVE  /\ Cardinality(Before(same, c)) \in Nat /\ Cardinality(Before(same, d)) \in Nat
           /\ Cardinality(Before(same, c)) < Cardinality(Before(same, d))
<1> DEFINE ids == {modelIdentity(e.model) : e \in same}
           first(i) == firstOf(same, i)
           n == first(modelIdentity(d.model))
           B(x) == {i \in ids : first(i) < first(modelIdentity(x.model))}
<1>1. \A i \in ids : first(i) \in Nat BY FirstIsMember
<1>2. \A i, j \in ids : first(i) = first(j) => i = j
    <2>1. SUFFICES ASSUME NEW i \in ids, NEW j \in ids, first(i) = first(j) PROVE i = j OBVIOUS
    <2>2. PICK x \in same : i = modelIdentity(x.model) OBVIOUS
    <2>3. PICK y \in same : j = modelIdentity(y.model) OBVIOUS
    <2>4. QED BY <2>1, <2>2, <2>3, FirstTells
<1>3. modelIdentity(c.model) \in ids /\ modelIdentity(d.model) \in ids OBVIOUS
<1>4. n \in Nat BY <1>1, <1>3
<1>5. IsFiniteSet(B(d))
    <2> DEFINE f == [i \in B(d) |-> first(i)]
    <2>1. B(d) \subseteq ids OBVIOUS
    <2>2. \A i \in B(d) : first(i) \in 0 .. n BY <1>1, <1>4
    <2> HIDE DEF first, B
    <2>3. f \in [B(d) -> 0 .. n] BY <2>2
    <2>4. \A i, j \in B(d) : f[i] = f[j] => i = j BY <1>2, <2>1
    <2>5. f \in Injection(B(d), 0 .. n) BY <2>3, <2>4 DEF Injection, IsInjective
    <2>6. IsFiniteSet(0 .. n) BY <1>4, FS_Interval
    <2>7. QED BY <2>5, <2>6, FS_Injection
<1>6. B(c) \subseteq B(d)
    <2>1. SUFFICES ASSUME NEW i \in B(c) PROVE i \in B(d) OBVIOUS
    <2>2. first(i) \in Nat /\ first(modelIdentity(c.model)) \in Nat BY <1>1, <1>3
    <2>3. QED BY <1>4, <2>2
<1>7. modelIdentity(c.model) \in B(d) \ B(c)
    <2>1. first(modelIdentity(c.model)) \in Nat BY <1>1, <1>3
    <2>2. QED BY <1>3, <2>1
<1> HIDE DEF B
<1>8. IsFiniteSet(B(c)) /\ Cardinality(B(c)) <= Cardinality(B(d)) /\ Cardinality(B(c)) # Cardinality(B(d))
    BY <1>5, <1>6, <1>7, FS_Subset
<1>9. Cardinality(B(c)) \in Nat /\ Cardinality(B(d)) \in Nat BY <1>5, <1>8, FS_CardinalityType
<1>10. QED BY <1>8, <1>9 DEF B, Before

(* ------------------------- the inductive invariant ----------------------- *)
\* A snapshot that the node at u has or had.
Taken(s, u) == s.id \in CrIds[u] /\ s.url = u /\ s.models \in CrCatalogs[u]

\* The variables are made of the parts the actions name.
Shape ==
    /\ cr = [local |-> cr.local, nodes |-> cr.nodes, unhealthy |-> cr.unhealthy, busy |-> cr.busy, next |-> cr.next]
    /\ crf = [poll |-> crf.poll, register |-> crf.register, refresh |-> crf.refresh, apply |-> crf.apply,
              updates |-> crf.updates, calls |-> crf.calls, changes |-> crf.changes]
    /\ DOMAIN crf.poll = Urls /\ DOMAIN crf.register = Urls /\ DOMAIN crf.refresh = Urls
    /\ DOMAIN crs = Urls /\ DOMAIN crq = CrRequests

\* A slave has one of its ids and one of its catalogs.
SlavesKnown ==
    \A u \in Urls :
        /\ crs[u] = [id |-> crs[u].id, models |-> crs[u].models, up |-> crs[u].up, proto |-> crs[u].proto]
        /\ crs[u].id \in CrIds[u] /\ crs[u].models \in CrCatalogs[u]

\* What is carried is nothing or was taken from the slave; a round of the poll
\* has a question or an answer for every slave it has yet to apply.
FlightKnown ==
    /\ \A u \in Urls :
         /\ crf.register[u] = NoSnapshot \/ Taken(crf.register[u], u)
         /\ crf.refresh[u] = NoSnapshot \/ Taken(crf.refresh[u], u)
         /\ \/ crf.poll[u] = NoSnapshot \/ Taken(crf.poll[u], u)
            \/ crf.poll[u].id \in {"asked", "failed"}
    /\ crf.apply \in 0 .. Len(CrUrls)
    /\ crf.apply > 0 => \A i \in crf.apply .. Len(CrUrls) : crf.poll[CrUrls[i]] # NoSnapshot

\* A list the registry shows of itself, or of a node, is one of its own.
NodesKnown ==
    /\ cr.local \in CrLocals
    /\ \A n \in DOMAIN cr.nodes :
         \E u \in Urls : n \in CrIds[u] /\ cr.nodes[n].url = u /\ cr.nodes[n].models \in CrCatalogs[u]

IInv == Shape /\ SlavesKnown /\ FlightKnown /\ NodesKnown /\ OneOwner /\ BusyMatches

\* A candidate is told by its place: the places of two nodes do not overlap.
LEMMA CandidatesTold ==
    ASSUME CrInputs, IInv
    PROVE  \A c, d \in candidates(cr) :
               /\ c.rank \in Nat /\ c.model \in CrModels
               /\ c.rank = d.rank => c = d
<1> DEFINE own(i) == [node |-> LocalID, rank |-> i, model |-> cr.local[i], available |-> TRUE]
           of(n, i) == [node |-> n, rank |-> CrRank[n] + i, model |-> cr.nodes[n].models[i],
                        available |-> n \notin cr.unhealthy]
<1>1. \A c \in candidates(cr) : \/ \E i \in DOMAIN cr.local : c = own(i)
                               \/ \E n \in DOMAIN cr.nodes : \E i \in DOMAIN cr.nodes[n].models : c = of(n, i)
    BY DEF candidates
<1>2. \A i : own(i).rank = i /\ own(i).model = cr.local[i] OBVIOUS
<1>3. \A n, i : of(n, i).rank = CrRank[n] + i /\ of(n, i).model = cr.nodes[n].models[i] OBVIOUS
<1>4. ASSUME NEW ms \in CrLists
      PROVE  \A i \in DOMAIN ms : i \in Nat /\ 1 <= i /\ i <= CrWidth /\ ms[i] \in CrModels
    <2>1. ms \in Seq(CrModels) /\ Len(ms) <= CrWidth /\ CrWidth \in Nat BY DEF CrInputs
    <2>2. DOMAIN ms = 1 .. Len(ms) /\ Len(ms) \in Nat BY <2>1
    <2>3. QED BY <2>1, <2>2
<1>5. cr.local \in CrLists BY DEF IInv, NodesKnown, CrLists
<1>6. \A n \in DOMAIN cr.nodes : cr.nodes[n].models \in CrLists BY DEF IInv, NodesKnown, CrLists
<1>7. /\ CrWidth \in Nat
      /\ \A n \in DOMAIN cr.nodes : CrRank[n] \in Nat /\ CrRank[n] >= CrWidth
      /\ \A m, n \in DOMAIN cr.nodes :
            m # n => CrRank[m] + CrWidth <= CrRank[n] \/ CrRank[n] + CrWidth <= CrRank[m]
    BY DEF IInv, NodesKnown, CrInputs
<1>8. \A i \in DOMAIN cr.local : i \in Nat /\ 1 <= i /\ i <= CrWidth /\ cr.local[i] \in CrModels BY <1>4, <1>5
<1>9. \A n \in DOMAIN cr.nodes : \A i \in DOMAIN cr.nodes[n].models :
          i \in Nat /\ 1 <= i /\ i <= CrWidth /\ cr.nodes[n].models[i] \in CrModels
    BY <1>4, <1>6
<1> HIDE DEF own, of
<1>10. SUFFICES ASSUME NEW c \in candidates(cr), NEW d \in candidates(cr)
                PROVE  /\ c.rank \in Nat /\ c.model \in CrModels
                       /\ c.rank = d.rank => c = d
    OBVIOUS
<1>11. CASE \E i \in DOMAIN cr.local : c = own(i)
    <2>1. PICK i \in DOMAIN cr.local : c = own(i) BY <1>11
    <2>2. c.rank = i /\ c.model = cr.local[i] BY <1>2, <2>1
    <2>3. i \in Nat /\ i <= CrWidth /\ cr.local[i] \in CrModels BY <1>8
    <2>4. ASSUME NEW k \in DOMAIN cr.local, d = own(k) PROVE c.rank = d.rank => c = d BY <1>2, <2>1, <2>2, <2>4
    <2>5. ASSUME NEW n \in DOMAIN cr.nodes, NEW k \in DOMAIN cr.nodes[n].models, d = of(n, k) PROVE c.rank # d.rank
        <3>1. d.rank = CrRank[n] + k BY <1>3, <2>5
        <3>2. k \in Nat /\ 1 <= k /\ CrRank[n] \in Nat /\ CrRank[n] >= CrWidth BY <1>7, <1>9
        <3>3. QED BY <1>7, <2>2, <2>3, <3>1, <3>2
    <2>6. QED BY <1>1, <2>2, <2>3, <2>4, <2>5
<1>12. CASE \E n \in DOMAIN cr.nodes : \E i \in DOMAIN cr.nodes[n].models : c = of(n, i)
    <2>1. PICK n \in DOMAIN cr.nodes : \E i \in DOMAIN cr.nodes[n].models : c = of(n, i) BY <1>12
    <2>2. PICK i \in DOMAIN cr.nodes[n].models : c = of(n, i) BY <2>1
    <2>3. c.rank = CrRank[n] + i /\ c.model = cr.nodes[n].models[i] BY <1>3, <2>2
    <2>4. /\ i \in Nat /\ 1 <= i /\ i <= CrWidth /\ cr.nodes[n].models[i] \in CrModels
          /\ CrRank[n] \in Nat /\ CrRank[n] >= CrWidth
        BY <1>7, <1>9
    <2>5. ASSUME NEW k \in DOMAIN cr.local, d = own(k) PROVE c.rank # d.rank
        <3>1. d.rank = k /\ k \in Nat /\ k <= CrWidth BY <1>2, <1>8, <2>5
        <3>2. QED BY <1>7, <2>3, <2>4, <3>1
    <2>6. ASSUME NEW m \in DOMAIN cr.nodes, NEW k \in DOMAIN cr.nodes[m].models, d = of(m, k), c.rank = d.rank
          PROVE  c = d
        <3>1. d.rank = CrRank[m] + k BY <1>3, <2>6
        <3>2. k \in Nat /\ 1 <= k /\ k <= CrWidth /\ CrRank[m] \in Nat BY <1>7, <1>9
        <3>3. CrRank[n] + i = CrRank[m] + k BY <2>3, <2>6, <3>1
        <3>4. m = n
            <4>1. ~(CrRank[m] + CrWidth <= CrRank[n]) BY <1>7, <2>4, <3>2, <3>3
            <4>2. ~(CrRank[n] + CrWidth <= CrRank[m]) BY <1>7, <2>4, <3>2, <3>3
            <4>3. QED BY <1>7, <4>1, <4>2
        <3>5. i = k BY <2>4, <3>2, <3>3, <3>4
        <3>6. QED BY <2>2, <2>6, <3>4, <3>5
    <2>7. c.rank \in Nat /\ c.model \in CrModels BY <2>3, <2>4
    <2>8. QED BY <1>1, <2>5, <2>6, <2>7
<1>13. QED BY <1>1, <1>11, <1>12

\* Models of one base id and one number of groups before them are one group.
LEMMA RanksTell ==
    ASSUME CrInputs, IInv, NEW c \in candidates(cr), NEW d \in candidates(cr), c.model.id = d.model.id
    PROVE  /\ GroupRank(candidates(cr), c) \in Nat
           /\ GroupRank(candidates(cr), c) = GroupRank(candidates(cr), d)
                 => modelIdentity(c.model) = modelIdentity(d.model)
<1> DEFINE same == byBaseID(candidates(cr), c)
<1>1. same = byBaseID(candidates(cr), d) BY DEF byBaseID
<1>2. GroupRank(candidates(cr), c) = Cardinality(Before(same, c)) BY DEF GroupRank, Before
<1>3. GroupRank(candidates(cr), d) = Cardinality(Before(same, d)) BY <1>1 DEF GroupRank, Before
<1>4. c \in same /\ d \in same BY DEF byBaseID
<1>5. /\ \A e \in same : e.rank \in Nat
      /\ \A e, f \in same : e.rank = f.rank => e = f
    BY CandidatesTold DEF byBaseID
<1> HIDE DEF same
<1>6. /\ firstOf(same, modelIdentity(c.model)) \in Nat
      /\ firstOf(same, modelIdentity(d.model)) \in Nat
    BY <1>4, <1>5, FirstIsMember
<1>7. CASE firstOf(same, modelIdentity(c.model)) < firstOf(same, modelIdentity(d.model))
    BY <1>2, <1>3, <1>4, <1>5, <1>7, FewerBefore
<1>8. CASE firstOf(same, modelIdentity(d.model)) < firstOf(same, modelIdentity(c.model))
    BY <1>2, <1>3, <1>4, <1>5, <1>8, FewerBefore
<1>9. CASE firstOf(same, modelIdentity(c.model)) = firstOf(same, modelIdentity(d.model))
    <2>1. modelIdentity(c.model) = modelIdentity(d.model) BY <1>4, <1>5, <1>9, FirstTells
    <2>2. Cardinality(Before(same, c)) \in Nat
        <3>1. CASE \E e \in same : firstOf(same, modelIdentity(e.model)) < firstOf(same, modelIdentity(c.model))
            BY <1>4, <1>5, <3>1, FewerBefore
        <3>2. CASE ~\E e \in same : firstOf(same, modelIdentity(e.model)) < firstOf(same, modelIdentity(c.model))
            <4>1. Before(same, c) = {} BY <3>2 DEF Before
            <4>2. QED BY <4>1, FS_EmptySet
        <3>3. QED BY <3>1, <3>2
    <2>3. QED BY <1>2, <2>1, <2>2
<1>10. QED BY <1>6, <1>7, <1>8, <1>9

\* A name and its index are told from the name with the index.
LEMMA IndexTells ==
    ASSUME CrInputs, NEW m \in CrModels, NEW n \in CrModels, NEW j \in Nat, NEW k \in Nat,
           Append(m.id, j + 1) = Append(n.id, k + 1)
    PROVE  m.id = n.id /\ j = k
<1> DEFINE x == m.id
           y == n.id
<1>1. x \in Seq(Nat) /\ y \in Seq(Nat) BY DEF CrInputs
<1>2. j + 1 \in Nat /\ k + 1 \in Nat OBVIOUS
<1>3. Append(x, j + 1) = Append(y, k + 1) OBVIOUS
<1> HIDE DEF x, y
<1>4. x = y /\ j + 1 = k + 1
    <2>1. ASSUME NEW e \in Nat, NEW f \in Nat, NEW s \in Seq(Nat), NEW q \in Seq(Nat), Append(s, e) = Append(q, f)
          PROVE  s = q /\ e = f
        BY <2>1, AppendInjective
    <2>2. QED BY <1>1, <1>2, <1>3, <2>1, Zenon
<1>5. QED BY <1>4 DEF x, y

\* Two models of one public id are of one content, or one of the two is called so.
LEMMA SharedNames ==
    ASSUME CrInputs, IInv, NEW c \in candidates(cr), NEW d \in candidates(cr),
           assignPublicID(candidates(cr), c) = assignPublicID(candidates(cr), d),
           c.model.hash # d.model.hash
    PROVE  /\ c.model \in CrModels /\ d.model \in CrModels
           /\ \/ /\ assignPublicID(candidates(cr), c) = c.model.id /\ assignPublicID(candidates(cr), d) # d.model.id
                 /\ \E k \in Nat : c.model.id = Append(d.model.id, k)
              \/ /\ assignPublicID(candidates(cr), d) = d.model.id /\ assignPublicID(candidates(cr), c) # c.model.id
                 /\ \E k \in Nat : d.model.id = Append(c.model.id, k)
<1> DEFINE cands == candidates(cr)
           j == GroupRank(cands, c)
           k == GroupRank(cands, d)
           x == c.model.id
           y == d.model.id
<1>1. c.model \in CrModels /\ d.model \in CrModels BY CandidatesTold
<1>2. j \in Nat /\ k \in Nat BY RanksTell
<1>3. x \in Seq(Nat) /\ y \in Seq(Nat) BY <1>1 DEF CrInputs
<1>4. ~(x = y /\ j = k) BY RanksTell DEF modelIdentity
<1>5. /\ assignPublicID(cands, c) = IF j = 0 THEN x ELSE Append(x, j + 1)
      /\ assignPublicID(cands, d) = IF k = 0 THEN y ELSE Append(y, k + 1)
    BY DEF assignPublicID
<1>6. Append(x, j + 1) = Append(y, k + 1) => x = y /\ j = k
    <2> DEFINE m == c.model
               n == d.model
    <2>1. m \in CrModels /\ n \in CrModels BY <1>1
    <2> HIDE DEF m, n, j, k
    <2>2. Append(m.id, j + 1) = Append(n.id, k + 1) => m.id = n.id /\ j = k BY <1>2, <2>1, IndexTells
    <2>3. QED BY <2>2 DEF m, n
<1> HIDE DEF cands, j, k, x, y
<1>7. j + 1 \in Nat /\ k + 1 \in Nat BY <1>2
<1>8. \A q \in Seq(Nat) : \A e \in Nat : Append(q, e) # q
    <2>1. SUFFICES ASSUME NEW q \in Seq(Nat), NEW e \in Nat PROVE Append(q, e) # q OBVIOUS
    <2>2. Len(Append(q, e)) = Len(q) + 1 /\ Len(q) \in Nat BY AppendProperties
    <2>3. QED BY <2>2
<1>9. assignPublicID(cands, c) = assignPublicID(cands, d) BY DEF cands
<1>10. CASE j = 0 /\ k = 0 BY <1>4, <1>5, <1>9, <1>10
<1>11. CASE j = 0 /\ k # 0
    <2>1. assignPublicID(cands, c) = x /\ assignPublicID(cands, d) = Append(y, k + 1) BY <1>5, <1>11
    <2>2. x = Append(y, k + 1) BY <1>9, <2>1
    <2>3. Append(y, k + 1) # y BY <1>3, <1>7, <1>8
    <2>4. \E i \in Nat : x = Append(y, i) BY <1>7, <2>2
    <2>5. QED BY <1>1, <2>1, <2>3, <2>4 DEF cands, x, y
<1>12. CASE j # 0 /\ k = 0
    <2>1. assignPublicID(cands, d) = y /\ assignPublicID(cands, c) = Append(x, j + 1) BY <1>5, <1>12
    <2>2. y = Append(x, j + 1) BY <1>9, <2>1
    <2>3. Append(x, j + 1) # x BY <1>3, <1>7, <1>8
    <2>4. \E i \in Nat : y = Append(x, i) BY <1>7, <2>2
    <2>5. QED BY <1>1, <2>1, <2>3, <2>4 DEF cands, x, y
<1>13. CASE j # 0 /\ k # 0
    <2>1. Append(x, j + 1) = Append(y, k + 1) BY <1>5, <1>9, <1>13
    <2>2. QED BY <1>4, <1>6, <2>1
<1>14. QED BY <1>10, <1>11, <1>12, <1>13

LEMMA PublicTells ==
    ASSUME CrInputs, IInv PROVE SamePublicSameContent /\ (NoIndexedNames => PublicTellsContent)
<1> DEFINE cands == candidates(cr)
           entry(c) == [pub |-> assignPublicID(cands, c), node |-> c.node, rank |-> c.rank, model |-> c.model,
                        available |-> c.available]
<1>1. view(cr) = {entry(c) : c \in cands} BY DEF view
<1>2. \A c : entry(c).pub = assignPublicID(cands, c) /\ entry(c).model = c.model OBVIOUS
<1> HIDE DEF entry
<1>3. SamePublicSameContent
    <2>1. SUFFICES ASSUME NEW c \in cands, NEW d \in cands, assignPublicID(cands, c) = assignPublicID(cands, d),
                          c.model.hash # d.model.hash
                   PROVE  (assignPublicID(cands, c) = c.model.id) # (assignPublicID(cands, d) = d.model.id)
        BY <1>1, <1>2 DEF SamePublicSameContent
    <2>2. QED BY <2>1, SharedNames
<1>4. ASSUME NoIndexedNames PROVE PublicTellsContent
    <2>1. SUFFICES ASSUME NEW c \in cands, NEW d \in cands, assignPublicID(cands, c) = assignPublicID(cands, d),
                          c.model.hash # d.model.hash
                   PROVE  FALSE
        BY <1>1, <1>2 DEF PublicTellsContent
    <2>2. /\ c.model \in CrModels /\ d.model \in CrModels
          /\ \/ \E k \in Nat : c.model.id = Append(d.model.id, k)
             \/ \E k \in Nat : d.model.id = Append(c.model.id, k)
        BY <2>1, SharedNames
    <2>3. QED BY <1>4, <2>2 DEF NoIndexedNames
<1>5. QED BY <1>3, <1>4

(* --------------------------------- routes -------------------------------- *)
\* The requests that hold a route of key k, where qs says which route each holds.
Holders(qs, k) == {r \in CrRequests : qs[r] # NoRoute /\ routeKey(qs[r]) = k}

\* BusyMatches, key by key.
Counted(busy, qs) ==
    /\ \A k : k \in DOMAIN busy <=> Holders(qs, k) # {}
    /\ \A k \in DOMAIN busy : busy[k] = Cardinality(Holders(qs, k))

LEMMA BusyIsCounted == (BusyMatches <=> Counted(cr.busy, crq)) /\ (BusyMatches' <=> Counted(cr'.busy, crq'))
<1>1. ASSUME NEW busy, NEW qs
      PROVE  LET keys == {routeKey(qs[r]) : r \in {q \in CrRequests : qs[q] # NoRoute}}
             IN  (/\ DOMAIN busy = keys
                  /\ \A k \in keys : busy[k] = Cardinality({r \in CrRequests : qs[r] # NoRoute /\ routeKey(qs[r]) = k}))
                 <=> Counted(busy, qs)
    <2> DEFINE keys == {routeKey(qs[r]) : r \in {q \in CrRequests : qs[q] # NoRoute}}
    <2>1. \A k : k \in keys <=> Holders(qs, k) # {} BY DEF Holders
    <2>2. (DOMAIN busy = keys) <=> \A k : k \in DOMAIN busy <=> Holders(qs, k) # {} BY <2>1
    <2>3. \A k : Holders(qs, k) = {r \in CrRequests : qs[r] # NoRoute /\ routeKey(qs[r]) = k} BY DEF Holders
    <2> HIDE DEF keys
    <2>4. (DOMAIN busy = keys /\ \A k \in keys : busy[k] = Cardinality(Holders(qs, k))) <=> Counted(busy, qs)
        BY <2>2 DEF Counted
    <2>5. QED BY <2>3, <2>4 DEF keys
<1>2. QED BY <1>1 DEF BusyMatches

LEMMA HoldersFinite ==
    ASSUME CrInputs, NEW qs, NEW k
    PROVE  IsFiniteSet(Holders(qs, k)) /\ Cardinality(Holders(qs, k)) \in Nat
<1>1. IsFiniteSet(Holders(qs, k)) BY FS_Subset DEF Holders, CrInputs
<1>2. QED BY <1>1, FS_CardinalityType

\* The load of a key is the number of its holders.
LEMMA LoadIsHolders ==
    ASSUME IInv, NEW k PROVE BusyOf(cr, k) = Cardinality(Holders(crq, k))
<1>1. /\ k \in DOMAIN cr.busy <=> Holders(crq, k) # {}
      /\ k \in DOMAIN cr.busy => cr.busy[k] = Cardinality(Holders(crq, k))
    BY BusyIsCounted DEF IInv, Counted
<1>2. Holders(crq, k) = {} => Cardinality(Holders(crq, k)) = 0 BY FS_EmptySet
<1>3. QED BY <1>1, <1>2 DEF BusyOf

\* Where the leases and the load stay, they still match.
LEMMA BusyStays ==
    ASSUME IInv, cr'.busy = cr.busy, UNCHANGED crq PROVE BusyMatches'
    BY DEF IInv, BusyMatches

LEMMA AcquireBusy ==
    ASSUME CrInputs, IInv, NEW r \in CrRequests, crq[r] = NoRoute, NEW route, route # NoRoute,
           cr'.busy = With(cr.busy, routeKey(route), BusyOf(cr, routeKey(route)) + 1),
           crq' = [crq EXCEPT ![r] = route]
    PROVE  BusyMatches'
<1> DEFINE k == routeKey(route)
<1>1. \A q \in CrRequests : crq'[q] = IF q = r THEN route ELSE crq[q] BY DEF IInv, Shape
<1>2. r \notin Holders(crq, k) /\ Holders(crq', k) = Holders(crq, k) \cup {r} BY <1>1 DEF Holders
<1>3. \A j : j # k => Holders(crq', j) = Holders(crq, j) BY <1>1 DEF Holders
<1>4. IsFiniteSet(Holders(crq, k)) BY HoldersFinite
<1>5. Counted(cr.busy, crq) BY BusyIsCounted DEF IInv
<1>6. BusyOf(cr, k) = Cardinality(Holders(crq, k)) BY LoadIsHolders
<1> HIDE DEF k
<1>7. Cardinality(Holders(crq', k)) = Cardinality(Holders(crq, k)) + 1 BY <1>2, <1>4, FS_AddElement
<1>8. cr'.busy = [j \in DOMAIN cr.busy \cup {k} |-> IF j = k THEN BusyOf(cr, k) + 1 ELSE cr.busy[j]]
    BY DEF With, k
<1>9. \A j : j \in DOMAIN cr'.busy <=> Holders(crq', j) # {} BY <1>2, <1>3, <1>5, <1>8 DEF Counted
<1>10. ASSUME NEW j \in DOMAIN cr'.busy PROVE cr'.busy[j] = Cardinality(Holders(crq', j))
    <2>1. CASE j = k BY <1>6, <1>7, <1>8, <2>1
    <2>2. CASE j # k BY <1>3, <1>5, <1>8, <1>10, <2>2 DEF Counted
    <2>3. QED BY <2>1, <2>2
<1>11. QED BY <1>9, <1>10, BusyIsCounted DEF Counted

LEMMA ReleaseBusy ==
    ASSUME CrInputs, IInv, NEW r \in CrRequests, Release(r)
    PROVE  BusyMatches'
<1> DEFINE k == routeKey(crq[r])
<1>1. /\ crq[r] # NoRoute /\ crq' = [crq EXCEPT ![r] = NoRoute]
      /\ cr' = [cr EXCEPT !.busy = IF BusyOf(cr, k) > 1 THEN With(@, k, BusyOf(cr, k) - 1) ELSE Without(@, k)]
    BY DEF Release
<1>2. \A q \in CrRequests : crq'[q] = IF q = r THEN NoRoute ELSE crq[q] BY <1>1 DEF IInv, Shape
<1>3. r \in Holders(crq, k) /\ Holders(crq', k) = Holders(crq, k) \ {r} BY <1>1, <1>2 DEF Holders
<1>4. \A j : j # k => Holders(crq', j) = Holders(crq, j) BY <1>2 DEF Holders
<1>5. IsFiniteSet(Holders(crq, k)) /\ Cardinality(Holders(crq, k)) \in Nat BY HoldersFinite
<1>6. IsFiniteSet(Holders(crq', k)) /\ Cardinality(Holders(crq', k)) \in Nat BY HoldersFinite
<1>7. Counted(cr.busy, crq) BY BusyIsCounted DEF IInv
<1>8. BusyOf(cr, k) = Cardinality(Holders(crq, k)) BY LoadIsHolders
<1>9. cr'.busy = IF BusyOf(cr, k) > 1 THEN With(cr.busy, k, BusyOf(cr, k) - 1) ELSE Without(cr.busy, k)
    <2> DEFINE B == IF BusyOf(cr, k) > 1 THEN With(cr.busy, k, BusyOf(cr, k) - 1) ELSE Without(cr.busy, k)
    <2>1. cr' = [cr EXCEPT !.busy = B] BY <1>1
    <2> HIDE DEF B
    <2>2. cr'.busy = B BY <2>1 DEF IInv, Shape
    <2>3. QED BY <2>2 DEF B
<1> HIDE DEF k
<1>10. Cardinality(Holders(crq', k)) = Cardinality(Holders(crq, k)) - 1 BY <1>3, <1>5, FS_RemoveElement
<1>11. k \in DOMAIN cr.busy /\ cr.busy[k] = Cardinality(Holders(crq, k)) BY <1>3, <1>7 DEF Counted
<1>12. CASE BusyOf(cr, k) > 1
    <2>1. cr'.busy = [j \in DOMAIN cr.busy \cup {k} |-> IF j = k THEN BusyOf(cr, k) - 1 ELSE cr.busy[j]]
        BY <1>9, <1>12 DEF With
    <2>2. Holders(crq', k) # {}
        <3>1. Cardinality(Holders(crq', k)) # 0 BY <1>5, <1>8, <1>10, <1>12
        <3>2. QED BY <3>1, FS_EmptySet
    <2>3. \A j : j \in DOMAIN cr'.busy <=> Holders(crq', j) # {} BY <1>4, <1>7, <1>11, <2>1, <2>2 DEF Counted
    <2>4. ASSUME NEW j \in DOMAIN cr'.busy PROVE cr'.busy[j] = Cardinality(Holders(crq', j))
        <3>1. CASE j = k BY <1>8, <1>10, <1>11, <2>1, <3>1
        <3>2. CASE j # k BY <1>4, <1>7, <2>1, <2>4, <3>2 DEF Counted
        <3>3. QED BY <3>1, <3>2
    <2>5. QED BY <2>3, <2>4, BusyIsCounted DEF Counted
<1>13. CASE ~(BusyOf(cr, k) > 1)
    <2>1. cr'.busy = [j \in DOMAIN cr.busy \ {k} |-> cr.busy[j]] BY <1>9, <1>13 DEF Without
    <2>2. Cardinality(Holders(crq', k)) = 0 BY <1>5, <1>6, <1>8, <1>10, <1>13
    <2>3. Holders(crq', k) = {} BY <1>6, <2>2, FS_EmptySet
    <2>4. \A j : j \in DOMAIN cr'.busy <=> Holders(crq', j) # {} BY <1>4, <1>7, <2>1, <2>3 DEF Counted
    <2>5. \A j \in DOMAIN cr'.busy : cr'.busy[j] = Cardinality(Holders(crq', j))
        BY <1>4, <1>7, <2>1 DEF Counted
    <2>6. QED BY <2>4, <2>5, BusyIsCounted DEF Counted
<1>14. QED BY <1>12, <1>13

(* ------------------------------ the registry ----------------------------- *)
\* What an update of the registry keeps.
RegistryKept ==
    /\ cr' = [local |-> cr'.local, nodes |-> cr'.nodes, unhealthy |-> cr'.unhealthy, busy |-> cr'.busy,
              next |-> cr'.next]
    /\ cr'.busy = cr.busy /\ NodesKnown' /\ OneOwner'

\* The same of a registry on the way to the next state.
Kept(reg) ==
    /\ reg = [local |-> reg.local, nodes |-> reg.nodes, unhealthy |-> reg.unhealthy, busy |-> reg.busy,
              next |-> reg.next]
    /\ reg.busy = cr.busy /\ reg.local \in CrLocals
    /\ \A n \in DOMAIN reg.nodes :
         \E u \in Urls : n \in CrIds[u] /\ reg.nodes[n].url = u /\ reg.nodes[n].models \in CrCatalogs[u]
    /\ LocalID \notin DOMAIN reg.nodes
    /\ \A m, n \in DOMAIN reg.nodes : m # n => reg.nodes[m].url # reg.nodes[n].url

LEMMA KeptIsKept == ASSUME NEW reg, Kept(reg), cr' = reg PROVE RegistryKept
    BY DEF Kept, RegistryKept, NodesKnown, OneOwner

LEMMA NowIsKept == ASSUME IInv PROVE Kept(cr)
    BY DEF IInv, Shape, NodesKnown, OneOwner, Kept

\* A snapshot is taken over only if nobody else has its id or its URL.
LEMMA UpdateKept ==
    ASSUME IInv, NEW u \in Urls, NEW s, Taken(s, u)
    PROVE  Kept(UpdateNode(cr, s))
<1>1. CASE Incompatible(s) \/ Duplicate(cr, s) BY <1>1, NowIsKept DEF UpdateNode
<1>2. CASE ~(Incompatible(s) \/ Duplicate(cr, s))
    <2> DEFINE rec == normalizeNodeSnapshot(s)
               nodes == With(cr.nodes, s.id, rec)
               reg == UpdateNode(cr, s)
    <2>1. reg = [cr EXCEPT !.nodes = nodes, !.unhealthy = @ \ {s.id}]
        BY <1>2 DEF UpdateNode
    <2>2. /\ s.id # LocalID
          /\ s.id \in DOMAIN cr.nodes => cr.nodes[s.id].url = s.url
          /\ \A n \in DOMAIN cr.nodes : n # s.id => cr.nodes[n].url # s.url
        BY <1>2 DEF Duplicate
    <2>3. rec.url = u /\ rec.models = s.models /\ s.url = u /\ s.id \in CrIds[u] /\ s.models \in CrCatalogs[u]
        BY DEF Taken, normalizeNodeSnapshot
    <2> HIDE DEF rec
    <2>4. nodes = [n \in DOMAIN cr.nodes \cup {s.id} |-> IF n = s.id THEN rec ELSE cr.nodes[n]] BY DEF With
    <2> HIDE DEF nodes, reg
    <2>5. /\ reg = [local |-> reg.local, nodes |-> reg.nodes, unhealthy |-> reg.unhealthy, busy |-> reg.busy,
                    next |-> reg.next]
          /\ reg.busy = cr.busy /\ reg.local = cr.local /\ reg.nodes = nodes
        BY <2>1 DEF IInv, Shape
    <2>6. /\ reg.local \in CrLocals
          /\ \A n \in DOMAIN reg.nodes :
               \E v \in Urls : n \in CrIds[v] /\ reg.nodes[n].url = v /\ reg.nodes[n].models \in CrCatalogs[v]
        BY <2>3, <2>4, <2>5 DEF IInv, NodesKnown
    <2>7. /\ LocalID \notin DOMAIN reg.nodes
          /\ \A m, n \in DOMAIN reg.nodes : m # n => reg.nodes[m].url # reg.nodes[n].url
        BY <2>2, <2>3, <2>4, <2>5 DEF IInv, OneOwner
    <2>8. QED BY <2>5, <2>6, <2>7 DEF Kept, reg
<1>3. QED BY <1>1, <1>2

LEMMA UpdateKeeps ==
    ASSUME IInv, NEW u \in Urls, NEW s, Taken(s, u), cr' = UpdateNode(cr, s)
    PROVE  RegistryKept
    BY UpdateKept, KeptIsKept

\* Health is not ownership.
LEMMA MarkKept ==
    ASSUME NEW reg, Kept(reg), NEW u
    PROVE  Kept(MarkNodeURLUnhealthy(reg, u))
<1> DEFINE bad == reg.unhealthy \cup {n \in DOMAIN reg.nodes : reg.nodes[n].url = u}
           now == MarkNodeURLUnhealthy(reg, u)
<1>1. now = [reg EXCEPT !.unhealthy = bad] BY DEF MarkNodeURLUnhealthy
<1>2. reg = [local |-> reg.local, nodes |-> reg.nodes, unhealthy |-> reg.unhealthy, busy |-> reg.busy,
             next |-> reg.next]
    BY DEF Kept
<1> HIDE DEF bad, now
<1>3. /\ now = [local |-> now.local, nodes |-> now.nodes, unhealthy |-> now.unhealthy, busy |-> now.busy,
                next |-> now.next]
      /\ now.busy = reg.busy /\ now.local = reg.local /\ now.nodes = reg.nodes
    BY <1>1, <1>2
<1>4. Kept(now) BY <1>3 DEF Kept
<1>5. QED BY <1>4 DEF now

LEMMA MarkKeeps ==
    ASSUME IInv, NEW u, cr' = MarkNodeURLUnhealthy(cr, u)
    PROVE  RegistryKept
    BY NowIsKept, MarkKept, KeptIsKept

LEMMA SameKeeps == ASSUME IInv, UNCHANGED cr PROVE RegistryKept
    BY DEF IInv, Shape, NodesKnown, OneOwner, RegistryKept

\* What is carried stays of the shape it has.
FlightShape ==
    /\ crf' = [poll |-> crf'.poll, register |-> crf'.register, refresh |-> crf'.refresh, apply |-> crf'.apply,
               updates |-> crf'.updates, calls |-> crf'.calls, changes |-> crf'.changes]
    /\ DOMAIN crf'.poll = Urls /\ DOMAIN crf'.register = Urls /\ DOMAIN crf'.refresh = Urls

\* The parts of a step put together.
LEMMA StepKeeps ==
    ASSUME IInv, RegistryKept, FlightShape, FlightKnown', UNCHANGED crq,
           DOMAIN crs' = Urls, SlavesKnown'
    PROVE  IInv'
<1>1. BusyMatches' BY BusyStays DEF RegistryKept
<1>2. Shape' BY DEF IInv, Shape, RegistryKept, FlightShape
<1>3. QED BY <1>1, <1>2 DEF IInv, RegistryKept

LEMMA SlavesStay == ASSUME IInv, UNCHANGED crs PROVE DOMAIN crs' = Urls /\ SlavesKnown'
    BY DEF IInv, Shape, SlavesKnown

\* The flight where only the counters move.
LEMMA FlightStays ==
    ASSUME IInv,
           crf'.poll = crf.poll, crf'.register = crf.register, crf'.refresh = crf.refresh, crf'.apply = crf.apply,
           crf' = [poll |-> crf'.poll, register |-> crf'.register, refresh |-> crf'.refresh, apply |-> crf'.apply,
                   updates |-> crf'.updates, calls |-> crf'.calls, changes |-> crf'.changes]
    PROVE  FlightShape /\ FlightKnown'
    BY DEF IInv, Shape, FlightKnown, FlightShape, Taken

\* A snapshot of a slave is one of its own, and not one of the words for none.
LEMMA SnapshotTaken == ASSUME IInv, NEW u \in Urls PROVE Taken(Snapshot(u), u)
    BY DEF IInv, SlavesKnown, Taken, Snapshot

LEMMA TakenIsSome ==
    ASSUME CrInputs, NEW u \in Urls, NEW s, Taken(s, u)
    PROVE  s # NoSnapshot /\ s.id \notin {"none", "asked", "failed"}
    BY DEF CrInputs, Taken, NoSnapshot

(* ---------------------------------- poll --------------------------------- *)
\* The URLs in order, each at one place.
LEMMA UrlsInOrder ==
    ASSUME CrInputs
    PROVE  /\ Len(CrUrls) \in Nat
           /\ \A i \in 1 .. Len(CrUrls) : CrUrls[i] \in Urls
           /\ \A i, j \in 1 .. Len(CrUrls) : CrUrls[i] = CrUrls[j] => i = j
<1>1. CrUrls \in Seq(Urls) BY DEF CrInputs
<1>2. DOMAIN CrUrls = 1 .. Len(CrUrls) /\ Len(CrUrls) \in Nat BY <1>1
<1>3. QED BY <1>1, <1>2 DEF CrInputs

LEMMA SyncBeginKeeps == ASSUME CrInputs, IInv, SyncBegin PROVE IInv'
<1> DEFINE asked == [u \in Urls |-> [id |-> "asked"]]
<1>1. /\ crf' = [crf EXCEPT !.apply = 1, !.poll = asked] /\ UNCHANGED <<cr, crs, crq>> BY DEF SyncBegin
<1>2. \A u \in Urls : asked[u].id = "asked" /\ asked[u] # NoSnapshot BY DEF NoSnapshot
<1>3. DOMAIN asked = Urls OBVIOUS
<1> HIDE DEF asked
<1>4. /\ crf' = [poll |-> asked, register |-> crf.register, refresh |-> crf.refresh, apply |-> 1,
                 updates |-> crf.updates, calls |-> crf.calls, changes |-> crf.changes]
    BY <1>1 DEF IInv, Shape
<1>5. FlightShape BY <1>3, <1>4 DEF IInv, Shape, FlightShape
<1>6. FlightKnown'
    <2>1. /\ crf'.poll = asked /\ crf'.register = crf.register /\ crf'.refresh = crf.refresh /\ crf'.apply = 1
        BY <1>4
    <2>2. \A i \in 1 .. Len(CrUrls) : CrUrls[i] \in Urls BY UrlsInOrder
    <2>3. 1 \in 0 .. Len(CrUrls)
        <3>1. CrUrls \in Seq(Urls) /\ CrUrls # <<>> BY DEF CrInputs, SyncBegin
        <3>2. Len(CrUrls) \in Nat /\ Len(CrUrls) # 0 BY <3>1, EmptySeq
        <3>3. QED BY <3>2
    <2>4. QED BY <2>3, <1>2, <2>1, <2>2 DEF IInv, FlightKnown, Taken
<1>7. QED BY <1>1, <1>5, <1>6, SameKeeps, SlavesStay, StepKeeps

LEMMA FetchKeeps == ASSUME CrInputs, IInv, NEW u \in Urls, fetchSlaveSnapshots(u) PROVE IInv'
<1> DEFINE s == IF crs[u].up THEN Snapshot(u) ELSE [id |-> "failed"]
<1>1. crf.poll[u].id = "asked" /\ crf' = [crf EXCEPT !.poll[u] = s] /\ UNCHANGED <<cr, crs, crq>>
    BY DEF fetchSlaveSnapshots, Carry
<1>2. s # NoSnapshot /\ (Taken(s, u) \/ s.id = "failed")
    <2>1. CASE crs[u].up BY <2>1, SnapshotTaken, TakenIsSome
    <2>2. CASE ~crs[u].up BY <2>2 DEF NoSnapshot
    <2>3. QED BY <2>1, <2>2
<1> HIDE DEF s
<1>3. crf' = [poll |-> [crf.poll EXCEPT ![u] = s], register |-> crf.register, refresh |-> crf.refresh,
              apply |-> crf.apply, updates |-> crf.updates, calls |-> crf.calls, changes |-> crf.changes]
    BY <1>1 DEF IInv, Shape
<1>4. FlightShape BY <1>3 DEF IInv, Shape, FlightShape
<1>5. FlightKnown'
    <2>1. /\ crf'.register = crf.register /\ crf'.refresh = crf.refresh /\ crf'.apply = crf.apply
          /\ \A v \in Urls : crf'.poll[v] = IF v = u THEN s ELSE crf.poll[v]
        BY <1>3 DEF IInv, Shape
    <2>2. \A i \in 1 .. Len(CrUrls) : CrUrls[i] \in Urls BY UrlsInOrder
    <2>3. \A v \in Urls : \/ crf'.poll[v] = NoSnapshot \/ Taken(crf'.poll[v], v)
                          \/ crf'.poll[v].id \in {"asked", "failed"}
        BY <1>2, <2>1 DEF IInv, FlightKnown
    <2>4. crf.apply > 0 => \A i \in crf.apply .. Len(CrUrls) : crf'.poll[CrUrls[i]] # NoSnapshot
        BY <1>2, <2>1, <2>2, UrlsInOrder DEF IInv, FlightKnown
    <2>5. QED BY <2>1, <2>3, <2>4 DEF IInv, FlightKnown, Taken
<1>6. QED BY <1>1, <1>4, <1>5, SameKeeps, SlavesStay, StepKeeps

\* The answer that is applied is there: an answer of its URL, or a failure.
LEMMA SyncKeeps == ASSUME CrInputs, IInv, syncSlaves PROVE IInv'
<1> DEFINE u == CrUrls[crf.apply]
           s == crf.poll[u]
           next == IF crf.apply = Len(CrUrls) THEN 0 ELSE crf.apply + 1
<1>1. /\ crf.apply > 0 /\ \A v \in Urls : crf.poll[v].id # "asked"
      /\ cr' = IF s.id = "failed" THEN MarkNodeURLUnhealthy(cr, u)
               ELSE IF Incompatible(s) \/ Duplicate(cr, s) THEN cr
               ELSE AcceptNodeURL(UpdateNode(cr, s), u)
      /\ crf' = [crf EXCEPT !.poll[u] = NoSnapshot, !.apply = next]
      /\ UNCHANGED <<crs, crq>>
    BY DEF syncSlaves
<1>2. crf.apply \in 1 .. Len(CrUrls) /\ Len(CrUrls) \in Nat BY <1>1, UrlsInOrder DEF IInv, FlightKnown
<1>3. u \in Urls BY <1>2, UrlsInOrder
<1>4. s # NoSnapshot BY <1>1, <1>2 DEF IInv, FlightKnown
<1>5. Taken(s, u) \/ s.id = "failed" BY <1>1, <1>3, <1>4 DEF IInv, FlightKnown
<1>6. /\ next \in 0 .. Len(CrUrls)
      /\ next > 0 => next = crf.apply + 1
    BY <1>2
<1>7. \A i \in 1 .. Len(CrUrls) : CrUrls[i] = u => i = crf.apply BY <1>2, UrlsInOrder
<1> HIDE DEF u, s, next
<1>8. crf' = [poll |-> [crf.poll EXCEPT ![u] = NoSnapshot], register |-> crf.register, refresh |-> crf.refresh,
              apply |-> next, updates |-> crf.updates, calls |-> crf.calls, changes |-> crf.changes]
    BY <1>1 DEF IInv, Shape
<1>9. FlightShape BY <1>8 DEF IInv, Shape, FlightShape
<1>10. FlightKnown'
    <2>1. /\ crf'.register = crf.register /\ crf'.refresh = crf.refresh /\ crf'.apply = next
          /\ \A v \in Urls : crf'.poll[v] = IF v = u THEN NoSnapshot ELSE crf.poll[v]
        BY <1>8 DEF IInv, Shape
    <2>2. \A i \in 1 .. Len(CrUrls) : CrUrls[i] \in Urls BY UrlsInOrder
    <2>3. \A v \in Urls : \/ crf'.poll[v] = NoSnapshot \/ Taken(crf'.poll[v], v)
                          \/ crf'.poll[v].id \in {"asked", "failed"}
        BY <2>1 DEF IInv, FlightKnown
    <2>4. next > 0 => \A i \in next .. Len(CrUrls) : crf'.poll[CrUrls[i]] # NoSnapshot
        <3>1. SUFFICES ASSUME next > 0, NEW i \in next .. Len(CrUrls) PROVE crf'.poll[CrUrls[i]] # NoSnapshot
            OBVIOUS
        <3>2. i \in 1 .. Len(CrUrls) /\ i \in crf.apply .. Len(CrUrls) /\ i # crf.apply BY <1>2, <1>6, <3>1
        <3>3. CrUrls[i] # u /\ CrUrls[i] \in Urls BY <1>7, <2>2, <3>2
        <3>4. crf.poll[CrUrls[i]] # NoSnapshot BY <1>1, <3>2 DEF IInv, FlightKnown
        <3>5. QED BY <2>1, <3>3, <3>4
    <2>5. QED BY <1>6, <2>1, <2>3, <2>4 DEF IInv, FlightKnown, Taken
<1>11. RegistryKept
    <2>1. CASE s.id = "failed" BY <1>1, <2>1, MarkKeeps
    <2>2. CASE s.id # "failed" /\ (Incompatible(s) \/ Duplicate(cr, s)) BY <1>1, <2>2, SameKeeps
    <2>3. CASE s.id # "failed" /\ ~(Incompatible(s) \/ Duplicate(cr, s))
        <3>1. Kept(UpdateNode(cr, s)) BY <1>3, <1>5, <2>3, UpdateKept
        <3>2. Kept(MarkNodeURLUnhealthy(UpdateNode(cr, s), u)) BY <3>1, MarkKept
        <3>3. cr' = AcceptNodeURL(UpdateNode(cr, s), u) BY <1>1, <2>3
        <3>4. QED BY <3>1, <3>2, <3>3, KeptIsKept DEF AcceptNodeURL
    <2>4. QED BY <2>1, <2>2, <2>3
<1>12. QED BY <1>1, <1>9, <1>10, <1>11, SlavesStay, StepKeeps

(* --------------------------- registrations, refreshes -------------------- *)
\* Something is put on its way, or arrives: one entry of the flight changes.
LEMMA RegisterFlight ==
    ASSUME IInv, NEW u \in Urls, NEW s, s = NoSnapshot \/ Taken(s, u), NEW n,
           \/ crf' = [crf EXCEPT !.register[u] = s, !.updates = n]
           \/ crf' = [crf EXCEPT !.register[u] = s]
    PROVE  FlightShape /\ FlightKnown'
<1>1. /\ crf' = [poll |-> crf.poll, register |-> [crf.register EXCEPT ![u] = s], refresh |-> crf.refresh,
                 apply |-> crf.apply, updates |-> crf'.updates, calls |-> crf.calls, changes |-> crf.changes]
    BY DEF IInv, Shape
<1>2. FlightShape BY <1>1 DEF IInv, Shape, FlightShape
<1>3. /\ crf'.poll = crf.poll /\ crf'.refresh = crf.refresh /\ crf'.apply = crf.apply
      /\ \A v \in Urls : crf'.register[v] = IF v = u THEN s ELSE crf.register[v]
    BY <1>1 DEF IInv, Shape
<1>4. FlightKnown' BY <1>3 DEF IInv, FlightKnown, Taken
<1>5. QED BY <1>2, <1>4

LEMMA RefreshFlight ==
    ASSUME IInv, NEW u \in Urls, NEW s, s = NoSnapshot \/ Taken(s, u), NEW n,
           \/ crf' = [crf EXCEPT !.refresh[u] = s, !.updates = n]
           \/ crf' = [crf EXCEPT !.refresh[u] = s]
    PROVE  FlightShape /\ FlightKnown'
<1>1. /\ crf' = [poll |-> crf.poll, register |-> crf.register, refresh |-> [crf.refresh EXCEPT ![u] = s],
                 apply |-> crf.apply, updates |-> crf'.updates, calls |-> crf.calls, changes |-> crf.changes]
    BY DEF IInv, Shape
<1>2. FlightShape BY <1>1 DEF IInv, Shape, FlightShape
<1>3. /\ crf'.poll = crf.poll /\ crf'.register = crf.register /\ crf'.apply = crf.apply
      /\ \A v \in Urls : crf'.refresh[v] = IF v = u THEN s ELSE crf.refresh[v]
    BY <1>1 DEF IInv, Shape
<1>4. FlightKnown' BY <1>3 DEF IInv, FlightKnown, Taken
<1>5. QED BY <1>2, <1>4

LEMMA RegisterKeeps == ASSUME IInv, NEW u \in Urls, Register(u) \/ RegisterLost(u) PROVE IInv'
<1>1. CASE Register(u)
    <2>1. crf' = [crf EXCEPT !.register[u] = Snapshot(u), !.updates = crf.updates + 1] /\ UNCHANGED <<cr, crs, crq>>
        BY <1>1 DEF Register
    <2>2. FlightShape /\ FlightKnown' BY <2>1, SnapshotTaken, RegisterFlight
    <2>3. QED BY <2>1, <2>2, SameKeeps, SlavesStay, StepKeeps
<1>2. CASE RegisterLost(u)
    <2>1. crf' = [crf EXCEPT !.register[u] = NoSnapshot] /\ UNCHANGED <<cr, crs, crq>>
        BY <1>2 DEF RegisterLost, Carry
    <2>2. FlightShape /\ FlightKnown' BY <2>1, RegisterFlight
    <2>3. QED BY <2>1, <2>2, SameKeeps, SlavesStay, StepKeeps
<1>3. QED BY <1>1, <1>2

\* One slave gets another record.
LEMMA SlaveChanges ==
    ASSUME IInv, NEW u \in Urls, NEW rec,
           rec = [id |-> rec.id, models |-> rec.models, up |-> rec.up, proto |-> rec.proto],
           rec.id \in CrIds[u], rec.models \in CrCatalogs[u], crs' = [crs EXCEPT ![u] = rec]
    PROVE  DOMAIN crs' = Urls /\ SlavesKnown'
<1>1. DOMAIN crs = Urls BY DEF IInv, Shape
<1>2. DOMAIN crs' = Urls BY <1>1
<1>3. \A v \in Urls : crs'[v] = IF v = u THEN rec ELSE crs[v] BY <1>1
<1>4. ASSUME NEW v \in Urls
      PROVE  /\ crs'[v] = [id |-> crs'[v].id, models |-> crs'[v].models, up |-> crs'[v].up, proto |-> crs'[v].proto]
             /\ crs'[v].id \in CrIds[v] /\ crs'[v].models \in CrCatalogs[v]
    <2>1. CASE v = u BY <1>3, <2>1
    <2>2. CASE v # u BY <1>3, <2>2 DEF IInv, SlavesKnown
    <2>3. QED BY <2>1, <2>2
<1>5. QED BY <1>2, <1>4 DEF SlavesKnown

\* The record of a slave is a record, whichever of its fields is replaced.
LEMMA SlaveRecord ==
    ASSUME NEW rec, rec = [id |-> rec.id, models |-> rec.models, up |-> rec.up, proto |-> rec.proto],
           NEW ms, NEW up
    PROVE  /\ [rec EXCEPT !.models = ms] = [id |-> rec.id, models |-> ms, up |-> rec.up, proto |-> rec.proto]
           /\ [rec EXCEPT !.up = up] = [id |-> rec.id, models |-> rec.models, up |-> up, proto |-> rec.proto]
<1>1. [rec EXCEPT !.models = ms] = [id |-> rec.id, models |-> ms, up |-> rec.up, proto |-> rec.proto] OBVIOUS
<1>2. [rec EXCEPT !.up = up] = [id |-> rec.id, models |-> rec.models, up |-> up, proto |-> rec.proto] OBVIOUS
<1>3. QED BY <1>1, <1>2

LEMMA SlaveStops ==
    ASSUME IInv, NEW u \in Urls, crs' = [crs EXCEPT ![u].up = FALSE]
    PROVE  DOMAIN crs' = Urls /\ SlavesKnown'
<1> DEFINE rec == [crs[u] EXCEPT !.up = FALSE]
<1>1. crs' = [crs EXCEPT ![u] = rec] OBVIOUS
<1>2. /\ crs[u] = [id |-> crs[u].id, models |-> crs[u].models, up |-> crs[u].up, proto |-> crs[u].proto]
      /\ crs[u].id \in CrIds[u] /\ crs[u].models \in CrCatalogs[u]
    BY DEF IInv, SlavesKnown
<1>3. rec = [id |-> crs[u].id, models |-> crs[u].models, up |-> FALSE, proto |-> crs[u].proto]
    BY <1>2, SlaveRecord, Zenon
<1> HIDE DEF rec
<1>4. /\ rec = [id |-> rec.id, models |-> rec.models, up |-> rec.up, proto |-> rec.proto]
      /\ rec.id = crs[u].id /\ rec.models = crs[u].models
    BY <1>3
<1>5. QED BY <1>1, <1>2, <1>4, SlaveChanges

LEMMA HandleKeeps == ASSUME IInv, NEW u \in Urls, handleNodeRegister(u) PROVE IInv'
<1> DEFINE s == crf.register[u]
<1>1. /\ s # NoSnapshot /\ cr' = UpdateNode(cr, s) /\ UNCHANGED crq
      /\ crs' = crs \/ crs' = [crs EXCEPT ![u].up = FALSE]
      /\ crf' = [crf EXCEPT !.register[u] = NoSnapshot]
    BY DEF handleNodeRegister, Carry
<1>2. Taken(s, u) BY <1>1 DEF IInv, FlightKnown
<1> HIDE DEF s
<1>3. RegistryKept BY <1>1, <1>2, UpdateKeeps
<1>4. FlightShape /\ FlightKnown' BY <1>1, RegisterFlight
<1>5. DOMAIN crs' = Urls /\ SlavesKnown'
    <2>1. CASE crs' = crs BY <2>1, SlavesStay
    <2>2. CASE crs' = [crs EXCEPT ![u].up = FALSE] BY <2>2, SlaveStops
    <2>3. QED BY <1>1, <2>1, <2>2
<1>6. QED BY <1>1, <1>3, <1>4, <1>5, StepKeeps

LEMMA RefreshKeeps == ASSUME IInv, NEW u \in Urls, refreshAfterCook(u) \/ refreshRemoteConfigNode(u) PROVE IInv'
<1>1. CASE refreshAfterCook(u)
    <2> DEFINE s == IF crs[u].up THEN Snapshot(u) ELSE NoSnapshot
    <2>1. /\ crf' = [crf EXCEPT !.refresh[u] = s, !.updates = crf.updates + 1] /\ UNCHANGED <<crs, crq>>
          /\ cr' = IF crs[u].up THEN cr ELSE MarkNodeURLUnhealthy(cr, u)
        BY <1>1 DEF refreshAfterCook
    <2>2. s = NoSnapshot \/ Taken(s, u) BY SnapshotTaken
    <2> HIDE DEF s
    <2>3. FlightShape /\ FlightKnown' BY <2>1, <2>2, RefreshFlight
    <2>4. RegistryKept
        <3>1. CASE crs[u].up BY <2>1, <3>1, SameKeeps
        <3>2. CASE ~crs[u].up BY <2>1, <3>2, MarkKeeps
        <3>3. QED BY <3>1, <3>2
    <2>5. QED BY <2>1, <2>3, <2>4, SlavesStay, StepKeeps
<1>2. CASE refreshRemoteConfigNode(u)
    <2> DEFINE s == crf.refresh[u]
    <2>1. /\ s # NoSnapshot /\ cr' = UpdateNode(cr, s) /\ UNCHANGED <<crs, crq>>
          /\ crf' = [crf EXCEPT !.refresh[u] = NoSnapshot]
        BY <1>2 DEF refreshRemoteConfigNode, Carry
    <2>2. Taken(s, u) BY <2>1 DEF IInv, FlightKnown
    <2> HIDE DEF s
    <2>3. RegistryKept BY <2>1, <2>2, UpdateKeeps
    <2>4. FlightShape /\ FlightKnown' BY <2>1, RefreshFlight
    <2>5. QED BY <2>1, <2>3, <2>4, SlavesStay, StepKeeps
<1>3. QED BY <1>1, <1>2

(* --------------------- the master, the slaves, requests ------------------ *)
LEMMA LocalKeeps == ASSUME IInv, NEW ms \in CrLocals, UpdateLocal(ms) PROVE IInv'
<1>1. cr' = [cr EXCEPT !.local = ms] /\ UNCHANGED <<crs, crf, crq>> BY DEF UpdateLocal
<1>2. /\ cr' = [local |-> cr'.local, nodes |-> cr'.nodes, unhealthy |-> cr'.unhealthy, busy |-> cr'.busy,
                next |-> cr'.next]
      /\ cr'.busy = cr.busy /\ cr'.local = ms /\ cr'.nodes = cr.nodes
    BY <1>1 DEF IInv, Shape
<1>3. RegistryKept BY <1>2 DEF IInv, NodesKnown, OneOwner, RegistryKept
<1>4. FlightShape /\ FlightKnown' BY <1>1, FlightStays DEF IInv, Shape
<1>5. QED BY <1>1, <1>3, <1>4, SlavesStay, StepKeeps

LEMMA SlaveKeeps == ASSUME IInv, NEW u \in Urls, SlaveChange(u) PROVE IInv'
<1>1. crf' = [crf EXCEPT !.changes = crf.changes + 1] /\ UNCHANGED <<cr, crq>> BY DEF SlaveChange
<1>2. FlightShape /\ FlightKnown'
    <2>1. /\ crf' = [poll |-> crf.poll, register |-> crf.register, refresh |-> crf.refresh, apply |-> crf.apply,
                     updates |-> crf.updates, calls |-> crf.calls, changes |-> crf.changes + 1]
        BY <1>1 DEF IInv, Shape
    <2>2. QED BY <2>1, FlightStays
<1>3. DOMAIN crs' = Urls /\ SlavesKnown'
    <2>1. /\ crs[u] = [id |-> crs[u].id, models |-> crs[u].models, up |-> crs[u].up, proto |-> crs[u].proto]
          /\ crs[u].id \in CrIds[u] /\ crs[u].models \in CrCatalogs[u] /\ DOMAIN crs = Urls
        BY DEF IInv, SlavesKnown, Shape
    <2>2. CASE \E ms \in CrCatalogs[u] \ {crs[u].models} : crs' = [crs EXCEPT ![u].models = ms]
        <3>1. PICK ms \in CrCatalogs[u] : crs' = [crs EXCEPT ![u].models = ms] BY <2>2
        <3> DEFINE rec == [crs[u] EXCEPT !.models = ms]
        <3>2. crs' = [crs EXCEPT ![u] = rec] BY <3>1
        <3>3. rec = [id |-> crs[u].id, models |-> ms, up |-> crs[u].up, proto |-> crs[u].proto]
            BY <2>1, SlaveRecord
        <3> HIDE DEF rec
        <3>4. /\ rec = [id |-> rec.id, models |-> rec.models, up |-> rec.up, proto |-> rec.proto]
              /\ rec.id = crs[u].id /\ rec.models = ms
            BY <3>3
        <3>5. QED BY <2>1, <3>2, <3>4, SlaveChanges
    <2>3. CASE crs' = [crs EXCEPT ![u].up = FALSE] BY <2>3, SlaveStops
    <2>4. CASE \E n \in CrIds[u], p \in {1, 2} :
                    crs' = [crs EXCEPT ![u] = [id |-> n, models |-> crs[u].models, up |-> TRUE, proto |-> p]]
        <3>1. PICK n \in CrIds[u], p \in {1, 2} :
                  crs' = [crs EXCEPT ![u] = [id |-> n, models |-> crs[u].models, up |-> TRUE, proto |-> p]]
            BY <2>4
        <3> DEFINE rec == [id |-> n, models |-> crs[u].models, up |-> TRUE, proto |-> p]
        <3>2. crs' = [crs EXCEPT ![u] = rec] BY <3>1
        <3>3. rec = [id |-> n, models |-> crs[u].models, up |-> TRUE, proto |-> p] OBVIOUS
        <3> HIDE DEF rec
        <3>4. /\ rec = [id |-> rec.id, models |-> rec.models, up |-> rec.up, proto |-> rec.proto]
              /\ rec.id = n /\ rec.models = crs[u].models
            BY <3>3
        <3>5. QED BY <2>1, <3>2, <3>4, SlaveChanges
    <2>5. QED BY <2>2, <2>3, <2>4 DEF SlaveChange
<1>4. QED BY <1>1, <1>2, <1>3, SameKeeps, StepKeeps

\* Only the leases change: the nodes stay as they are.
LEMMA LeasesChange ==
    ASSUME IInv, NEW busy, NEW next, cr' = [cr EXCEPT !.busy = busy, !.next = next]
    PROVE  /\ cr' = [local |-> cr'.local, nodes |-> cr'.nodes, unhealthy |-> cr'.unhealthy, busy |-> cr'.busy,
                     next |-> cr'.next]
           /\ cr'.busy = busy /\ NodesKnown' /\ OneOwner'
<1>1. /\ cr' = [local |-> cr'.local, nodes |-> cr'.nodes, unhealthy |-> cr'.unhealthy, busy |-> cr'.busy,
                next |-> cr'.next]
      /\ cr'.busy = busy /\ cr'.local = cr.local /\ cr'.nodes = cr.nodes
    BY DEF IInv, Shape
<1>2. QED BY <1>1 DEF IInv, NodesKnown, OneOwner

LEMMA AcquireKeeps ==
    ASSUME CrInputs, IInv, NEW r \in CrRequests, NEW pub, NEW kind, NEW healthy, Acquire(r, pub, kind, healthy)
    PROVE  IInv'
<1> DEFINE s == selectRoute(cr, pub, kind, healthy)
           k == routeKey(s.route)
           busy == With(cr.busy, k, BusyOf(cr, k) + 1)
<1>1. /\ crq[r] = NoRoute /\ s.route # NoRoute
      /\ cr' = [cr EXCEPT !.busy = busy, !.next = s.next]
      /\ crq' = [crq EXCEPT ![r] = s.route]
      /\ crf' = [crf EXCEPT !.calls = crf.calls + 1] /\ UNCHANGED crs
    BY DEF Acquire
<1> HIDE DEF s
<1>2. busy = With(cr.busy, routeKey(s.route), BusyOf(cr, routeKey(s.route)) + 1) OBVIOUS
<1> HIDE DEF k, busy
<1>3. /\ cr' = [local |-> cr'.local, nodes |-> cr'.nodes, unhealthy |-> cr'.unhealthy, busy |-> cr'.busy,
                next |-> cr'.next]
      /\ cr'.busy = busy /\ NodesKnown' /\ OneOwner'
    BY <1>1, LeasesChange
<1>4. BusyMatches' BY <1>1, <1>2, <1>3, AcquireBusy
<1>5. crf' = [poll |-> crf.poll, register |-> crf.register, refresh |-> crf.refresh, apply |-> crf.apply,
              updates |-> crf.updates, calls |-> crf.calls + 1, changes |-> crf.changes]
    BY <1>1 DEF IInv, Shape
<1>6. FlightShape /\ FlightKnown' BY <1>5, FlightStays
<1>7. DOMAIN crq' = CrRequests BY <1>1 DEF IInv, Shape
<1>8. DOMAIN crs' = Urls /\ SlavesKnown' BY <1>1, SlavesStay
<1>9. Shape' BY <1>3, <1>6, <1>7, <1>8 DEF Shape, FlightShape
<1>10. QED BY <1>3, <1>4, <1>6, <1>8, <1>9 DEF IInv

LEMMA ReleaseKeeps == ASSUME CrInputs, IInv, NEW r \in CrRequests, Release(r) PROVE IInv'
<1> DEFINE k == routeKey(crq[r])
           busy == IF BusyOf(cr, k) > 1 THEN With(cr.busy, k, BusyOf(cr, k) - 1) ELSE Without(cr.busy, k)
<1>1. /\ cr' = [cr EXCEPT !.busy = busy] /\ crq' = [crq EXCEPT ![r] = NoRoute] /\ UNCHANGED <<crs, crf>>
    BY DEF Release
<1> HIDE DEF k, busy
<1>2. cr' = [cr EXCEPT !.busy = busy, !.next = cr.next] BY <1>1 DEF IInv, Shape
<1>3. /\ cr' = [local |-> cr'.local, nodes |-> cr'.nodes, unhealthy |-> cr'.unhealthy, busy |-> cr'.busy,
                next |-> cr'.next]
      /\ NodesKnown' /\ OneOwner'
    BY <1>2, LeasesChange
<1>4. BusyMatches' BY ReleaseBusy
<1>5. FlightShape /\ FlightKnown' BY <1>1, FlightStays DEF IInv, Shape
<1>6. DOMAIN crq' = CrRequests BY <1>1 DEF IInv, Shape
<1>7. DOMAIN crs' = Urls /\ SlavesKnown' BY <1>1, SlavesStay
<1>8. Shape' BY <1>3, <1>5, <1>6, <1>7 DEF Shape, FlightShape
<1>9. QED BY <1>3, <1>4, <1>5, <1>7, <1>8 DEF IInv

(* ------------------------------ the theorem ------------------------------ *)
LEMMA InitHolds == ASSUME CrInputs, Init PROVE IInv
<1>1. PICK ms \in CrLocals : cr = NewRegistry(ms) BY DEF Init
<1>2. DOMAIN cr.nodes = {} /\ DOMAIN cr.busy = {} /\ cr.local = ms BY <1>1 DEF NewRegistry
<1>3. /\ crf = [poll |-> EmptyFlight, register |-> EmptyFlight, refresh |-> EmptyFlight,
                apply |-> 0, updates |-> 0, calls |-> 0, changes |-> 0]
      /\ crq = [r \in CrRequests |-> NoRoute]
    BY DEF Init
<1>4. SlavesKnown /\ DOMAIN crs = Urls
    <2>1. crs \in [Urls -> UNION {{[id |-> n, models |-> l, up |-> TRUE, proto |-> 2]
                                    : n \in CrIds[u], l \in CrCatalogs[u]} : u \in Urls}]
        BY DEF Init
    <2>2. ASSUME NEW v \in Urls
          PROVE  crs[v] = [id |-> crs[v].id, models |-> crs[v].models, up |-> crs[v].up, proto |-> crs[v].proto]
        <3>1. \E u \in Urls : \E n \in CrIds[u], l \in CrCatalogs[u] :
                  crs[v] = [id |-> n, models |-> l, up |-> TRUE, proto |-> 2]
            BY <2>1
        <3>2. QED BY <3>1
    <2>3. QED BY <2>1, <2>2 DEF Init, SlavesKnown
<1>5. \A u \in Urls : EmptyFlight[u] = NoSnapshot BY DEF EmptyFlight
<1>6. DOMAIN EmptyFlight = Urls BY DEF EmptyFlight
<1>7. Shape BY <1>1, <1>3, <1>4, <1>6 DEF Shape, NewRegistry
<1>8. FlightKnown BY <1>3, <1>5, UrlsInOrder DEF FlightKnown
<1>9. NodesKnown BY <1>1, <1>2 DEF NodesKnown
<1>10. OneOwner BY <1>2 DEF OneOwner
<1>11. BusyMatches
    <2>1. \A k : Holders(crq, k) = {} BY <1>3 DEF Holders
    <2>2. Counted(cr.busy, crq) BY <1>2, <2>1 DEF Counted
    <2>3. QED BY <2>2, BusyIsCounted
<1>12. QED BY <1>4, <1>7, <1>8, <1>9, <1>10, <1>11 DEF IInv

LEMMA NextKeeps == ASSUME CrInputs, IInv, [Next]_crvars PROVE IInv'
<1>1. CASE UNCHANGED crvars
    <2>1. UNCHANGED cr /\ UNCHANGED crs /\ UNCHANGED crf /\ UNCHANGED crq BY <1>1 DEF crvars
    <2>2. FlightShape /\ FlightKnown' BY <2>1, FlightStays DEF IInv, Shape
    <2>3. QED BY <2>1, <2>2, SameKeeps, SlavesStay, StepKeeps
<1>2. CASE Poll BY <1>2, SyncBeginKeeps, SyncKeeps, FetchKeeps DEF Poll
<1>3. CASE \E ms \in CrLocals : UpdateLocal(ms) BY <1>3, LocalKeeps
<1>4. ASSUME NEW u \in Urls,
             \/ Register(u) \/ handleNodeRegister(u) \/ RegisterLost(u)
             \/ refreshAfterCook(u) \/ refreshRemoteConfigNode(u) \/ SlaveChange(u)
      PROVE  IInv'
    BY <1>4, RegisterKeeps, HandleKeeps, RefreshKeeps, SlaveKeeps
<1>5. ASSUME NEW r \in CrRequests,
             \/ Release(r)
             \/ \E pub \in Publics, kind \in {"model", "voice"}, healthy \in BOOLEAN : Acquire(r, pub, kind, healthy)
      PROVE  IInv'
    <2>1. CASE Release(r) BY <2>1, ReleaseKeeps
    <2>2. ASSUME NEW pub \in Publics, NEW kind \in {"model", "voice"}, NEW healthy \in BOOLEAN,
                 Acquire(r, pub, kind, healthy)
          PROVE  IInv'
        BY <2>2, AcquireKeeps
    <2>3. QED BY <1>5, <2>1, <2>2
<1>6. QED BY <1>1, <1>2, <1>3, <1>4, <1>5 DEF Next

\* However registrations, polls, refreshes, requests and changes of slaves
\* interleave, for any slaves, catalogs and requests, and although every
\* snapshot may be stale when it arrives: no node id and no URL has two
\* owners, two models of different content share a public id only where one
\* is named like an index of the other, and the load of a route is the number
\* of leases on it.
THEOREM RegistryIsSafe == CrInputs => (Spec => []RegistrySafe)
<1> SUFFICES ASSUME CrInputs PROVE Spec => []RegistrySafe
    OBVIOUS
<1>1. Init => IInv BY InitHolds
<1>2. IInv /\ [Next]_crvars => IInv' BY NextKeeps
<1>3. IInv => RegistrySafe BY PublicTells DEF IInv, RegistrySafe
<1>4. QED BY <1>1, <1>2, <1>3, PTL DEF Spec

\* Where no model is named like an index of another, a public id means one
\* content, as the documentation says (identity.go: assignPublicIDs).
THEOREM PublicIsContent == CrInputs /\ NoIndexedNames => (Spec => []PublicTellsContent)
<1> SUFFICES ASSUME CrInputs, NoIndexedNames PROVE Spec => []PublicTellsContent
    OBVIOUS
<1>1. Init => IInv BY InitHolds
<1>2. IInv /\ [Next]_crvars => IInv' BY NextKeeps
<1>3. IInv => PublicTellsContent BY PublicTells
<1>4. QED BY <1>1, <1>2, <1>3, PTL DEF Spec

=============================================================================
