--------------------------- MODULE ClusterRegistry ---------------------------
(***************************************************************************)
(* The master's registry of nodes and models (internal/cluster): slaves    *)
(* register themselves, the master polls them, and other requests refresh  *)
(* one node; each brings a snapshot taken earlier.  The registry keeps one *)
(* owner per node id and per URL, gives every distinct model a public id,  *)
(* and leases routes to requests.                                          *)
(***************************************************************************)
EXTENDS Naturals, FiniteSets, Sequences, SequencesExt

CONSTANTS CrUrls,      \* configured slave URLs, in order
          CrIds,       \* url -> node ids that its node may claim
          CrWidth,     \* the longest list of models
          CrRank,      \* node id -> the place before its first model in the sort order
          CrUnauthorized, \* urls that the client does not accept (AcceptNodeURL fails)
          CrCatalogs,  \* url -> the model lists its node may have
          CrLocals,    \* the model lists the master itself may have
          CrRequests,  \* concurrent requests
          CrMaxChanges,\* changes of slaves
          CrMaxUpdates,\* registrations and refreshes of one node
          CrMaxCalls   \* requests ever made

VARIABLES cr,   \* the registry: local, nodes, unhealthy, busy, next
          crs,  \* the slaves: id, models, up, proto, changes
          crf,  \* snapshots in flight: who carries which snapshot of which url
          crq   \* requests: the route each holds

crvars == <<cr, crs, crf, crq>>

LocalID == "master"
LocalURL == "master-url"
MinimumProtocolVersion == 2
NoSnapshot == [id |-> "none"]
NoRoute == [node |-> "none"]
Urls == ToSet(CrUrls)

-----------------------------------------------------------------------------
(***************************************************************************)
(* The view: every model of every node, with its public id                 *)
(***************************************************************************)
\* Mutant: configs of one model file are taken for one model.
modelIdentityOfModel(m) == m.hash[1]
modelIdentity(m) == m.hash

\* candidatesLocked: the master's models, then those of each node, available unless unhealthy.
\* A list is in the order of local ids, as the catalog makes it; it may hold an id twice.
candidates(reg) ==
    {[node |-> LocalID, rank |-> i, model |-> reg.local[i], available |-> TRUE] : i \in DOMAIN reg.local}
    \cup UNION {{[node |-> n, rank |-> CrRank[n] + i, model |-> reg.nodes[n].models[i],
                  available |-> n \notin reg.unhealthy] : i \in DOMAIN reg.nodes[n].models} : n \in DOMAIN reg.nodes}

\* identityGroups: the models of one base id fall into groups of equal content, ordered by
\* the first member: the master's before the slaves', those of a node in the order listed.
byBaseID(cands, c) == {d \in cands : d.model.id = c.model.id}
firstOf(same, i) ==
    CHOOSE r \in {d.rank : d \in {e \in same : modelIdentity(e.model) = i}} :
        \A d \in {e \in same : modelIdentity(e.model) = i} : r <= d.rank
GroupRank(cands, c) ==
    LET same == byBaseID(cands, c) IN
    Cardinality({i \in {modelIdentity(d.model) : d \in same} :
                    firstOf(same, i) < firstOf(same, modelIdentity(c.model))})
\* assignPublicIDs: the first group keeps the base id, the others get an index.
assignPublicID(cands, c) ==
    LET k == GroupRank(cands, c) IN IF k = 0 THEN c.model.id ELSE Append(c.model.id, k + 1)
view(reg) ==
    LET cands == candidates(reg) IN
    {[pub |-> assignPublicID(cands, c), node |-> c.node, rank |-> c.rank, model |-> c.model,
      available |-> c.available] : c \in cands}

-----------------------------------------------------------------------------
(***************************************************************************)
(* Updating                                                                *)
(***************************************************************************)
Without(f, x) == [y \in DOMAIN f \ {x} |-> f[y]]
With(f, x, v) == [y \in DOMAIN f \cup {x} |-> IF y = x THEN v ELSE f[y]]
\* The outcome of UpdateNode: an incompatible peer, a duplicate, or the node's new record.
Incompatible(s) == s.proto < MinimumProtocolVersion
Duplicate(reg, s) ==
    \/ s.id = LocalID \/ s.url = LocalURL
    \/ s.id \in DOMAIN reg.nodes /\ reg.nodes[s.id].url # s.url
    \/ \E n \in DOMAIN reg.nodes : n # s.id /\ reg.nodes[n].url = s.url
normalizeNodeSnapshot(s) == [url |-> s.url, models |-> s.models]
UpdateNode(reg, s) ==
    IF Incompatible(s) \/ Duplicate(reg, s) THEN reg
    ELSE [reg EXCEPT !.nodes = With(@, s.id, normalizeNodeSnapshot(s)), !.unhealthy = @ \ {s.id}]
MarkNodeURLUnhealthy(reg, u) ==
    [reg EXCEPT !.unhealthy = @ \cup {n \in DOMAIN reg.nodes : reg.nodes[n].url = u}]

\* UpdateLocal after the master's own configs or model states changed.
UpdateLocal(ms) == cr.local # ms /\ cr' = [cr EXCEPT !.local = ms] /\ UNCHANGED <<crs, crf, crq>>

Snapshot(u) == [id |-> crs[u].id, url |-> u, proto |-> crs[u].proto, models |-> crs[u].models]

\* A node whose URL the client does not accept is shown and not used.
AcceptNodeURL(reg, u) == IF u \in CrUnauthorized THEN MarkNodeURLUnhealthy(reg, u) ELSE reg

\* One round of the poll: every slave is asked, an answer is kept until all are in, and then
\* the answers are applied in the configured order, one lock at a time.  A round over no
\* slaves does nothing.
Carry(k, u, s) == crf' = [crf EXCEPT ![k][u] = s]
SyncBegin == /\ CrUrls # <<>> /\ crf.apply = 0 /\ \A u \in Urls : crf.poll[u] = NoSnapshot
             /\ crf' = [crf EXCEPT !.apply = 1, !.poll = [u \in Urls |-> [id |-> "asked"]]]
             /\ UNCHANGED <<cr, crs, crq>>
fetchSlaveSnapshots(u) ==
    /\ crf.poll[u].id = "asked"
    /\ Carry("poll", u, IF crs[u].up THEN Snapshot(u) ELSE [id |-> "failed"])
    /\ UNCHANGED <<cr, crs, crq>>
syncSlaves ==
    /\ crf.apply > 0 /\ \A u \in Urls : crf.poll[u].id # "asked"
    /\ LET u == CrUrls[crf.apply]  s == crf.poll[u] IN
       /\ cr' = IF s.id = "failed" THEN MarkNodeURLUnhealthy(cr, u)
                ELSE IF Incompatible(s) \/ Duplicate(cr, s) THEN cr
                ELSE AcceptNodeURL(UpdateNode(cr, s), u)
       /\ crf' = [crf EXCEPT !.poll[u] = NoSnapshot, !.apply = IF @ = Len(CrUrls) THEN 0 ELSE @ + 1]
    /\ UNCHANGED <<crs, crq>>

\* A slave registers on its interval; the answer "duplicate" ends its router.
Register(u) ==
    /\ crs[u].up /\ crf.register[u] = NoSnapshot /\ crf.updates < CrMaxUpdates
    /\ crf' = [crf EXCEPT !.register[u] = Snapshot(u), !.updates = @ + 1]
    /\ UNCHANGED <<cr, crs, crq>>
handleNodeRegister(u) ==
    /\ crf.register[u] # NoSnapshot
    /\ LET s == crf.register[u] IN
       /\ cr' = UpdateNode(cr, s)
       /\ crs' = IF ~Incompatible(s) /\ Duplicate(cr, s) THEN [crs EXCEPT ![u].up = FALSE] ELSE crs
    /\ Carry("register", u, NoSnapshot) /\ UNCHANGED crq
RegisterLost(u) ==
    /\ crf.register[u] # NoSnapshot /\ Carry("register", u, NoSnapshot) /\ UNCHANGED <<cr, crs, crq>>

\* After a cook, a config change, a benchmark or a model state change on a node, the master
\* fetches that node's snapshot by itself.
refreshAfterCook(u) ==
    /\ crf.refresh[u] = NoSnapshot /\ crf.updates < CrMaxUpdates
    /\ crf' = [crf EXCEPT !.refresh[u] = IF crs[u].up THEN Snapshot(u) ELSE NoSnapshot, !.updates = @ + 1]
    /\ cr' = IF crs[u].up THEN cr ELSE MarkNodeURLUnhealthy(cr, u)
    /\ UNCHANGED <<crs, crq>>
refreshRemoteConfigNode(u) ==
    /\ crf.refresh[u] # NoSnapshot
    /\ cr' = UpdateNode(cr, crf.refresh[u]) /\ Carry("refresh", u, NoSnapshot)
    /\ UNCHANGED <<crs, crq>>

-----------------------------------------------------------------------------
(***************************************************************************)
(* Routes                                                                  *)
(***************************************************************************)
Lane(kind) == IF kind \in {"model", "mcp"} THEN "text" ELSE kind
Serves(c, kind) == ~c.model.off /\ (kind = "model" \/ kind \in c.model.caps)
replicas(reg, pub, kind) == {c \in view(reg) : c.pub = pub /\ Serves(c, kind)}
routeKey(route) == <<route.node, route.model, route.lane>>
routeFromModel(c, kind) == [node |-> c.node, model |-> c.model.id, lane |-> Lane(kind), pub |-> c.pub, hash |-> c.model.hash]
BusyOf(reg, k) == IF k \in DOMAIN reg.busy THEN reg.busy[k] ELSE 0
NextOf(reg, pub) == IF pub \in DOMAIN reg.next THEN reg.next[pub] ELSE 0

\* selectRouteLocked: the idle master, else the next slave in turn, else the busy master.
InOrder(cands) == SetToSortSeq(cands, LAMBDA x, y : x.rank < y.rank)
selectRoute(reg, pub, kind, localHealthy) ==
    LET rs == replicas(reg, pub, kind)
        own == InOrder({c \in rs : c.node = LocalID /\ localHealthy})
        idle == SelectSeq(own, LAMBDA c : BusyOf(reg, routeKey(routeFromModel(c, kind))) = 0)
        slaves == InOrder({c \in rs : c.node # LocalID /\ c.available})
        i == NextOf(reg, pub) % Len(slaves)
    IN CASE idle # <<>> -> [route |-> routeFromModel(Head(idle), kind), next |-> reg.next]
         [] idle = <<>> /\ slaves # <<>> ->
              [route |-> routeFromModel(slaves[i + 1], kind),
               next |-> With(reg.next, pub, (NextOf(reg, pub) + 1) % Len(slaves))]
         [] idle = <<>> /\ slaves = <<>> /\ own # <<>> ->
              [route |-> routeFromModel(Head(own), kind), next |-> reg.next]
         [] OTHER -> [route |-> NoRoute, next |-> reg.next]

Acquire(r, pub, kind, localHealthy) ==
    /\ crq[r] = NoRoute /\ crf.calls < CrMaxCalls
    /\ LET s == selectRoute(cr, pub, kind, localHealthy) k == routeKey(s.route) IN
       /\ s.route # NoRoute
       /\ cr' = [cr EXCEPT !.busy = With(@, k, BusyOf(cr, k) + 1), !.next = s.next]
       /\ crq' = [crq EXCEPT ![r] = s.route]
    /\ crf' = [crf EXCEPT !.calls = @ + 1] /\ UNCHANGED crs
\* release: once, and never below zero.
Release(r) ==
    /\ crq[r] # NoRoute
    /\ LET k == routeKey(crq[r])  n == BusyOf(cr, k) IN
       cr' = [cr EXCEPT !.busy = IF n > 1 THEN With(@, k, n - 1) ELSE Without(@, k)]
    /\ crq' = [crq EXCEPT ![r] = NoRoute] /\ UNCHANGED <<crs, crf>>

-----------------------------------------------------------------------------
\* The slaves: their models change, they stop and come back, perhaps under another id or
\* with an older build.
SlaveChange(u) ==
    /\ crf.changes < CrMaxChanges /\ crf' = [crf EXCEPT !.changes = @ + 1]
    /\ \/ crs[u].up /\ \E ms \in CrCatalogs[u] \ {crs[u].models} : crs' = [crs EXCEPT ![u].models = ms]
       \/ crs[u].up /\ crs' = [crs EXCEPT ![u].up = FALSE]
       \/ ~crs[u].up /\ \E n \in CrIds[u], p \in {1, 2} :
                          crs' = [crs EXCEPT ![u] = [id |-> n, models |-> crs[u].models, up |-> TRUE, proto |-> p]]
    /\ UNCHANGED <<cr, crq>>

EmptyFlight == [u \in Urls |-> NoSnapshot]
NewRegistry(ms) == [local |-> ms, nodes |-> <<>>, unhealthy |-> {}, busy |-> <<>>, next |-> <<>>]
Init == /\ \E ms \in CrLocals : cr = NewRegistry(ms)
        /\ crs \in [Urls -> UNION {{[id |-> n, models |-> ms, up |-> TRUE, proto |-> 2]
                                    : n \in CrIds[u], ms \in CrCatalogs[u]} : u \in Urls}]
        /\ \A u \in Urls : crs[u].id \in CrIds[u] /\ crs[u].models \in CrCatalogs[u]
        /\ crf = [poll |-> EmptyFlight, register |-> EmptyFlight, refresh |-> EmptyFlight,
                  apply |-> 0, updates |-> 0, calls |-> 0, changes |-> 0]
        /\ crq = [r \in CrRequests |-> NoRoute]

\* What the registry is given: distinct URLs, and room for a list of models after each node's
\* place.  An id is a name, here a number, and the indices written after it.
CrLists == CrLocals \cup UNION {CrCatalogs[u] : u \in Urls}
CrModels == UNION {ToSet(ms) : ms \in CrLists}
CrInputs ==
    /\ IsFiniteSet(CrRequests)
    /\ CrUrls \in Seq(Urls) /\ \A i, j \in DOMAIN CrUrls : CrUrls[i] = CrUrls[j] => i = j
    /\ CrWidth \in Nat
    /\ \A u \in Urls : \A n \in CrIds[u] : n \notin {"none", "asked", "failed"} /\ CrRank[n] \in Nat /\ CrRank[n] >= CrWidth
    /\ \A u, v \in Urls : \A m \in CrIds[u], n \in CrIds[v] :
          m # n => CrRank[m] + CrWidth <= CrRank[n] \/ CrRank[n] + CrWidth <= CrRank[m]
    /\ \A ms \in CrLists : ms \in Seq(CrModels) /\ Len(ms) <= CrWidth
    /\ \A m \in CrModels : m.id \in Seq(Nat)

Publics == {c.pub : c \in view(cr)}
Poll == SyncBegin \/ syncSlaves \/ \E u \in Urls : fetchSlaveSnapshots(u)
Next == \/ Poll
        \/ \E ms \in CrLocals : UpdateLocal(ms)
        \/ \E u \in Urls : \/ Register(u) \/ handleNodeRegister(u) \/ RegisterLost(u)
                           \/ refreshAfterCook(u) \/ refreshRemoteConfigNode(u) \/ SlaveChange(u)
        \/ \E r \in CrRequests : \/ Release(r)
                                 \/ \E pub \in Publics, kind \in {"model", "voice"}, healthy \in BOOLEAN :
                                      Acquire(r, pub, kind, healthy)

Spec == Init /\ [][Next]_crvars
-----------------------------------------------------------------------------
\* One owner per node id and per URL, however registrations, polls and refreshes interleave.
OneOwner == /\ LocalID \notin DOMAIN cr.nodes
            /\ \A m, n \in DOMAIN cr.nodes : m # n => cr.nodes[m].url # cr.nodes[n].url

\* Two models of different content get different public ids, those of one id on one node too;
\* only a model that is itself named like another's index may share one.
SamePublicSameContent ==
    \A c, d \in view(cr) :
        c.pub = d.pub /\ c.model.hash # d.model.hash => (c.pub = c.model.id) # (d.pub = d.model.id)

\* What docs/wiki/Cluster-Routing.md:303 promises and holds only where no model is named so (see
\* the findings): one public id, one content.
PublicTellsContent == \A c, d \in view(cr) : c.pub = d.pub => c.model.hash = d.model.hash
NoIndexedNames == \A m, n \in CrModels : \A k \in Nat : m.id # Append(n.id, k)

\* The load the selection sees is the leases there are, although nodes and models come and go.
BusyMatches ==
    LET keys == {routeKey(crq[r]) : r \in {q \in CrRequests : crq[q] # NoRoute}} IN
    /\ DOMAIN cr.busy = keys
    /\ \A k \in keys : cr.busy[k] = Cardinality({r \in CrRequests : crq[r] # NoRoute /\ routeKey(crq[r]) = k})

RegistrySafe == OneOwner /\ SamePublicSameContent /\ BusyMatches

\* Once the slaves stop changing, the registry comes to show each running one as it is, unless
\* it runs an incompatible build or claims what another node owns: a snapshot that was
\* overtaken on its way is corrected by the next poll, and a failed poll by a good one.
Shown(u) == \/ ~crs[u].up \/ Incompatible(Snapshot(u)) \/ Duplicate(cr, Snapshot(u))
            \/ /\ crs[u].id \in DOMAIN cr.nodes /\ crs[u].id \notin cr.unhealthy
               /\ cr.nodes[crs[u].id] = normalizeNodeSnapshot(Snapshot(u))
=============================================================================
