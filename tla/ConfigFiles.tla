----------------------------- MODULE ConfigFiles -----------------------------
(***************************************************************************)
(* Model configs as files: saved and deleted by the config editor          *)
(* (proxy/config_file_handlers.go), composed by cooking for one node or    *)
(* for several with a recipe that joins them (proxy/site_cook.go,          *)
(* internal/cook, internal/recipes), read into the catalog and the cluster *)
(* registry (internal/catalog, proxy/site_inventory.go), and accompanied   *)
(* by the MCP artifacts generated from them (internal/mcp/reconciler.go).  *)
(*                                                                         *)
(* Only the refresh of a catalog and the reconciler have locks: two calls  *)
(* interleave at every other step.  The registry is the one of the node    *)
(* the operator talks to; the other nodes answer its calls.                *)
(***************************************************************************)
EXTENDS Naturals, Sequences, FiniteSets

CONSTANTS
    CcCallers,
    CcNode,         \* config file -> the node that holds it
    CcLocal,        \* the node the operator talks to
    CcContents,     \* [mcp, backend, servers]: what configs may say
    CcGroups,       \* the files a cook writes, one per node, ordered by node
    CcMcpOn,        \* mcp.enabled of the nodes
    CcMaxCalls, CcMaxFaults    \* bounds

VARIABLES
    ccfile,    \* file -> content
    ccart,     \* file -> [servers, overlay]: generated beside it
    ccsnap,    \* file -> content the catalog of its node shows
    ccreg,     \* file -> content the registry shows
    ccrec,     \* the files the stored recipe joins
    cclock,    \* node -> who refreshes its catalog
    cccall,    \* caller -> its call
    cchist     \* [calls, faults, up] and ghosts: [debt, raced, unseen, deleted], and how often the
               \* local catalog was published (made), the newest and the last of these the
               \* registry was given (newest, shown)

ccvars == <<ccfile, ccart, ccsnap, ccreg, ccrec, cclock, cccall, cchist>>

CcFiles == DOMAIN CcNode
CcNodes == {CcNode[f] : f \in CcFiles} \cup {CcLocal}
Of(n) == {f \in CcFiles : CcNode[f] = n}
NoFile == [mcp |-> FALSE, backend |-> "none", servers |-> "none"]
Torn == [mcp |-> FALSE, backend |-> "torn", servers |-> "none"]   \* a file cut short
NoArtifacts == [servers |-> "none", overlay |-> FALSE]
NoCall ==
    [op |-> "none", pc |-> "idle", file |-> "none", content |-> NoFile, over |-> FALSE,
     group |-> 1, last |-> 1,            \* of a cook: the group it writes, the last one
     detached |-> FALSE,                 \* the file it has open is no longer the one of that name
     node |-> CcLocal,                   \* the node the call is at
     todo |-> {}, got |-> [f \in CcFiles |-> NoFile],    \* a refresh: files to read, what was read
     listed |-> 0,                       \* the publication of the catalog it listed
     left |-> {},                        \* nodes whose snapshot has yet to be fetched
     wrote |-> {}]                       \* files changed and not yet shown
Free == "free"

Init ==
    /\ ccfile = [f \in CcFiles |-> NoFile]
    /\ ccart = [f \in CcFiles |-> NoArtifacts]
    /\ ccsnap = ccfile /\ ccreg = ccfile
    /\ ccrec = {}
    /\ cclock = [n \in CcNodes |-> Free]
    /\ cccall = [k \in CcCallers |-> NoCall]
    /\ cchist = [calls |-> 0, faults |-> 0, up |-> TRUE, debt |-> {}, raced |-> {}, unseen |-> {},
                 deleted |-> {}, made |-> 0, newest |-> 0, shown |-> 0]

(* ---------------------------- MCP artifacts ----------------------------- *)
\* decodeServers: a config of another family, or a torn one, is refused.
decodeServers(c) == c.backend \in {"kobold", "llama_sdcpp"}

\* What reconcileLocked leaves beside a config.
Wanted(c) ==
    IF CcMcpOn /\ c.mcp THEN [servers |-> c.servers, overlay |-> c.backend = "kobold"] ELSE NoArtifacts

\* Without mcp.enabled the config is not even read.
Reconcilable(f) == CcMcpOn => ccfile[f] # NoFile /\ decodeServers(ccfile[f])

\* What is generated for f now: a delete that has removed the artifacts of f and
\* not yet f itself has lost against it.
RacedBy(f) ==
    IF Wanted(ccfile[f]) # NoArtifacts /\ (\E k \in CcCallers : cccall[k].pc = "unlink" /\ cccall[k].file = f)
    THEN cchist.raced \cup {f} ELSE cchist.raced

reconcileLocked(f) ==
    /\ Reconcilable(f)
    /\ ccart' = [ccart EXCEPT ![f] = Wanted(ccfile[f])]
    /\ cchist' = [cchist EXCEPT !.debt = @ \ {f}, !.raced = RacedBy(f)]

\* servers.json is written or removed, the overlay no longer.
reconcilePartly(f) ==
    Reconcilable(f) /\ ccart' = [ccart EXCEPT ![f].servers = Wanted(ccfile[f]).servers]

(* ------------------------------- calls ---------------------------------- *)
Goto(k, pc) == cccall' = [cccall EXCEPT ![k].pc = pc]

\* A call returns an error: what it changed nobody has shown yet.  fault tells
\* whether the world failed it.
Fault == cchist.faults < CcMaxFaults
Fails(k, fault, hist) ==
    /\ fault => Fault
    /\ cccall' = [cccall EXCEPT ![k] = NoCall]
    /\ cchist' = [hist EXCEPT !.unseen = @ \cup cccall[k].wrote, !.faults = IF fault THEN @ + 1 ELSE @]

Begin(k, call) ==
    /\ cchist.up /\ cccall[k].pc = "idle" /\ cchist.calls < CcMaxCalls
    /\ cccall' = [cccall EXCEPT ![k] = call]
    /\ cchist' = [cchist EXCEPT !.calls = @ + 1]
    /\ UNCHANGED <<ccfile, ccart, ccsnap, ccreg, ccrec, cclock>>

\* A new file under the name f: who still writes the old one writes nowhere.
Replaced(f, calls) ==
    [k \in CcCallers |-> IF calls[k].pc = "fill" /\ calls[k].file = f THEN [calls[k] EXCEPT !.detached = TRUE]
                         ELSE calls[k]]

\* saveLocalConfigFile up to the write: the file may exist only if it may be
\* overwritten, and its MCP section is validated whether MCP is on or off.
saveLocalConfigFile(k) ==
    \E f \in CcFiles, c \in CcContents, over \in BOOLEAN :
        /\ (ccfile[f] # NoFile => over) /\ decodeServers(c)
        /\ Begin(k, [NoCall EXCEPT !.op = "save", !.pc = "write", !.file = f, !.content = c, !.node = CcNode[f]])

\* writeLocalConfigFile: the file is replaced in one rename, then reconciled.
writeLocalConfigFile(k) ==
    LET f == cccall[k].file IN
    /\ cccall[k].pc = "write"
    /\ ccfile' = [ccfile EXCEPT ![f] = cccall[k].content]
    /\ cccall' = Replaced(f, [cccall EXCEPT ![k].pc = "reconcile", ![k].wrote = {f}, ![k].content = NoFile])
    /\ cchist' = [cchist EXCEPT !.deleted = @ \ {f}]
    /\ UNCHANGED <<ccart, ccsnap, ccreg, ccrec, cclock>>

\* The directory or the file cannot be written: nothing has changed.
writeFails(k) ==
    /\ cccall[k].pc = "write"
    /\ Fails(k, TRUE, cchist)
    /\ UNCHANGED <<ccfile, ccart, ccsnap, ccreg, ccrec, cclock>>

Reconcile(k) ==
    /\ cccall[k].pc = "reconcile"
    /\ reconcileLocked(cccall[k].file)
    /\ Goto(k, "refresh")
    /\ UNCHANGED <<ccfile, ccsnap, ccreg, ccrec, cclock>>

\* The file is gone or torn by another call, or an artifact cannot be written
\* or removed, perhaps after servers.json was: the save fails, its file stays.
ReconcileFails(k) ==
    LET f == cccall[k].file IN
    /\ cccall[k].pc = "reconcile"
    /\ ccart' = ccart \/ reconcilePartly(f)
    /\ Fails(k, Reconcilable(f),
             [cchist EXCEPT !.debt = IF Reconcilable(f) THEN @ \cup {f} ELSE @, !.raced = RacedBy(f)])
    /\ UNCHANGED <<ccfile, ccsnap, ccreg, ccrec, cclock>>

\* deleteLocalConfigFile: first the artifacts, then the file.
deleteLocalConfigFile(k) ==
    \E f \in CcFiles :
        Begin(k, [NoCall EXCEPT !.op = "delete", !.pc = "remove", !.file = f, !.node = CcNode[f]])

Remove(k) ==
    /\ cccall[k].pc = "remove"
    /\ ccart' = [ccart EXCEPT ![cccall[k].file] = NoArtifacts]
    /\ cchist' = [cchist EXCEPT !.raced = @ \ {cccall[k].file}]
    /\ Goto(k, "unlink")
    /\ UNCHANGED <<ccfile, ccsnap, ccreg, ccrec, cclock>>

\* removeArtifacts fails, perhaps half-way: the file stays.
RemoveFails(k) ==
    LET f == cccall[k].file IN
    /\ cccall[k].pc = "remove"
    /\ \E left \in {ccart[f].servers, "none"} : ccart' = [ccart EXCEPT ![f].servers = left]
    /\ Fails(k, TRUE, [cchist EXCEPT !.debt = @ \cup {f}])
    /\ UNCHANGED <<ccfile, ccsnap, ccreg, ccrec, cclock>>

Unlink(k) ==
    LET f == cccall[k].file IN
    /\ cccall[k].pc = "unlink" /\ ccfile[f] # NoFile
    /\ ccfile' = [ccfile EXCEPT ![f] = NoFile]
    /\ cccall' = Replaced(f, [cccall EXCEPT ![k].pc = "refresh", ![k].wrote = {f}])
    /\ cchist' = [cchist EXCEPT !.deleted = @ \cup {f}]
    /\ UNCHANGED <<ccart, ccsnap, ccreg, ccrec, cclock>>

\* It was not there, or cannot be removed.
UnlinkFails(k) ==
    LET f == cccall[k].file IN
    /\ cccall[k].pc = "unlink"
    /\ Fails(k, ccfile[f] # NoFile, [cchist EXCEPT !.debt = IF ccfile[f] # NoFile THEN @ \cup {f} ELSE @])
    /\ UNCHANGED <<ccfile, ccart, ccsnap, ccreg, ccrec, cclock>>

(* ------------------------------- cooking -------------------------------- *)
\* cookGroups: one group per node, in their order.
AtGroup(call, i) ==
    [call EXCEPT !.pc = "group", !.group = i, !.file = CcGroups[i], !.node = CcNode[CcGroups[i]], !.detached = FALSE]

\* planCook: components of one node, or of several.
planCook(k) ==
    \E last \in {1, Len(CcGroups)}, c \in CcContents, over \in BOOLEAN :
        Begin(k, AtGroup([NoCall EXCEPT !.op = "cook", !.last = last, !.content = c, !.over = over], 1))

\* refreshAfterCook: the local files, then the snapshots of the other nodes.
refreshAfterCook(call) ==
    [call EXCEPT !.pc = "refresh", !.node = CcLocal,
                 !.left = {CcNode[CcGroups[i]] : i \in 1 .. call.last} \ {CcLocal}]

\* writeCookConfigs: the next group, at the end the recipe if there are several.
NextGroup(call) ==
    IF call.group < call.last THEN AtGroup(call, call.group + 1)
    ELSE IF call.last > 1 THEN [call EXCEPT !.pc = "recipe", !.node = CcLocal]
    ELSE refreshAfterCook(call)

\* writeCookGroup: another node shows its files before it answers.
writeCookGroup(call) == IF call.node = CcLocal THEN NextGroup(call) ELSE [call EXCEPT !.pc = "refresh"]

\* reusableConfig: without options of its own, a config the catalog knows serves.
reusableConfig(k) ==
    /\ cccall[k].pc = "group" /\ ccsnap[cccall[k].file] # NoFile
    /\ cccall' = [cccall EXCEPT ![k] = writeCookGroup(@)]
    /\ UNCHANGED <<ccfile, ccart, ccsnap, ccreg, ccrec, cclock, cchist>>

\* Writer.write up to the write: the file may exist only if it may be
\* overwritten, then the config is composed.
composedConfig(k) ==
    /\ cccall[k].pc = "group" /\ (ccfile[cccall[k].file] # NoFile => cccall[k].over)
    /\ Goto(k, "open")
    /\ UNCHANGED <<ccfile, ccart, ccsnap, ccreg, ccrec, cclock, cchist>>

\* Not a rename: the file is cut to nothing, then filled, and nothing is
\* reconciled.
WriteOpens(k) ==
    LET f == cccall[k].file IN
    /\ cccall[k].pc = "open"
    /\ ccfile' = [ccfile EXCEPT ![f] = Torn]
    /\ cccall' = [cccall EXCEPT ![k].pc = "fill", ![k].wrote = @ \cup {f}]
    /\ cchist' = [cchist EXCEPT !.debt = @ \cup {f}, !.deleted = @ \ {f}]
    /\ UNCHANGED <<ccart, ccsnap, ccreg, ccrec, cclock>>

\* Two cooks that fill one file may leave a mixture.
WriteFills(k) ==
    LET f == cccall[k].file
        result == IF cccall[k].detached THEN {ccfile[f]}
                  ELSE {cccall[k].content} \cup (IF ccfile[f] = Torn THEN {} ELSE {Torn}) IN
    /\ cccall[k].pc = "fill"
    /\ \E c \in result : ccfile' = [ccfile EXCEPT ![f] = c]
    /\ cccall' = [cccall EXCEPT ![k] = writeCookGroup(@)]
    /\ cchist' = [cchist EXCEPT !.debt = IF cccall[k].detached THEN @ ELSE @ \cup {f}]
    /\ UNCHANGED <<ccart, ccsnap, ccreg, ccrec, cclock>>

\* The file exists, the components do not compose, the node does not answer,
\* the write fails and leaves the file cut short.  Groups written before stay.
GroupFails(k) ==
    LET f == cccall[k].file  cut == cccall[k].pc = "fill" /\ ~cccall[k].detached IN
    /\ cccall[k].pc \in {"group", "open", "fill"}
    /\ ccfile' = ccfile \/ (cut /\ ccfile' = [ccfile EXCEPT ![f] = Torn])
    /\ Fails(k, cccall[k].pc # "group" \/ ccfile[f] = NoFile \/ cccall[k].over,
             [cchist EXCEPT !.debt = IF cut THEN @ \cup {f} ELSE @])
    /\ UNCHANGED <<ccart, ccsnap, ccreg, ccrec, cclock>>

\* Store.Save by cookPlan: stored and then shown, under the store's lock.
Save(k) ==
    /\ cccall[k].pc = "recipe" /\ (ccrec # {} => cccall[k].over)
    /\ ccrec' = {CcGroups[i] : i \in 1 .. cccall[k].last}
    /\ cccall' = [cccall EXCEPT ![k] = refreshAfterCook(@)]
    /\ UNCHANGED <<ccfile, ccart, ccsnap, ccreg, cclock, cchist>>

\* A recipe of that id exists, or the file cannot be written: nothing is shown.
SaveFails(k) ==
    /\ cccall[k].pc = "recipe"
    /\ Fails(k, ccrec = {} \/ cccall[k].over, cchist)
    /\ UNCHANGED <<ccfile, ccart, ccsnap, ccreg, ccrec, cclock>>

\* Store.Delete
Delete ==
    /\ cchist.up /\ ccrec # {} /\ cchist.calls < CcMaxCalls
    /\ ccrec' = {}
    /\ cchist' = [cchist EXCEPT !.calls = @ + 1]
    /\ UNCHANGED <<ccfile, ccart, ccsnap, ccreg, cclock, cccall>>

(* ------------------------ catalog and registry -------------------------- *)
\* refresh: one at a time; the directory is listed, then file by file read.
refresh(k) ==
    LET n == cccall[k].node IN
    /\ cccall[k].pc = "refresh" /\ cclock[n] = Free
    /\ cclock' = [cclock EXCEPT ![n] = k]
    /\ cccall' = [cccall EXCEPT ![k].pc = "scan", ![k].todo = {f \in Of(n) : ccfile[f] # NoFile},
                                ![k].got = [f \in CcFiles |-> NoFile]]
    /\ UNCHANGED <<ccfile, ccart, ccsnap, ccreg, ccrec, cchist>>

scanModels(k) ==
    \E f \in cccall[k].todo :
        /\ cccall[k].pc = "scan" /\ ccfile[f] # NoFile
        /\ cccall' = [cccall EXCEPT ![k].todo = @ \ {f}, ![k].got[f] = ccfile[f]]
        /\ UNCHANGED <<ccfile, ccart, ccsnap, ccreg, ccrec, cclock, cchist>>

\* A file that was listed is gone, or the directory cannot be read.
scanFails(k) ==
    /\ cccall[k].pc = "scan"
    /\ Fails(k, \A f \in cccall[k].todo : ccfile[f] # NoFile, cchist)
    /\ cclock' = [cclock EXCEPT ![cccall[k].node] = Free]
    /\ UNCHANGED <<ccfile, ccart, ccsnap, ccreg, ccrec>>

\* The snapshot is published as a whole.
newCatalogSnapshot(k) ==
    LET n == cccall[k].node
        snap == [f \in CcFiles |-> IF f \in Of(n) THEN cccall[k].got[f] ELSE ccsnap[f]] IN
    /\ cccall[k].pc = "scan" /\ cccall[k].todo = {}
    /\ ccsnap' = snap
    /\ cclock' = [cclock EXCEPT ![n] = Free]
    /\ cccall' = [cccall EXCEPT ![k].pc = IF n = CcLocal THEN "list" ELSE "answer", ![k].wrote = @ \ Of(n)]
    /\ cchist' = [cchist EXCEPT !.unseen = {f \in @ : snap[f] # ccfile[f]}, !.made = IF n = CcLocal THEN @ + 1 ELSE @]
    /\ UNCHANGED <<ccfile, ccart, ccreg, ccrec>>

\* localClusterModels
localClusterModels(k) ==
    /\ cccall[k].pc = "list"
    /\ cccall' = [cccall EXCEPT ![k].got = ccsnap, ![k].listed = cchist.made, ![k].pc = "update"]
    /\ UNCHANGED <<ccfile, ccart, ccsnap, ccreg, ccrec, cclock, cchist>>

\* UpdateLocal of what was listed; another refresh may have come in between, and
\* then the registry goes back to the older list.
UpdateLocal(k) ==
    /\ cccall[k].pc = "update"
    /\ ccreg' = [f \in CcFiles |-> IF f \in Of(CcLocal) THEN cccall[k].got[f] ELSE ccreg[f]]
    /\ cchist' = [cchist EXCEPT !.shown = cccall[k].listed, !.newest = IF @ > cccall[k].listed THEN @ ELSE cccall[k].listed]
    /\ cccall' = [cccall EXCEPT ![k] = IF @.left = {} THEN NoCall ELSE [@ EXCEPT !.pc = "fetch"]]
    /\ UNCHANGED <<ccfile, ccart, ccsnap, ccrec, cclock>>

\* A store behind localClusterModels cannot be read, or the registry refuses.
listFails(k) ==
    /\ cccall[k].pc \in {"list", "update"}
    /\ Fails(k, TRUE, cchist)
    /\ UNCHANGED <<ccfile, ccart, ccsnap, ccreg, ccrec, cclock>>

\* The other node's answer arrives: a cook goes on, a save or a delete asks
\* for that node's snapshot.
Answer(k) ==
    /\ cccall[k].pc = "answer"
    /\ cccall' = [cccall EXCEPT ![k] = IF @.op = "cook" THEN NextGroup(@)
                                       ELSE [@ EXCEPT !.pc = "fetch", !.left = {cccall[k].node}]]
    /\ UNCHANGED <<ccfile, ccart, ccsnap, ccreg, ccrec, cclock, cchist>>

AnswerLost(k) ==
    /\ cccall[k].pc = "answer"
    /\ Fails(k, TRUE, cchist)
    /\ UNCHANGED <<ccfile, ccart, ccsnap, ccreg, ccrec, cclock>>

\* refreshRemoteConfigNode: a node that does not answer is marked unhealthy and
\* keeps its models in the registry.
refreshRemoteConfigNode(k) ==
    \E n \in cccall[k].left, reached \in BOOLEAN :
        /\ cccall[k].pc = "fetch" /\ (reached \/ Fault)
        /\ ccreg' = [f \in CcFiles |-> IF reached /\ f \in Of(n) THEN ccsnap[f] ELSE ccreg[f]]
        /\ cccall' = [cccall EXCEPT ![k] = IF @.left = {n} THEN NoCall ELSE [@ EXCEPT !.left = @ \ {n}]]
        /\ cchist' = [cchist EXCEPT !.faults = IF reached THEN @ ELSE @ + 1]
        /\ UNCHANGED <<ccfile, ccart, ccsnap, ccrec, cclock>>

(* ----------------------- loads, crash and restart ----------------------- *)
\* A load reconciles its config first (LaunchArguments, adminReloadBody); one
\* that finds everything in place changes nothing.
LaunchArguments(f) ==
    /\ cchist.up /\ ccart[f] # Wanted(ccfile[f])
    /\ reconcileLocked(f)
    /\ UNCHANGED <<ccfile, ccsnap, ccreg, ccrec, cclock, cccall>>

LaunchFails(f) ==
    /\ cchist.up /\ Fault
    /\ reconcilePartly(f)
    /\ cchist' = [cchist EXCEPT !.faults = @ + 1, !.debt = @ \cup {f}, !.raced = RacedBy(f)]
    /\ UNCHANGED <<ccfile, ccsnap, ccreg, ccrec, cclock, cccall>>

\* The router dies between two steps of its calls and is started again:
\* startMCP reconciles every config and refuses to start when one cannot be,
\* then catalog and registry are filled.  NewWithStore, ReconcileAll.
ReconcileAll ==
    LET mine == {f \in Of(CcLocal) : ccfile[f] # NoFile}  starts == \A f \in mine : Reconcilable(f) IN
    /\ cchist.up /\ Fault /\ \A k \in CcCallers : cccall[k].node = CcLocal
    /\ \E done \in SUBSET {f \in mine : Reconcilable(f)} :
         /\ starts => done = mine
         /\ ccart' = [f \in CcFiles |-> IF f \in done THEN Wanted(ccfile[f]) ELSE ccart[f]]
         /\ cchist' = [cchist EXCEPT !.faults = @ + 1, !.up = starts, !.debt = @ \ done, !.newest = cchist.made,
                           !.shown = cchist.made, !.unseen = @ \ Of(CcLocal)]
    /\ ccsnap' = [f \in CcFiles |-> IF f \in Of(CcLocal) THEN ccfile[f] ELSE ccsnap[f]]
    /\ ccreg' = [f \in CcFiles |-> IF f \in Of(CcLocal) THEN ccfile[f] ELSE ccreg[f]]
    /\ cccall' = [k \in CcCallers |-> NoCall]
    /\ cclock' = [cclock EXCEPT ![CcLocal] = Free]
    /\ UNCHANGED <<ccfile, ccrec>>

Next ==
    \/ \E k \in CcCallers :
         \/ saveLocalConfigFile(k) \/ writeLocalConfigFile(k) \/ writeFails(k) \/ Reconcile(k) \/ ReconcileFails(k)
         \/ deleteLocalConfigFile(k) \/ Remove(k) \/ RemoveFails(k) \/ Unlink(k) \/ UnlinkFails(k)
         \/ planCook(k) \/ reusableConfig(k) \/ composedConfig(k) \/ WriteOpens(k) \/ WriteFills(k)
         \/ GroupFails(k)
         \/ Save(k) \/ SaveFails(k)
         \/ refresh(k) \/ scanModels(k) \/ scanFails(k) \/ newCatalogSnapshot(k)
         \/ localClusterModels(k) \/ UpdateLocal(k) \/ listFails(k) \/ Answer(k) \/ AnswerLost(k)
         \/ refreshRemoteConfigNode(k)
    \/ Delete \/ ReconcileAll
    \/ \E f \in CcFiles : LaunchArguments(f) \/ LaunchFails(f)

Spec == Init /\ [][Next]_ccvars

(* ------------------------------ properties ------------------------------ *)
InCall(f, pcs) == \E k \in CcCallers : cccall[k].file = f /\ cccall[k].pc \in pcs

\* Whatever saves, deletes, cooks and loads interleave, the artifacts beside a
\* config are the ones its content asks for, unless a cook wrote it or its
\* reconciliation, its removal or its load failed since they were generated.
ArtifactsMatch ==
    \A f \in CcFiles :
        ccfile[f] # NoFile /\ f \notin cchist.debt /\ ~InCall(f, {"reconcile", "unlink"}) =>
            ccart[f] = Wanted(ccfile[f])

\* A deleted config leaves no artifacts, whatever failed, unless it was
\* reconciled between the two halves of its deletion.
NoOrphanArtifacts ==
    \A f \in CcFiles :
        ccfile[f] = NoFile /\ f \notin cchist.raced /\ ~InCall(f, {"unlink"}) => ccart[f] = NoArtifacts

\* A file that is not as the catalog shows it belongs to a call that is still
\* to refresh, or that failed before it did.
CatalogShowsFiles ==
    \A f \in CcFiles : ccsnap[f] # ccfile[f] => f \in cchist.unseen \cup UNION {cccall[k].wrote : k \in CcCallers}

\* Once those who refresh are done, the registry has been given what the catalog
\* shows, unless the world failed one of them, and shows it still unless a list
\* made earlier was written after it.
NoneRefreshes == \A k \in CcCallers : cccall[k].pc \notin {"list", "update"}
RegistryFollows ==
    NoneRefreshes /\ cchist.faults = 0 =>
        /\ cchist.newest = cchist.made
        /\ cchist.shown = cchist.newest => \A f \in Of(CcLocal) : ccreg[f] = ccsnap[f]

\* What one expects and the code does not keep (see the findings): an older list
\* is never written over a newer one.
RegistryNeverGoesBack == cchist.shown = cchist.newest

\* A recipe joins configs that were all written: no failure of one node leaves
\* a recipe with a part that never was.
RecipeIsWhole == \A f \in ccrec : ccfile[f] # NoFile \/ f \in cchist.deleted

\* What the documents say and the code does not keep (see the findings): a
\* config that does not enable MCP has no artifacts once its calls are over.
DisabledHasNone ==
    \A f \in CcFiles :
        ccfile[f] \notin {NoFile, Torn} /\ ~ccfile[f].mcp /\ (\A k \in CcCallers : cccall[k].file # f)
            /\ cchist.faults = 0 => ccart[f] = NoArtifacts

\* And: only a config that is cut short keeps the router from starting.
StartsWithWholeConfigs == ~cchist.up => \E f \in Of(CcLocal) : ccfile[f] = Torn

ConfigFilesSafe == ArtifactsMatch /\ NoOrphanArtifacts /\ CatalogShowsFiles /\ RegistryFollows /\ RecipeIsWhole
=============================================================================
