----------------------------- MODULE RecordStores -----------------------------
(***************************************************************************)
(* Two stores of the router's database.  Load errors                        *)
(* (internal/loaderrors, internal/proxy/load_errors*.go): one row per kind   *)
(* of failure with a count of its sightings, written at once, cleared over   *)
(* the cluster.  Lending decisions (internal/offloaddecisions): buffered,   *)
(* flushed by a loop and at close.  Both prune by age, at most once in an   *)
(* interval.                                                                *)
(***************************************************************************)
EXTENDS Integers, Sequences, FiniteSets, FiniteSetsExt, SequencesExt

CONSTANTS
    RsNodes, RsFailures,       \* failures as reported
    RsFingerprint,             \* failure -> its fingerprint
    RsDecisions,
    RsRetention, RsPruneEach, RsBufferLimit,
    RsMaxTime, RsMaxSightings, RsMaxFaults    \* bounds

VARIABLES
    rstime,
    rse,       \* node -> [rows, prunedAt]
    rsclear,   \* the clearing of all nodes: [left, cleared, failed]
    rsd,       \* [phase, buffer, batch, pc, rows, prunedAt, new]
    rsend      \* ghosts: [sightings per node and fingerprint, dropped, count, faults]

rsvars == <<rstime, rse, rsclear, rsd, rsend>>

Prints == {RsFingerprint[f] : f \in RsFailures}
NoRow == [count |-> 0, first |-> 0, last |-> 0, text |-> "none"]
NoClear == [pc |-> "none", left |-> {}, cleared |-> {}, count |-> 0]

Init ==
    /\ rstime = 1
    /\ rse = [n \in RsNodes |-> [rows |-> [p \in Prints |-> NoRow], prunedAt |-> 0, legacy |-> "none"]]
    /\ rsclear = NoClear
    /\ rsd = [phase |-> IF RsDecisions = {} THEN "absent" ELSE "open",   \* the store is optional
             buffer |-> <<>>, batch |-> <<>>, pc |-> "idle", rows |-> {}, prunedAt |-> 0, new |-> RsDecisions]
    /\ rsend = [seen |-> [n \in RsNodes |-> [p \in Prints |-> <<>>]], dropped |-> {}, lost |-> {}, pruned |-> {}, count |-> 0, faults |-> 0]

(* ------------------------------ load errors ----------------------------- *)
Due(prunedAt, now) == prunedAt = 0 \/ now - prunedAt >= RsPruneEach
Expired(row, now) == row.count > 0 /\ row.last < now - RsRetention

\* Record's upsert: the first sighting is kept, the rest is the newest's.
Sighted(row, f) ==
    [count |-> row.count + 1, first |-> IF row.count = 0 THEN rstime ELSE row.first, last |-> rstime, text |-> f]

\* pruneExpired, after the upsert.
pruneExpired(rows) == [p \in Prints |-> IF Expired(rows[p], rstime) THEN NoRow ELSE rows[p]]

Record(n, f) ==
    LET p == RsFingerprint[f]
        rows == [rse[n].rows EXCEPT ![p] = Sighted(@, f)]
        due == Due(rse[n].prunedAt, rstime)
        after == IF due THEN pruneExpired(rows) ELSE rows
    IN
    /\ rsend.count < RsMaxSightings
    /\ rse' = [rse EXCEPT ![n].rows = after, ![n].prunedAt = IF due THEN rstime ELSE @]
    /\ rsend' = [rsend EXCEPT !.count = @ + 1,
                    !.seen[n] = [q \in Prints |-> IF after[q].count = 0 THEN <<>>
                                                  ELSE IF q = p THEN Append(rsend.seen[n][q], <<rstime, f>>) ELSE rsend.seen[n][q]]]
    /\ UNCHANGED <<rstime, rsclear, rsd>>

\* mergeByFingerprint, when a router starts: rows of an older database (one sighting each here) join
\* the rows that are there.
mergeByFingerprint(row, old) ==
    IF row.count = 0 THEN old
    ELSE [count |-> row.count + old.count, first |-> IF old.first < row.first THEN old.first ELSE row.first,
          last |-> IF old.last > row.last THEN old.last ELSE row.last,
          text |-> IF old.last >= row.last THEN old.text ELSE row.text]

ImportLegacy(n, f) ==
    LET p == RsFingerprint[f]
        old == [count |-> 1, first |-> rstime - 1, last |-> rstime - 1, text |-> f]
    IN
    /\ rse[n].legacy = "none" /\ rstime > 1
    /\ rse' = [rse EXCEPT ![n].legacy = "merged", ![n].rows[p] = IF @.count = 0 THEN old ELSE mergeByFingerprint(@, old)]
    /\ rsend' = [rsend EXCEPT !.seen[n][p] =
                    \* its place in time, after the sightings of the same moment
                    SelectSeq(@, LAMBDA s : s[1] <= rstime - 1) \o <<<<rstime - 1, f>>>> \o SelectSeq(@, LAMBDA s : s[1] > rstime - 1)]
    /\ UNCHANGED <<rstime, rsclear, rsd>>

\* handleSiteLoadErrorsClear: this node, then every other; one that cannot be
\* reached is reported.
handleSiteLoadErrorsClear ==
    /\ rsclear.pc = "none"
    /\ rsclear' = [NoClear EXCEPT !.pc = "clearing", !.left = RsNodes]
    /\ UNCHANGED <<rstime, rse, rsd, rsend>>

Clear(n) ==
    /\ rsclear.pc = "clearing" /\ n \in rsclear.left
    /\ \/ /\ rse' = [rse EXCEPT ![n].rows = [p \in Prints |-> NoRow]]
          /\ rsend' = [rsend EXCEPT !.seen[n] = [p \in Prints |-> <<>>]]
          /\ rsclear' = [rsclear EXCEPT !.left = @ \ {n}, !.cleared = @ \cup {n},
                            !.count = @ + Cardinality({p \in Prints : rse[n].rows[p].count > 0})]
       \/ /\ rsend.faults < RsMaxFaults
          /\ rsend' = [rsend EXCEPT !.faults = @ + 1]
          /\ rsclear' = [rsclear EXCEPT !.left = @ \ {n}]
          /\ UNCHANGED rse
    /\ UNCHANGED <<rstime, rsd>>

\* List: the rows of every node.
List == {<<n, p>> \in RsNodes \X Prints : rse[n].rows[p].count > 0}

(* --------------------------- lending decisions -------------------------- *)
Ids(records) == {records[i].id : i \in DOMAIN records}
Newest(records) ==
    IF Len(records) > RsBufferLimit THEN SubSeq(records, (Len(records) - RsBufferLimit) + 1, Len(records)) ELSE records

RecordDecision(d) ==
    /\ d \in rsd.new
    /\ \E all \in {Append(rsd.buffer, [id |-> d, at |-> rstime])} :
         /\ rsd' = [rsd EXCEPT !.new = @ \ {d}, !.buffer = Newest(all)]
         /\ rsend' = [rsend EXCEPT !.dropped = @ \cup (Ids(all) \ Ids(Newest(all)))]
    /\ UNCHANGED <<rstime, rse, rsclear>>

\* Flush: by the loop while the store is open, once more by Close.
takeBuffered ==
    /\ rsd.pc = "idle" /\ rsd.phase \in {"open", "draining"}
    /\ rsd' = [rsd EXCEPT !.pc = "write", !.batch = rsd.buffer, !.buffer = <<>>]
    /\ UNCHANGED <<rstime, rse, rsclear, rsend>>
Flushed(d) == [d EXCEPT !.pc = "idle", !.batch = <<>>, !.phase = IF @ = "draining" THEN "closed" ELSE @]

\* write, and pruneExpired when one is due.
write ==
    LET due == Due(rsd.prunedAt, rstime)
        rows == rsd.rows \cup ToSet(rsd.batch)
        old == IF due THEN {r \in rows : r.at < rstime - RsRetention} ELSE {}
    IN
    /\ rsd.pc = "write"
    /\ rsd' = Flushed([rsd EXCEPT !.rows = rows \ old, !.prunedAt = IF due THEN rstime ELSE @])
    /\ rsend' = [rsend EXCEPT !.pruned = @ \cup {r.id : r \in old}]
    /\ UNCHANGED <<rstime, rse, rsclear>>

requeue ==
    /\ rsd.pc = "write" /\ rsend.faults < RsMaxFaults
    /\ \E all \in {rsd.batch \o rsd.buffer} :
         /\ rsd' = Flushed([rsd EXCEPT !.buffer = Newest(all)])
         /\ rsend' = [rsend EXCEPT !.faults = @ + 1, !.dropped = @ \cup (Ids(all) \ Ids(Newest(all)))]
    /\ UNCHANGED <<rstime, rse, rsclear>>

\* Close waits for the loop, which may be in a flush.
Close ==
    /\ rsd.phase = "open" /\ rsd' = [rsd EXCEPT !.phase = "closing"]
    /\ UNCHANGED <<rstime, rse, rsclear, rsend>>
flushLoopEnds ==
    /\ rsd.phase = "closing" /\ rsd.pc = "idle"
    /\ rsd' = [rsd EXCEPT !.phase = "draining"]
    /\ UNCHANGED <<rstime, rse, rsclear, rsend>>
Stopped ==
    /\ rsd.phase = "closed"
    /\ rsd' = [rsd EXCEPT !.phase = "open", !.buffer = <<>>]
    /\ rsend' = [rsend EXCEPT !.lost = @ \cup Ids(rsd.buffer)]
    /\ UNCHANGED <<rstime, rse, rsclear>>

Tick == rstime < RsMaxTime /\ rstime' = rstime + 1 /\ UNCHANGED <<rse, rsclear, rsd, rsend>>

DecisionStep == takeBuffered \/ write \/ requeue \/ Close \/ flushLoopEnds \/ Stopped \/ \E d \in RsDecisions : RecordDecision(d)
Next ==
    \/ Tick \/ DecisionStep \/ handleSiteLoadErrorsClear
    \/ \E n \in RsNodes : Clear(n) \/ \E f \in RsFailures : Record(n, f) \/ ImportLegacy(n, f)

Spec == Init /\ [][Next]_rsvars

(* ------------------------------ properties ------------------------------ *)
\* A row counts exactly the sightings since it last was cleared or pruned,
\* spans them in time and shows the newest, whether they were recorded or came
\* from an older database; a row is never pruned while it is young.
RowsCountSightings ==
    /\ List = {<<n, p>> \in RsNodes \X Prints : rsend.seen[n][p] # <<>>}
    /\ \A n \in RsNodes, p \in Prints :
        LET seen == rsend.seen[n][p]
            row == rse[n].rows[p] IN
        /\ row.count = Len(seen)
        /\ seen # <<>> => row.first = seen[1][1] /\ row.last = seen[Len(seen)][1] /\ row.text = seen[Len(seen)][2]

\* Every decision is waiting, in a batch or stored, once; it is missing only if
\* it was pushed out, pruned at its age, or recorded after the last flush.
DecisionsAreKept ==
    \A d \in RsDecisions :
        LET copies == Cardinality({i \in DOMAIN rsd.buffer : rsd.buffer[i].id = d})
                      + Cardinality({i \in DOMAIN rsd.batch : rsd.batch[i].id = d}) + Cardinality({r \in rsd.rows : r.id = d}) IN
        /\ copies <= 1
        /\ copies = 0 <=> d \in rsd.new \cup rsend.dropped \cup rsend.pruned \cup rsend.lost

RecordStoresSafe == RowsCountSightings /\ DecisionsAreKept
=============================================================================
