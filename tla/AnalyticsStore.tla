---------------------------- MODULE AnalyticsStore ----------------------------
(***************************************************************************)
(* Request analytics (internal/analytics, internal/routerstore,             *)
(* internal/proxy/analytics.go).  Every request leaves one event; events    *)
(* wait in a bounded buffer, are written with their hourly and daily        *)
(* rollups in one transaction, and raw rows are pruned by age.  A query     *)
(* reads raw rows or rollups, node by node, and merges the answers.  An     *)
(* older router's database is imported once.  Time is counted in hours.     *)
(***************************************************************************)
EXTENDS Integers, Sequences, FiniteSets, FiniteSetsExt, SequencesExt

CONSTANTS
    AnNodes,
    AnRequests,      \* requests, each run by some node
    AnLoads,         \* model loads, each on some node
    AnPeak,          \* id -> the VRAM peak it reports
    AnLegacy,        \* node -> events of an older database, by id
    HoursPerDay, HourSpan,        \* HourSpan: the longest range shown by the hour
    AnBufferLimit, AnRawRetention,
    AnMaxTime, AnMaxFaults    \* bounds: clock; failing writes, stops and crashes

VARIABLES
    antime,
    ann,      \* node -> [phase, buf, raw, roll, legacy, imported]
    anf,      \* <<node, flusher>> -> [pc, events]
    anr,      \* request or load -> [pc, node]
    anq,      \* the query in progress
    anend     \* ghosts: [written, dropped, lost] per node, and the faults so far

anvars == <<antime, ann, anf, anr, anq, anend>>

Flushers == {"loop", "query", "close"}
Periods == {"hour", "day"}
NoRow == [requests |-> 0, success |-> 0, loads |-> 0, peak |-> 0]
Max2(a, b) == IF a > b THEN a ELSE b

\* bucketStart
bucketStart(t, period) == IF period = "hour" THEN t ELSE (t \div HoursPerDay) * HoursPerDay
Keys == Periods \X (0 .. AnMaxTime)

\* writeRollups: what one event adds; the merge clause adds counters and keeps maxima.
RowOf(e) == [requests |-> IF e.load THEN 0 ELSE 1, success |-> IF ~e.load /\ e.ok THEN 1 ELSE 0,
             loads |-> IF e.load THEN 1 ELSE 0, peak |-> e.peak]
rollupMergeClause(a, b) == [requests |-> a.requests + b.requests, success |-> a.success + b.success,
                            loads |-> a.loads + b.loads, peak |-> Max2(a.peak, b.peak)]
SumRows(rows) == FoldSeq(LAMBDA x, acc : rollupMergeClause(acc, x), NoRow, rows)
Aggregate(events) == SumRows([i \in 1 .. Cardinality(events) |-> RowOf(SetToSeq(events)[i])])
writeRollups(roll, e) ==
    [k \in Keys |-> IF k[2] = bucketStart(e.at, k[1]) THEN rollupMergeClause(roll[k], RowOf(e)) ELSE roll[k]]
NoRollups == [k \in Keys |-> NoRow]
RollupsOf(events) == FoldSet(LAMBDA e, roll : writeRollups(roll, e), NoRollups, events)

IdleFlush == [pc |-> "idle", events |-> <<>>]
NoRequest == [pc |-> "new", node |-> "none"]
NoAnswer == [summary |-> NoRow, timeline |-> NoRow]
NoQuery == [pc |-> "none", left |-> <<>>, start |-> 0, end |-> 0, part |-> "summary", rollup |-> FALSE, cut |-> 0,
            got |-> NoAnswer, want |-> NoAnswer, mixed |-> FALSE]

Init ==
    /\ antime = HoursPerDay - 1       \* the last hour of a day
    /\ ann = [n \in AnNodes |-> [phase |-> "down", buf |-> <<>>, raw |-> {}, roll |-> NoRollups,
                                 legacy |-> IF AnLegacy[n] = {} THEN "none" ELSE "present", imported |-> FALSE]]
    /\ anf = [x \in AnNodes \X Flushers |-> IdleFlush]
    /\ anr = [r \in AnRequests \cup AnLoads |-> NoRequest]
    /\ anq = NoQuery
    /\ anend = [written |-> [n \in AnNodes |-> {}], dropped |-> {}, lost |-> {}, faults |-> 0]

Up(n) == ann[n].phase \in {"open", "closing", "draining"}
Ids(events) == {e.id : e \in events}

(* ---------------------------- opening the store ------------------------- *)
\* Open: the schema is migrated, then older databases are looked at.
Open(n) ==
    /\ ann[n].phase = "down"
    /\ ann' = [ann EXCEPT ![n].phase = "import"]
    /\ UNCHANGED <<antime, anf, anr, anq, anend>>

legacyImportRecorded(n) == ann[n].imported

\* importLegacySource: nothing to do, or already recorded.
importLegacySource(n) ==
    /\ ann[n].phase = "import" /\ (ann[n].legacy # "present" \/ legacyImportRecorded(n))
    /\ ann' = [ann EXCEPT ![n].phase = "open"]
    /\ UNCHANGED <<antime, anf, anr, anq, anend>>

\* copyLegacySource: rows, merged rollups and the record of it in one
\* transaction; a failure is a warning.
copyLegacySource(n) ==
    /\ ann[n].phase = "import" /\ ann[n].legacy = "present" /\ ~legacyImportRecorded(n)
    /\ \/ /\ ann' = [ann EXCEPT ![n].phase = "archive", ![n].imported = TRUE, ![n].raw = @ \cup AnLegacy[n],
                                ![n].roll = [k \in Keys |-> rollupMergeClause(@[k], RollupsOf(AnLegacy[n])[k])]]
          /\ anend' = [anend EXCEPT !.written[n] = @ \cup AnLegacy[n]]
       \/ /\ anend.faults < AnMaxFaults
          /\ anend' = [anend EXCEPT !.faults = @ + 1]
          /\ ann' = [ann EXCEPT ![n].phase = "open"]
    /\ UNCHANGED <<antime, anf, anr, anq>>

\* archiveLegacyFile: the rename may fail too.
archiveLegacyFile(n) ==
    /\ ann[n].phase = "archive"
    /\ \E moved \in BOOLEAN : ann' = [ann EXCEPT ![n].phase = "open", ![n].legacy = IF moved THEN "archived" ELSE @]
    /\ UNCHANGED <<antime, anf, anr, anq, anend>>

(* ------------------------------ recording ------------------------------- *)
\* Record: the oldest event makes room.
Recorded(n, e) ==
    LET buf == ann[n].buf IN
    IF Len(buf) >= AnBufferLimit
    THEN /\ ann' = [ann EXCEPT ![n].buf = Append(Tail(buf), e)]
         /\ anend' = [anend EXCEPT !.dropped = @ \cup {Head(buf).id}]
    ELSE ann' = [ann EXCEPT ![n].buf = Append(buf, e)] /\ UNCHANGED anend

Event(r, ok, load) == [id |-> r, at |-> antime, ok |-> ok, load |-> load, peak |-> AnPeak[r]]
RequestStep(r, n, pc) == anr' = [anr EXCEPT ![r].pc = pc, ![r].node = n]

\* withResponse, recordForwardFailure: no response (the backend failed, or the
\* client had gone), or one without a body, is recorded at once; a body is
\* watched until it ends.
withResponse(r, n) ==
    /\ r \in AnRequests /\ anr[r].pc = "new" /\ Up(n)
    /\ \/ \E ok \in BOOLEAN : Recorded(n, Event(r, ok, FALSE)) /\ RequestStep(r, n, "closed")
       \/ RequestStep(r, n, "body") /\ UNCHANGED <<ann, anend>>
    /\ UNCHANGED <<antime, anf, anq>>

\* Mutant: the end of the body and its close each record the request.
finishEachTime(r, next) ==
    /\ anr[r].pc \in {"body", "eof"} /\ Up(anr[r].node)
    /\ Recorded(anr[r].node, Event(r, TRUE, FALSE))
    /\ anr' = [anr EXCEPT ![r].pc = next]

\* finish runs once, at the end of the body or when it is closed.
finish(r, next) ==
    /\ anr[r].pc \in {"body", "eof"} /\ Up(anr[r].node)
    /\ IF anr[r].pc = "body" THEN Recorded(anr[r].node, Event(r, TRUE, FALSE))
       ELSE UNCHANGED <<ann, anend>>
    /\ anr' = [anr EXCEPT ![r].pc = next]

ReadEOF(r) == anr[r].pc = "body" /\ finish(r, "eof") /\ UNCHANGED <<antime, anf, anq>>
CloseBody(r) == finish(r, "closed") /\ UNCHANGED <<antime, anf, anq>>

\* recordLoad
recordLoad(r, n) ==
    /\ r \in AnLoads /\ anr[r].pc = "new" /\ Up(n)
    /\ Recorded(n, Event(r, TRUE, TRUE)) /\ RequestStep(r, n, "closed")
    /\ UNCHANGED <<antime, anf, anq>>

(* ------------------------------- flushing ------------------------------- *)
rawRetentionCutoff(now) == IF now < AnRawRetention THEN 0 ELSE bucketStart(now - AnRawRetention, "day")

\* Flush, takeBufferedEvents
MayFlush(n, f) ==
    CASE f = "loop"  -> ann[n].phase = "open"
      [] f = "query" -> Up(n) /\ anq.pc = "flush" /\ Head(anq.left) = n
      [] OTHER       -> ann[n].phase = "draining"

takeBufferedEvents(n, f) ==
    /\ anf[<<n, f>>].pc = "idle" /\ MayFlush(n, f)
    /\ anf' = [anf EXCEPT ![<<n, f>>] = [pc |-> IF ann[n].buf = <<>> THEN "prune" ELSE "write", events |-> ann[n].buf]]
    /\ ann' = [ann EXCEPT ![n].buf = <<>>]
    /\ UNCHANGED <<antime, anr, anq, anend>>

\* writeEvents: rows and rollups of the whole batch commit together.
writeEvents(n, f) ==
    LET batch == ToSet(anf[<<n, f>>].events) IN
    /\ anf[<<n, f>>].pc = "write"
    /\ ann' = [ann EXCEPT ![n].raw = @ \cup batch, ![n].roll = FoldSet(LAMBDA e, roll : writeRollups(roll, e), @, batch)]
    /\ anend' = [anend EXCEPT !.written[n] = @ \cup batch]
    /\ anf' = [anf EXCEPT ![<<n, f>>] = [pc |-> "prune", events |-> <<>>]]
    /\ UNCHANGED <<antime, anr, anq>>

FlushEnds(n, f) ==
    /\ anf' = [anf EXCEPT ![<<n, f>>] = IdleFlush]
    /\ anq' = IF f = "query" THEN [anq EXCEPT !.pc = "choose"] ELSE anq

\* requeue: a failed batch goes back in front, the oldest beyond the limit go.
requeue(all) == SubSeq(all, (Len(all) - AnBufferLimit) + 1, Len(all))

writeFails(n, f) ==
    LET all == anf[<<n, f>>].events \o ann[n].buf IN
    /\ anf[<<n, f>>].pc = "write" /\ anend.faults < AnMaxFaults
    /\ FlushEnds(n, f)
    /\ \E kept \in {IF Len(all) > AnBufferLimit THEN requeue(all) ELSE all} :
         /\ ann' = [ann EXCEPT ![n].buf = kept, ![n].phase = IF f = "close" THEN "closed" ELSE @]
         /\ anend' = [anend EXCEPT !.faults = @ + 1, !.dropped = @ \cup Ids(ToSet(all) \ ToSet(kept))]
    /\ UNCHANGED <<antime, anr>>

pruneRawEvents(n, f) ==
    /\ anf[<<n, f>>].pc = "prune"
    /\ FlushEnds(n, f)
    /\ ann' = [ann EXCEPT ![n].raw = {e \in @ : e.at >= rawRetentionCutoff(antime)},
                          ![n].phase = IF f = "close" THEN "closed" ELSE @]
    /\ UNCHANGED <<antime, anr, anend>>

\* Close: the loop is told and awaited, then the rest is flushed.
Close(n) ==
    /\ ann[n].phase = "open" /\ anend.faults < AnMaxFaults
    /\ ann' = [ann EXCEPT ![n].phase = "closing"]
    /\ anend' = [anend EXCEPT !.faults = @ + 1]
    /\ UNCHANGED <<antime, anf, anr, anq>>

LoopEnded(n) ==
    /\ ann[n].phase = "closing" /\ anf[<<n, "loop">>].pc = "idle"
    /\ ann' = [ann EXCEPT ![n].phase = "draining"]
    /\ UNCHANGED <<antime, anf, anr, anq, anend>>

\* The process is gone: what is only in memory is lost.
InMemory(n) == Ids(ToSet(ann[n].buf)) \cup UNION {Ids(ToSet(anf[<<n, f>>].events)) : f \in Flushers}
Gone(n) ==
    /\ ann' = [ann EXCEPT ![n].phase = "down", ![n].buf = <<>>]
    /\ anf' = [x \in DOMAIN anf |-> IF x[1] = n THEN IdleFlush ELSE anf[x]]
    /\ anr' = [r \in DOMAIN anr |-> IF anr[r].node = n THEN [anr[r] EXCEPT !.pc = "closed"] ELSE anr[r]]
    /\ anq' = IF anq.pc \in {"flush", "choose", "read"} /\ Head(anq.left) = n THEN NoQuery ELSE anq
    /\ UNCHANGED antime

Exit(n) ==
    /\ ann[n].phase = "closed" /\ Gone(n)
    /\ anend' = [anend EXCEPT !.lost = @ \cup InMemory(n)]
Crash(n) ==
    /\ ann[n].phase \notin {"down", "closed"} /\ anend.faults < AnMaxFaults /\ Gone(n)
    /\ anend' = [anend EXCEPT !.lost = @ \cup InMemory(n), !.faults = @ + 1]

(* ------------------------------- querying ------------------------------- *)
Granularity == IF anq.end - anq.start <= HourSpan THEN "hour" ELSE "day"

\* Query: each node flushes first, then answers part by part.
Query ==
    /\ anq.pc = "none"
    /\ \E start \in 0 .. antime :
         anq' = [NoQuery EXCEPT !.pc = "flush", !.left = SetToSeq(AnNodes), !.start = start, !.end = antime]
    /\ \A n \in AnNodes : Up(n)
    /\ UNCHANGED <<antime, ann, anf, anr, anend>>

\* queryUsesRollups, asked again for each part.
queryUsesRollups ==
    /\ anq.pc = "choose"
    /\ \E cut \in {rawRetentionCutoff(antime)} :
         anq' = [anq EXCEPT !.pc = "read", !.cut = cut,
                            !.rollup = cut > 0 /\ anq.start < cut,
                            !.mixed = @ \/ (anq.part # "summary" /\ anq.rollup # (cut > 0 /\ anq.start < cut))]
    /\ UNCHANGED <<antime, ann, anf, anr, anend>>

\* eventWhere, dailyRollupWhere, queryTimeline: the rows each part reads.
eventWhere(n) == {e \in ann[n].raw : e.at \in anq.start .. anq.end}
Buckets(n, period, from, to) == SumRows([i \in 1 .. (to - from) + 1 |-> ann[n].roll[<<period, from + (i - 1)>>]])
dailyRollup(n) == Buckets(n, "day", bucketStart(anq.start, "day"), bucketStart(anq.end, "day"))
queryTimeline(n) == Buckets(n, Granularity, bucketStart(anq.start, Granularity), anq.end)
queryPart(n) ==
    IF anq.part = "timeline" THEN queryTimeline(n)
    ELSE IF anq.rollup THEN dailyRollup(n) ELSE Aggregate(eventWhere(n))

\* What the part should count, from all that was ever written.
Wanted(n) ==
    LET within(from, to, period) == Aggregate({e \in anend.written[n] : bucketStart(e.at, period) \in from .. to}) IN
    IF anq.part = "timeline" THEN within(bucketStart(anq.start, Granularity), anq.end, Granularity)
    ELSE IF anq.rollup THEN within(bucketStart(anq.start, "day"), bucketStart(anq.end, "day"), "day")
    ELSE Aggregate({e \in anend.written[n] : e.at \in anq.start .. anq.end})

\* Merge: the node's part is added to the answer so far.  The parts by
\* section, model and node read the rows the summary reads, grouped.
Merge(n) ==
    /\ anq.pc = "read" /\ Head(anq.left) = n
    /\ anq' = [anq EXCEPT !.got[anq.part] = rollupMergeClause(@, queryPart(n)),
                          \* raw rows may be pruned at the turn of a day, after they were chosen
                          !.want[anq.part] = rollupMergeClause(@,
                              IF anq.part = "summary" /\ ~anq.rollup /\ anq.cut # rawRetentionCutoff(antime)
                              THEN queryPart(n) ELSE Wanted(n)),
                          !.part = IF @ = "summary" THEN "timeline" ELSE "summary",
                          !.left = IF anq.part = "timeline" THEN Tail(@) ELSE @,
                          !.pc = IF anq.part = "summary" THEN "choose" ELSE IF Len(anq.left) = 1 THEN "answered" ELSE "flush"]
    /\ UNCHANGED <<antime, ann, anf, anr, anend>>

\* The answer is sent.
Reply ==
    /\ anq.pc = "answered"
    /\ anq' = NoQuery
    /\ UNCHANGED <<antime, ann, anf, anr, anend>>

Tick ==
    /\ antime < AnMaxTime
    /\ antime' = antime + 1
    /\ UNCHANGED <<ann, anf, anr, anq, anend>>

FlushStep(n, f) == takeBufferedEvents(n, f) \/ writeEvents(n, f) \/ writeFails(n, f) \/ pruneRawEvents(n, f)
OpenStep(n) == Open(n) \/ importLegacySource(n) \/ copyLegacySource(n) \/ archiveLegacyFile(n)
QueryStep == Reply \/ queryUsesRollups \/ \E n \in AnNodes : Merge(n)

Next ==
    \/ Tick \/ Query \/ QueryStep
    \/ \E n \in AnNodes : OpenStep(n) \/ Close(n) \/ LoopEnded(n) \/ Exit(n) \/ Crash(n)
    \/ \E n \in AnNodes, f \in Flushers : FlushStep(n, f)
    \/ \E n \in AnNodes, r \in AnRequests \cup AnLoads : withResponse(r, n) \/ recordLoad(r, n)
    \/ \E r \in AnRequests : ReadEOF(r) \/ CloseBody(r)

Spec == Init /\ [][Next]_anvars

(* ------------------------------ properties ------------------------------ *)
Copies(n, id) == Cardinality({i \in DOMAIN ann[n].buf : ann[n].buf[i].id = id})
                 + MapThenSumSet(LAMBDA f : Cardinality({i \in DOMAIN anf[<<n, f>>].events : anf[<<n, f>>].events[i].id = id}), Flushers)
                 + Cardinality({e \in anend.written[n] : e.id = id})

\* Every request and load leaves exactly one event: waiting, in a batch or
\* written, unless it was pushed out of a full buffer or lost with a process;
\* requeued batches and several flushers never lose or double one.
OneEventEach ==
    \A r \in DOMAIN anr :
        LET copies == MapThenSumSet(LAMBDA n : Copies(n, r), AnNodes) IN
        /\ copies <= 1
        /\ copies = 1 => r \notin anend.dropped \cup anend.lost
        /\ anr[r].pc = "eof" => copies = 1 \/ r \in anend.dropped \cup anend.lost

\* Rollups count what was written, each event once in its hour and its day,
\* through imports, failures and crashes; raw rows younger than the retention
\* are all there.
RollupsExact ==
    \A n \in AnNodes :
        /\ ann[n].roll = RollupsOf(anend.written[n])
        /\ ann[n].raw \subseteq anend.written[n]
        /\ \A e \in anend.written[n] : e.at >= rawRetentionCutoff(antime) => e \in ann[n].raw

\* A query counts all that was written before it read, once, whichever table
\* it read; no event of the summary is missing from the timeline.
QueryExact ==
    /\ anq.got = anq.want
    /\ anq.pc = "answered" /\ ~anq.rollup /\ ~anq.mixed => anq.got.summary.requests <= anq.got.timeline.requests

AnalyticsSafe == OneEventEach /\ RollupsExact /\ QueryExact
=============================================================================
