----------------------------- MODULE LoadCapture -----------------------------
(***************************************************************************)
(* The record of model loads (internal/loadcapture,                         *)
(* internal/proxy/load_capture.go, load_capture_handlers.go).  A load       *)
(* writes an attempt, listens to its backend's output through a hub shared   *)
(* by every load of that backend, and completes the attempt with what it    *)
(* heard, sanitised; later requests that reuse the loaded model are linked   *)
(* to it.  A reader pages through the attempts of all nodes.                *)
(* Output is a sequence of tokens: "x" is harmless, "a" followed by "b" is  *)
(* a value to be replaced by "r".                                           *)
(***************************************************************************)
EXTENDS Integers, Sequences, FiniteSets, FiniteSetsExt, SequencesExt

CONSTANTS
    LcNodes,
    LcLoads,          \* load slots (one per lane), each on any node
    LcPayloads,       \* what a backend may write at once
    LcMaxChunk,       \* maxChunkBytes
    LcOutputLimit,    \* load_capture_max_output_bytes
    LcPageLimit,
    LcIds,            \* attempt ids; the order of ids is unrelated to time
    LcMaxTime, LcMaxWrites, LcMaxConfig, LcMaxFaults   \* bounds

VARIABLES
    lctime,
    lcn,       \* node -> [up, config, sequence, attempts]
    lcl,       \* load -> [pc, node, attempt, snapshot, capture, heard]
    lcp,       \* the reader
    lcend      \* ghosts: [wrote, faults]

lcvars == <<lctime, lcn, lcl, lcp, lcend>>

NoCapture == [chunks |-> <<>>, captured |-> 0, truncated |-> FALSE]
IdleLoad == [pc |-> "idle", node |-> "none", attempt |-> 0, snapshot |-> 0, capture |-> NoCapture, heard |-> <<>>]
NoReader == [pc |-> "none", cursor |-> <<0, 0>>, left |-> <<>>, page |-> {}, seen |-> <<>>, due |-> {}, errors |-> FALSE]
Pair(a) == <<a.started, a.id>>

Init ==
    /\ lctime = 1
    /\ lcn = [n \in LcNodes |-> [up |-> TRUE, config |-> 1, sequence |-> 0, attempts |-> {}]]
    /\ lcl = [l \in LcLoads |-> IdleLoad]
    /\ lcp = NoReader
    /\ lcend = [wrote |-> 0, faults |-> 0]

Attempts == UNION {lcn[n].attempts : n \in LcNodes}
FreeIds == LcIds \ {a.id : a \in Attempts}
Row(n, id) == CHOOSE a \in lcn[n].attempts : a.id = id
Insert(n, a) == lcn' = [lcn EXCEPT ![n].attempts = @ \cup {a}]
Fails == lcend.faults < LcMaxFaults /\ lcend' = [lcend EXCEPT !.faults = @ + 1]

(* ------------------------------ sanitising ------------------------------ *)
Combined(chunks) == FlattenSeq([i \in DOMAIN chunks |-> chunks[i].payload])
Owner(chunks, position) ==
    CHOOSE i \in DOMAIN chunks :
        LET before == Len(Combined(SubSeq(chunks, 1, i - 1))) IN
        before < position /\ position <= before + Len(chunks[i].payload)
HasKeyAt(text, i) == i \in 1 .. Len(text) - 1 /\ text[i] = "a" /\ text[i + 1] = "b"

\* sanitizeChunks: values are looked for in all the output put together, so one
\* that two chunks share is found; its replacement goes to the first of them.
sanitizeChunks(chunks) ==
    LET text == Combined(chunks)
        kept == SelectSeq([i \in 1 .. Len(text) |-> i], LAMBDA i : ~HasKeyAt(text, i - 1))
        payload(c) == LET own == SelectSeq(kept, LAMBDA i : Owner(chunks, i) = c)
                      IN  [k \in DOMAIN own |-> IF HasKeyAt(text, own[k]) THEN "r" ELSE text[own[k]]]
    IN  SelectSeq([c \in DOMAIN chunks |-> [chunks[c] EXCEPT !.payload = payload(c)]], LAMBDA c : c.payload # <<>>)

(* -------------------------------- the hub ------------------------------- *)
Subscribers(n) == {l \in LcLoads : lcl[l].pc = "loading" /\ lcl[l].node = n}

\* One chunk reaches a subscriber, cut to what its limit leaves.
Captured(capture, sequence, payload) ==
    LET remaining == LcOutputLimit - capture.captured
        taken == IF Len(payload) > remaining THEN SubSeq(payload, 1, remaining) ELSE payload
    IN  IF remaining <= 0 THEN [capture EXCEPT !.truncated = TRUE]
        ELSE [chunks |-> Append(capture.chunks, [sequence |-> sequence, payload |-> taken]),
              captured |-> capture.captured + Len(taken),
              truncated |-> capture.truncated \/ Len(payload) > remaining]

Pieces(payload) ==
    [i \in 1 .. (Len(payload) + LcMaxChunk - 1) \div LcMaxChunk |->
        SubSeq(payload, (i - 1) * LcMaxChunk + 1, IF i * LcMaxChunk < Len(payload) THEN i * LcMaxChunk ELSE Len(payload))]

\* record: with nobody listening the sequence does not move.
record(n, payload) ==
    /\ lcn[n].up /\ lcend.wrote < LcMaxWrites /\ payload # <<>>
    /\ lcend' = [lcend EXCEPT !.wrote = @ + 1]
    /\ \E pieces \in {Pieces(payload)} :
         /\ lcn' = [lcn EXCEPT ![n].sequence = IF Subscribers(n) = {} THEN @ ELSE @ + Len(pieces)]
         /\ lcl' = [l \in LcLoads |->
                IF l \notin Subscribers(n) THEN lcl[l]
                ELSE [lcl[l] EXCEPT
                        !.heard = @ \o payload,
                        !.capture = FoldLeft(LAMBDA c, i : Captured(c, lcn[n].sequence + i, pieces[i]),
                                             @, [i \in 1 .. Len(pieces) |-> i])]]
    /\ UNCHANGED <<lctime, lcp>>

(* -------------------------------- loading ------------------------------- *)
Moved(l, pc) == lcl' = [lcl EXCEPT ![l].pc = pc]

\* BuildSnapshot: the config and the files it names, hashed.  A failure ends
\* the load before it starts.
BuildSnapshot(l, n) ==
    /\ lcl[l].pc = "idle" /\ lcn[n].up
    /\ lcl' = [lcl EXCEPT ![l] = [IdleLoad EXCEPT !.pc = "begin", !.node = n, !.snapshot = lcn[n].config]]
    /\ UNCHANGED <<lctime, lcn, lcp, lcend>>

\* BeginPhysical, then Subscribe; a failing write only means no record.
BeginPhysical(l) ==
    LET n == lcl[l].node IN
    /\ lcl[l].pc = "begin"
    /\ \/ \E id \in FreeIds :
            /\ Insert(n, [id |-> id, kind |-> "physical", status |-> "loading", started |-> lctime, source |-> 0,
                          snapshot |-> lcl[l].snapshot, chunks |-> <<>>, captured |-> 0, truncated |-> FALSE])
            /\ lcl' = [lcl EXCEPT ![l].pc = "loading", ![l].attempt = id]
            /\ UNCHANGED lcend
       \/ Fails /\ Moved(l, "unrecorded") /\ UNCHANGED lcn
    /\ UNCHANGED <<lctime, lcp>>

\* The load of the backend ends: finishOutput takes what was heard.
LoadEnds(l) ==
    /\ lcl[l].pc = "loading"
    /\ \E ok \in BOOLEAN : Moved(l, IF ok THEN "succeeded" ELSE "failed")
    /\ UNCHANGED <<lctime, lcn, lcp, lcend>>
UnrecordedEnds(l) ==
    /\ lcl[l].pc = "unrecorded"
    /\ \E ok \in BOOLEAN : lcl' = [lcl EXCEPT ![l] = IF ok THEN [@ EXCEPT !.pc = "ready"] ELSE IdleLoad]
    /\ UNCHANGED <<lctime, lcn, lcp, lcend>>

\* CompletePhysical: status, counts and chunks in one transaction, and only of
\* an attempt still loading.
Completed(a, status, capture) ==
    [a EXCEPT !.status = status, !.chunks = sanitizeChunks(capture.chunks), !.captured = capture.captured,
              !.truncated = capture.truncated]

CompletePhysical(l) ==
    LET n == lcl[l].node
        a == Row(n, lcl[l].attempt)
        after == IF lcl[l].pc = "succeeded" THEN [lcl[l] EXCEPT !.pc = "ready"] ELSE IdleLoad
    IN
    /\ lcl[l].pc \in {"succeeded", "failed"}
    /\ lcl' = [lcl EXCEPT ![l] = after]
    /\ \/ /\ lcn' = [lcn EXCEPT ![n].attempts =
                        IF a.status = "loading" THEN (@ \ {a}) \cup {Completed(a, lcl[l].pc, lcl[l].capture)} ELSE @]
          /\ UNCHANGED lcend
       \/ Fails /\ UNCHANGED lcn
    /\ UNCHANGED <<lctime, lcp>>

\* recordLoadReuse: linked to a load that is recorded as succeeded, or dropped.
RecordReuse(l) ==
    /\ lcl[l].pc = "ready" /\ lcl[l].attempt # 0
    /\ Row(lcl[l].node, lcl[l].attempt).status = "succeeded"
    /\ \E id \in FreeIds :
         Insert(lcl[l].node, [id |-> id, kind |-> "reuse", status |-> "reused", started |-> lctime,
                              source |-> lcl[l].attempt, snapshot |-> Row(lcl[l].node, lcl[l].attempt).snapshot,
                              chunks |-> <<>>, captured |-> 0, truncated |-> FALSE])
    /\ UNCHANGED <<lctime, lcl, lcp, lcend>>

Unload(l) ==
    /\ lcl[l].pc = "ready"
    /\ lcl' = [lcl EXCEPT ![l] = IdleLoad]
    /\ UNCHANGED <<lctime, lcn, lcp, lcend>>

ConfigEdited(n) ==
    /\ lcn[n].config < LcMaxConfig
    /\ lcn' = [lcn EXCEPT ![n].config = @ + 1]
    /\ UNCHANGED <<lctime, lcl, lcp, lcend>>

Crash(n) ==
    /\ lcn[n].up /\ Fails
    /\ lcn' = [lcn EXCEPT ![n].up = FALSE, ![n].sequence = 0]
    /\ lcl' = [l \in LcLoads |-> IF lcl[l].node = n THEN IdleLoad ELSE lcl[l]]
    /\ UNCHANGED <<lctime, lcp>>

\* NewStore, reconcileInterruptedAttempts
reconcileInterruptedAttempts(n) ==
    /\ ~lcn[n].up
    /\ lcn' = [lcn EXCEPT ![n].up = TRUE,
                          ![n].attempts = {IF a.status = "loading" THEN [a EXCEPT !.status = "interrupted"] ELSE a : a \in @}]
    /\ UNCHANGED <<lctime, lcl, lcp, lcend>>

(* ------------------------------- reading -------------------------------- *)
\* Output: the pages of a reuse are those of the load it reuses.
Output(n, a) == IF a.source = 0 THEN a.chunks ELSE Row(n, a.source).chunks
\* Detail: the snapshot is found by its hash.
Detail(n, a) == a.snapshot

Before(p, q) == p[1] < q[1] \/ (p[1] = q[1] /\ p[2] < q[2])
Newest(S, k) == SubSeq(SetToSortSeq(S, LAMBDA a, b : Before(b, a)), 1, IF Cardinality(S) < k THEN Cardinality(S) ELSE k)

\* filterClause with a cursor; no cursor asks for the newest.
filterClause(n, cursor) == {Pair(a) : a \in {b \in lcn[n].attempts : cursor = <<0, 0>> \/ Before(Pair(b), cursor)}}

\* handleSiteLoadCaptures: node after node, a failing one is reported and left out.
handleSiteLoadCaptures ==
    /\ lcp.pc = "none"
    /\ lcp' = [NoReader EXCEPT !.pc = "page", !.left = SetToSeq(LcNodes), !.due = {Pair(a) : a \in Attempts}]
    /\ UNCHANGED <<lctime, lcn, lcl, lcend>>

loadCapturesFromNode ==
    /\ lcp.pc = "page" /\ lcp.left # <<>>
    /\ \E n \in {Head(lcp.left)} :
         lcp' = IF lcn[n].up
                THEN [lcp EXCEPT !.left = Tail(@), !.page = @ \cup ToSet(Newest(filterClause(n, lcp.cursor), LcPageLimit))]
                ELSE [lcp EXCEPT !.left = Tail(@), !.errors = TRUE]
    /\ UNCHANGED <<lctime, lcn, lcl, lcend>>

\* The pages of the nodes are sorted, cut to one, and a full one has a cursor.
NextCursor ==
    /\ lcp.pc = "page" /\ lcp.left = <<>>
    /\ \E page \in {Newest(lcp.page, LcPageLimit)} :
         lcp' = IF Len(page) = LcPageLimit
                THEN [lcp EXCEPT !.seen = @ \o page, !.page = {}, !.cursor = page[Len(page)], !.left = SetToSeq(LcNodes)]
                ELSE [lcp EXCEPT !.seen = @ \o page, !.pc = "done"]
    /\ UNCHANGED <<lctime, lcn, lcl, lcend>>

Tick == lctime < LcMaxTime /\ lctime' = lctime + 1 /\ UNCHANGED <<lcn, lcl, lcp, lcend>>

LoadStep(l) ==
    \/ BeginPhysical(l) \/ LoadEnds(l) \/ UnrecordedEnds(l) \/ CompletePhysical(l) \/ RecordReuse(l) \/ Unload(l)
ReadStep == handleSiteLoadCaptures \/ loadCapturesFromNode \/ NextCursor

Next ==
    \/ Tick \/ ReadStep
    \/ \E l \in LcLoads : LoadStep(l) \/ \E n \in LcNodes : BuildSnapshot(l, n)
    \/ \E n \in LcNodes : Crash(n) \/ reconcileInterruptedAttempts(n) \/ ConfigEdited(n) \/ \E p \in LcPayloads : record(n, p)

Spec == Init /\ [][Next]_lcvars

(* ------------------------------ properties ------------------------------ *)
\* An attempt is loading only while the load that owns it runs, or, when its
\* last write failed, until the router starts again; a reuse always names a
\* load that succeeded on its node and shows that load's config and output.
AttemptsAreHonest ==
    \A n \in LcNodes : \A a \in lcn[n].attempts :
        /\ a.status = "loading" /\ lcn[n].up =>
              (\E l \in LcLoads : lcl[l].attempt = a.id /\ lcl[l].node = n) \/ lcend.faults > 0
        /\ a.kind = "reuse" =>
              \E s \in lcn[n].attempts : /\ s.id = a.source /\ s.kind = "physical" /\ s.status = "succeeded"
                                         /\ s.snapshot = Detail(n, a) /\ Output(n, a) = s.chunks

\* What a load heard between its start and its end is kept in order, without
\* gaps, up to the limit; it is marked truncated exactly when something was
\* left out; two loads of one backend never take each other's place.
CaptureIsFaithful ==
    \A l \in LcLoads :
        LET c == lcl[l].capture
            text == Combined(c.chunks) IN
        /\ text = SubSeq(lcl[l].heard, 1, Len(text))
        /\ c.captured = Len(text) /\ c.captured <= LcOutputLimit
        /\ c.truncated <=> Len(lcl[l].heard) > Len(text)
        /\ ~c.truncated \/ Len(text) = LcOutputLimit
        /\ \A i \in 2 .. Len(c.chunks) : c.chunks[i].sequence = c.chunks[i - 1].sequence + 1

\* No stored output holds a value to be replaced, wherever the chunks broke,
\* and everything else of it is stored.
NothingLeaks ==
    \A a \in Attempts :
        LET text == Combined(a.chunks) IN
        /\ \A i \in 1 .. Len(text) : ~HasKeyAt(text, i)
        /\ Len(text) + Cardinality({i \in 1 .. Len(text) : text[i] = "r"}) = a.captured

\* A reader that met no failing node saw every attempt that was there when it
\* began, newest first and none twice, whatever was written meanwhile.
PagesAreComplete ==
    /\ \A i, j \in DOMAIN lcp.seen : i < j => Before(lcp.seen[j], lcp.seen[i])
    /\ lcp.pc = "done" /\ ~lcp.errors => lcp.due \subseteq ToSet(lcp.seen)

LoadCaptureSafe == AttemptsAreHonest /\ CaptureIsFaithful /\ NothingLeaks /\ PagesAreComplete
=============================================================================
