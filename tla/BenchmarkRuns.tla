---------------------------- MODULE BenchmarkRuns ----------------------------
(***************************************************************************)
(* Benchmark runs of one model (internal/proxy/benchmark_*.go,              *)
(* internal/benchmark/store.go).  Runs are admitted on their own and take    *)
(* turns under one lock; the record of the model is rewritten on disk before *)
(* readers see it.                                                          *)
(***************************************************************************)
EXTENDS Integers, Sequences, FiniteSets, SequencesExt

CONSTANTS
    BmRuns,
    BmSections,        \* the ordered sections of a general run
    BmHas,             \* the sections the model can answer
    BmHistoryLimit,
    BmOptionKeys,
    BmMaxEdits, BmMaxFaults      \* bounds: edits of the model; failing writes and crashes

VARIABLES
    bmr,       \* run -> [pc, want, options, expired, results]
    bmm,       \* the model: [options, enabled, edits]
    bmstore,   \* [holder, snapshot, file]
    bmend      \* ghosts: [saved, faults]

bmvars == <<bmr, bmm, bmstore, bmend>>

NoRun == [pc |-> "new", want |-> <<>>, options |-> {}, expired |-> FALSE, results |-> <<>>]
NoRecord == [known |-> FALSE, options |-> {}, history |-> <<>>, latest |-> "none", changes |-> {}]
Result(r, section, status) == [run |-> r, section |-> section, status |-> status]

Init ==
    /\ bmr = [r \in BmRuns |-> NoRun]
    /\ bmm = [options |-> BmOptionKeys, enabled |-> TRUE, edits |-> 0]
    /\ bmstore = [holder |-> "none", snapshot |-> NoRecord, file |-> NoRecord]
    /\ bmend = [saved |-> <<>>, faults |-> 0]

\* normalizeBenchmarkRequest, expandBenchmarkSections: all of them, or some.
expandBenchmarkSections == {BmSections} \cup {<<BmSections[i]>> : i \in DOMAIN BmSections}

\* runLocalBenchmark up to the lock: the model is looked up, and the deadline
\* of the run starts now.
runLocalBenchmark(r) ==
    /\ bmr[r].pc = "new"
    /\ \E want \in expandBenchmarkSections :
         bmr' = [bmr EXCEPT ![r] = IF bmm.enabled THEN [NoRun EXCEPT !.pc = "waiting", !.want = want, !.options = bmm.options]
                                   ELSE [NoRun EXCEPT !.pc = "refused"]]
    /\ UNCHANGED <<bmm, bmstore, bmend>>

Lock(r) ==
    /\ bmr[r].pc = "waiting" /\ bmstore.holder = "none"
    /\ bmstore' = [bmstore EXCEPT !.holder = r]
    /\ bmr' = [bmr EXCEPT ![r].pc = "running"]
    /\ UNCHANGED <<bmm, bmend>>

DeadlinePasses(r) ==
    /\ bmr[r].pc \in {"waiting", "running"} /\ ~bmr[r].expired
    /\ bmr' = [bmr EXCEPT ![r].expired = TRUE]
    /\ UNCHANGED <<bmm, bmstore, bmend>>

\* benchmarkMetrics, metricsStatus: a section the model lacks is skipped; a
\* model disabled meanwhile and an expired run fail their requests.
benchmarkMetrics(r, section) ==
    IF section \notin BmHas THEN {"skipped"}
    ELSE IF bmr[r].expired \/ ~bmm.enabled THEN {"failed"} ELSE {"success", "failed"}

\* runBenchmarkSection, and the loop's end once the deadline has passed.
runBenchmarkSection(r) ==
    LET done == Len(bmr[r].results) IN
    /\ bmr[r].pc = "running" /\ done < Len(bmr[r].want) /\ (done = 0 \/ ~bmr[r].expired)
    /\ \E status \in benchmarkMetrics(r, bmr[r].want[done + 1]) :
         bmr' = [bmr EXCEPT ![r].results = Append(@, Result(r, bmr[r].want[done + 1], status))]
    /\ UNCHANGED <<bmm, bmstore, bmend>>

\* aggregateSummary
aggregateSummary(results) ==
    LET with(status) == \E i \in DOMAIN results : results[i].status = status IN
    IF with("success") THEN IF with("failed") THEN "partial" ELSE "success"
    ELSE IF with("failed") THEN "failed" ELSE "skipped"

\* optionChanges: none for the first run.
optionChanges(record, options) ==
    IF record.known THEN (record.options \ options) \cup (options \ record.options) ELSE {}

LastOf(history) ==
    SubSeq(history, IF Len(history) > BmHistoryLimit THEN (Len(history) - BmHistoryLimit) + 1 ELSE 1, Len(history))
Saved(record, run) ==
    [known |-> TRUE, options |-> run.options, changes |-> optionChanges(record, run.options),
     history |-> LastOf(record.history \o run.results), latest |-> aggregateSummary(run.results)]

\* SaveRun: written to disk, then shown to readers; a failing write shows nothing.
RunDone(r, pc) == bmr' = [bmr EXCEPT ![r].pc = pc]
SaveRun(r) ==
    LET record == Saved(bmstore.snapshot, bmr[r]) IN
    /\ bmr[r].pc = "running" /\ bmr[r].results # <<>> /\ (bmr[r].expired \/ Len(bmr[r].results) = Len(bmr[r].want))
    /\ \/ /\ bmstore' = [holder |-> "none", snapshot |-> record, file |-> record]
          /\ bmend' = [bmend EXCEPT !.saved = Append(@, bmr[r])]
          /\ RunDone(r, "saved")
       \/ /\ bmend.faults < BmMaxFaults
          /\ bmend' = [bmend EXCEPT !.faults = @ + 1]
          /\ bmstore' = [bmstore EXCEPT !.holder = "none"]
          /\ RunDone(r, "unsaved")
    /\ UNCHANGED bmm

\* The model's config is edited, or the model is switched off or on.
ModelEdited ==
    /\ bmm.edits < BmMaxEdits
    /\ \/ \E o \in SUBSET BmOptionKeys : bmm' = [bmm EXCEPT !.options = o, !.edits = @ + 1]
       \/ bmm' = [bmm EXCEPT !.enabled = ~@, !.edits = @ + 1]
    /\ UNCHANGED <<bmr, bmstore, bmend>>

\* A new process reads the file back.
loadStoreFile ==
    /\ bmend.faults < BmMaxFaults
    /\ bmend' = [bmend EXCEPT !.faults = @ + 1]
    /\ bmstore' = [holder |-> "none", snapshot |-> bmstore.file, file |-> bmstore.file]
    /\ bmr' = [r \in BmRuns |-> IF bmr[r].pc \in {"waiting", "running"} THEN [bmr[r] EXCEPT !.pc = "gone"] ELSE bmr[r]]
    /\ UNCHANGED bmm

RunStep(r) == Lock(r) \/ runBenchmarkSection(r) \/ SaveRun(r)
Next == ModelEdited \/ loadStoreFile \/ \E r \in BmRuns : RunStep(r) \/ runLocalBenchmark(r) \/ DeadlinePasses(r)

Spec == Init /\ [][Next]_bmvars

(* ------------------------------ properties ------------------------------ *)
AllResults == FlattenSeq([i \in DOMAIN bmend.saved |-> bmend.saved[i].results])

\* What readers see is what the file holds, through failing writes and
\* restarts; the history is the newest results of the saved runs, run after
\* run; the changes are those between the last two saved runs.
RecordIsTheFile ==
    /\ bmstore.snapshot = bmstore.file
    /\ bmstore.file.history = LastOf(AllResults)
    /\ bmstore.file.known <=> bmend.saved # <<>>
    /\ \A i \in {Len(bmend.saved)} \ {0} :
          /\ bmstore.file.options = bmend.saved[i].options
          /\ i > 1 => bmstore.file.changes = (bmend.saved[i].options \ bmend.saved[i - 1].options)
                                             \cup (bmend.saved[i - 1].options \ bmend.saved[i].options)

\* One run at a time uses the backend, and the turn is given back on every path.
OneRunAtATime ==
    /\ \A r \in BmRuns : bmr[r].pc = "running" => bmstore.holder = r
    /\ \A r \in BmRuns : bmstore.holder = r => bmr[r].pc = "running"

BenchmarkSafe == RecordIsTheFile /\ OneRunAtATime

=============================================================================
