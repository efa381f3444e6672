---------------------------- MODULE PortableConfig ----------------------------
(***************************************************************************)
(* The two forms of a model config (internal/modelassets/portable*.go): a   *)
(* field names files by path, or portably by hash, file name and Hugging    *)
(* Face origin.  A config is exported on one node, stored on another,       *)
(* resolved there, and an asset nobody has is replaced by one the operator  *)
(* picked.  A config is a partial function from keys <<field, suffix>>.     *)
(***************************************************************************)
EXTENDS Naturals, Sequences, FiniteSets

CONSTANTS
    PfNodes, PfFields,
    PfFiles,        \* paths; the same path holds the same file on every node
    PfHash, PfName, \* path -> content hash, base name
    PfHashed,       \* fields whose paths count for the model hash
    PfHubHashes,    \* hashes some Hugging Face repository serves
    PfGiven,        \* node -> the portable config an operator put there: field -> path, for some fields
    PfMaxWrites     \* bound on what operators write or replace

VARIABLES
    pfconf,  \* node -> the config file's content
    pfhave,  \* node -> paths of files it holds and has indexed
    pforig,  \* node -> hashes bound to an origin
    pfui,    \* the operator's form: what a page showed, not yet submitted
    pfhist   \* [want: node -> field -> the hashes meant, manual: nodes written by hand, seen, writes]

pfvars == <<pfconf, pfhave, pforig, pfui, pfhist>>

Nothing == [node |-> "none"]
Keys(f) == {f} \X {"", "_hash", "_filename", "_hf"}
Hashes == {PfHash[p] : p \in PfFiles}
Restrict2(config, keys) == [k \in keys |-> config[k]]
Without(config, f) == Restrict2(config, DOMAIN config \ Keys(f))
Set(config, k, value) == [x \in DOMAIN config \cup {k} |-> IF x = k THEN value ELSE config[x]]
Value(arr, vals) == [arr |-> arr, v |-> vals]
Mapped(s, Op(_)) == [i \in 1 .. Len(s) |-> Op(s[i])]

\* A config as another installation exported it, one file per field.
GivenConfig(given) ==
    [k \in (DOMAIN given) \X {"_hash", "_filename"} |->
        LET p == given[k[1]] IN Value(FALSE, <<IF k[2] = "_hash" THEN PfHash[p] ELSE PfName[p]>>)]

Init ==
    /\ pfconf = [n \in PfNodes |-> GivenConfig(PfGiven[n])]
    /\ pfhave \in [PfNodes -> SUBSET PfFiles]
    /\ pforig = [n \in PfNodes |-> {}]
    /\ pfui = Nothing
    /\ pfhist = [want |-> [n \in PfNodes |-> [f \in PfFields |->
                             IF f \in DOMAIN PfGiven[n] THEN <<PfHash[PfGiven[n][f]]>> ELSE <<>>]],
                 seen |-> TRUE, writes |-> 0]

(* ---------------------------- valid portable forms ---------------------- *)
\* validateHFForm
validateHFForm(config, f) ==
    <<f, "_hf">> \in DOMAIN config =>
        /\ config[<<f, "_hf">>].arr = config[<<f, "_hash">>].arr
        /\ Len(config[<<f, "_hf">>].v) = Len(config[<<f, "_hash">>].v)

\* validateHashForm: a hash and a name for every entry, in the same shape.
validateHashForm(config, f) ==
    /\ Len(config[<<f, "_hash">>].v) > 0
    /\ <<f, "_filename">> \in DOMAIN config
    /\ config[<<f, "_filename">>].arr = config[<<f, "_hash">>].arr
    /\ Len(config[<<f, "_filename">>].v) = Len(config[<<f, "_hash">>].v)
    /\ validateHFForm(config, f)

\* validatePortableKey
validatePortableKey(config, k) ==
    k[2] # "" =>
        /\ <<k[1], "">> \notin DOMAIN config
        /\ <<k[1], "_hash">> \in DOMAIN config
        /\ k[2] = "_hash" => validateHashForm(config, k[1])

validateForms(config) == \A k \in DOMAIN config : validatePortableKey(config, k)

\* UnresolvedFields
UnresolvedFields(config) == {k[1] : k \in {x \in DOMAIN config : x[2] = "_hash"}}

(* ------------------------------- Export --------------------------------- *)
\* knownOriginURI: the origin is the hash's, or unknown.
knownOriginURI(n, h) == IF h \in pforig[n] THEN h ELSE ""

\* exportModelField: a field that names files that are there, one entry each;
\* an empty list stays as it is.
exportModelField(n, config, f) ==
    LET paths == config[<<f, "">>].v  arr == config[<<f, "">>].arr
        hashes == Mapped(paths, LAMBDA p : PfHash[p])
        hfs == Mapped(hashes, LAMBDA h : knownOriginURI(n, h))
        bare == Without(config, f)
        named == Set(Set(bare, <<f, "_hash">>, Value(arr, hashes)),
                     <<f, "_filename">>, Value(arr, Mapped(paths, LAMBDA p : PfName[p]))) IN
    IF paths = <<>> THEN config
    ELSE IF \A i \in 1 .. Len(hfs) : hfs[i] = "" THEN named
    ELSE Set(named, <<f, "_hf">>, Value(arr, hfs))

\* portablePathIdentity: a file that cannot be hashed fails the export.
portablePathIdentity(n, config, f) ==
    <<f, "">> \in DOMAIN config => \A i \in 1 .. Len(config[<<f, "">>].v) : config[<<f, "">>].v[i] \in pfhave[n]

Exportable(n) == validateForms(pfconf[n]) /\ \A f \in PfFields : portablePathIdentity(n, pfconf[n], f)

\* Every field of path form becomes portable; fields are independent of order.
Export(n) ==
    LET one(f) == IF <<f, "">> \in DOMAIN pfconf[n] THEN exportModelField(n, pfconf[n], f) ELSE pfconf[n]
        fieldOf(k) == k[1] IN
    [k \in UNION {{x \in DOMAIN one(f) : x[1] = f} : f \in PfFields} |-> one(fieldOf(k))[k]]

\* exportModelAssetConfig on one node, stored as the config of another.
exportModelAssetConfig(n, to) ==
    /\ n # to /\ Exportable(n) /\ pfhist.writes < PfMaxWrites
    /\ pfconf' = [pfconf EXCEPT ![to] = Export(n)]
    /\ pfhist' = [pfhist EXCEPT !.want[to] = pfhist.want[n], !.writes = @ + 1]
    /\ UNCHANGED <<pfhave, pforig, pfui>>

(* ------------------------------- Resolve -------------------------------- *)
\* The index answers with a file of that hash and that name.
Candidates(n, config, f, i) ==
    {p \in pfhave[n] : PfHash[p] = config[<<f, "_hash">>].v[i] /\ PfName[p] = config[<<f, "_filename">>].v[i]}

\* resolvePortableField: the path form replaces the portable one only when
\* every entry was found.
resolvePortableField(n, config, f) ==
    LET count == Len(config[<<f, "_hash">>].v) IN
    IF \A i \in 1 .. count : Candidates(n, config, f, i) # {}
    THEN Set(Without(config, f), <<f, "">>,
             Value(config[<<f, "_hash">>].arr, [i \in 1 .. count |-> CHOOSE p \in Candidates(n, config, f, i) : TRUE]))
    ELSE config

\* ResolveDetailed: fields one by one; some may stay portable.
ResolveDetailed(n, config) ==
    LET one(f) == IF f \in UnresolvedFields(config) THEN resolvePortableField(n, config, f) ELSE config
        fieldOf(k) == k[1] IN
    [k \in UNION {{x \in DOMAIN one(f) : x[1] = f} : f \in PfFields} |-> one(fieldOf(k))[k]]

resolveModelAssetConfig(n) ==
    /\ validateForms(pfconf[n]) /\ UnresolvedFields(pfconf[n]) # {}
    /\ pfconf' = [pfconf EXCEPT ![n] = ResolveDetailed(n, pfconf[n])]
    /\ UNCHANGED <<pfhave, pforig, pfui, pfhist>>

(* ------------------------- binding and substitution --------------------- *)
\* originServesLFSHash, repositoryFileHasHash: the hub serves that hash there.
repositoryFileHasHash(h) == h \in PfHubHashes

\* bindLocalModelAsset
bindLocalModelAsset(n) ==
    \E h \in Hashes \ pforig[n] :
        /\ repositoryFileHasHash(h)
        /\ pforig' = [pforig EXCEPT ![n] = @ \cup {h}]
        /\ UNCHANGED <<pfconf, pfhave, pfui, pfhist>>

\* The page shows an asset that is missing and its candidates.
ShowMissing(n) ==
    \E f \in UnresolvedFields(pfconf[n]) : \E i \in 1 .. Len(pfconf[n][<<f, "_hash">>].v) :
        /\ validateForms(pfconf[n])
        /\ pfui' = [node |-> n, field |-> f, position |-> i, arr |-> pfconf[n][<<f, "_hash">>].arr,
                    expected |-> pfconf[n][<<f, "_hash">>].v[i]]
        /\ UNCHANGED <<pfconf, pfhave, pforig, pfhist>>

\* Substitute: refused unless the entry still is what the page showed.
substitutable(config, u) ==
    /\ validateForms(config) /\ <<u.field, "_hash">> \in DOMAIN config
    /\ config[<<u.field, "_hash">>].arr = u.arr /\ u.position <= Len(config[<<u.field, "_hash">>].v)
    /\ config[<<u.field, "_hash">>].v[u.position] = u.expected

Substitute(config, u, p) ==
    LET hf == IF <<u.field, "_hf">> \in DOMAIN config THEN config[<<u.field, "_hf">>].v
              ELSE [i \in 1 .. Len(config[<<u.field, "_hash">>].v) |-> ""]
        set == [config EXCEPT ![<<u.field, "_hash">>].v[u.position] = PfHash[p],
                              ![<<u.field, "_filename">>].v[u.position] = PfName[p]] IN
    Set(set, <<u.field, "_hf">>, Value(u.arr, [hf EXCEPT ![u.position] = PfHash[p]]))

\* substituteLocalModelAsset: verified at the hub, under the config's lock.
substituteLocalModelAsset ==
    /\ pfui # Nothing /\ pfhist.writes < PfMaxWrites
    /\ \E p \in PfFiles :
         LET n == pfui.node IN
         /\ PfHash[p] # pfui.expected /\ repositoryFileHasHash(PfHash[p])
         /\ substitutable(pfconf[n], pfui)
         /\ pfconf' = [pfconf EXCEPT ![n] = Substitute(@, pfui, p)]
         /\ pforig' = [pforig EXCEPT ![n] = @ \cup {PfHash[p]}]
         /\ pfhist' = [pfhist EXCEPT !.writes = @ + 1,
                         !.seen = @ /\ pfhist.want[n][pfui.field][pfui.position] = pfui.expected,
                         !.want[n][pfui.field] = [@ EXCEPT ![pfui.position] = PfHash[p]]]
    /\ pfui' = Nothing
    /\ UNCHANGED pfhave

\* A request that is refused: the operator reads the page again.
SubstitutionRefused ==
    /\ pfui # Nothing /\ ~substitutable(pfconf[pfui.node], pfui)
    /\ pfui' = Nothing
    /\ UNCHANGED <<pfconf, pfhave, pforig, pfhist>>

(* ------------------------------ model hash ------------------------------ *)
\* recordedModelHashEntries: a portable field counts with the hashes it names.
recordedModelHashEntries(n, f) ==
    IF <<f, "_hash">> \in DOMAIN pfconf[n] THEN Mapped(pfconf[n][<<f, "_hash">>].v, LAMBDA h : <<"hash", h>>) ELSE <<>>

\* modelPathHashEntries: a path counts with its file's hash, or as missing.
modelPathHashEntries(n, f) ==
    LET entry(p) == IF p \in pfhave[n] THEN <<"hash", PfHash[p]>> ELSE <<"missing", PfName[p]>> IN
    IF f \in PfHashed /\ <<f, "">> \in DOMAIN pfconf[n] THEN Mapped(pfconf[n][<<f, "">>].v, entry) ELSE <<>>

\* ModelReferenceHash: the entries are sorted, so only how often each occurs
\* tells two configs apart.
ModelReferenceHash(n) ==
    LET entries(f) == recordedModelHashEntries(n, f) \o modelPathHashEntries(n, f)
        values == ({"hash"} \X Hashes) \cup ({"missing"} \X {PfName[p] : p \in PfFiles}) IN
    [f \in PfFields, e \in values |-> Cardinality({i \in 1 .. Len(entries(f)) : entries(f)[i] = e})]

(* ------------------------------ the operator ---------------------------- *)
WritePaths(n) ==
    /\ pfhist.writes < PfMaxWrites
    /\ \E f \in PfFields, paths \in UNION {[1 .. k -> PfFiles] : k \in 0 .. 2}, arr \in BOOLEAN :
         /\ arr \/ Len(paths) = 1
         /\ pfconf' = [pfconf EXCEPT ![n] = Set(Without(@, f), <<f, "">>, Value(arr, paths))]
         /\ pfhist' = [pfhist EXCEPT !.want[n][f] = Mapped(paths, LAMBDA p : PfHash[p]), !.writes = @ + 1]
    /\ UNCHANGED <<pfhave, pforig, pfui>>

\* A file arrives (downloaded, pulled from a peer, copied) and is indexed.
FileArrives(n) ==
    \E p \in PfFiles \ pfhave[n] :
        /\ pfhave' = [pfhave EXCEPT ![n] = @ \cup {p}]
        /\ UNCHANGED <<pfconf, pforig, pfui, pfhist>>

Next ==
    \/ \E n, to \in PfNodes : exportModelAssetConfig(n, to)
    \/ \E n \in PfNodes : resolveModelAssetConfig(n) \/ bindLocalModelAsset(n) \/ ShowMissing(n)
                          \/ WritePaths(n) \/ FileArrives(n)
    \/ substituteLocalModelAsset \/ SubstitutionRefused

Spec == Init /\ [][Next]_pfvars

(* ------------------------------ properties ------------------------------ *)
Meant(n, f) ==
    IF <<f, "">> \in DOMAIN pfconf[n] THEN Mapped(pfconf[n][<<f, "">>].v, LAMBDA p : PfHash[p])
    ELSE IF <<f, "_hash">> \in DOMAIN pfconf[n] THEN pfconf[n][<<f, "_hash">>].v ELSE <<>>

\* Whatever order a config was exported, stored, partly resolved and edited
\* in, every position of every field still stands for the content meant there.
SameModels == \A n \in PfNodes, f \in PfFields : Meant(n, f) = pfhist.want[n][f]

\* What the router writes it can read again: no field is left with both
\* forms, or with a portable form whose parts do not match.
FormsStayValid == \A n \in PfNodes : validateForms(pfconf[n])

\* A replacement hits the asset the operator was shown, not what took its place.
ReplacesWhatWasSeen == pfhist.seen

\* Two nodes whose configs mean the same content, and that hold the files they
\* name by path, give them the same model hash: the cluster takes them for one
\* model and the routing dialog for the same weights, whichever form each has.
SameWeightsSameHash ==
    \A n, m \in PfNodes :
        /\ pfhist.want[n] = pfhist.want[m]
        /\ \A x \in {n, m}, f \in PfFields : portablePathIdentity(x, pfconf[x], f)
        => ModelReferenceHash(n) = ModelReferenceHash(m)

PortableSafe == SameModels /\ FormsStayValid /\ ReplacesWhatWasSeen /\ SameWeightsSameHash
=============================================================================
