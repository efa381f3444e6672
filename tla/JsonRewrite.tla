------------------------------ MODULE JsonRewrite ------------------------------
(***************************************************************************)
(* The streaming JSON processor (internal/transportbody/json*.go,           *)
(* generation_defaults.go, chat_template.go): it rewrites a request token   *)
(* by token, without ever holding it, and is checked here against what the  *)
(* rewrite means on the parsed document.  Tokens are tuples: <<"{">>, ...,  *)
(* <<"s", text>> for a string, <<"p", text>> for a primitive, and           *)
(* <<"kw", pairs>> for an object written out of order.                      *)
(***************************************************************************)
EXTENDS Naturals, Sequences, FiniteSets

CONSTANTS
    JrRewrites,     \* rewrites: the strings a client uses, the model's new name (to) and the one it
                    \* replaces (from), insert, configured kwargs, whether they win, defaults,
                    \* overwrite, into (the options object)
    JrMaxTokens,    \* bound on the length of a request
    JrNesting       \* maxJSONNesting

VARIABLES
    jrw,     \* the rewrite
    jrin,    \* tokens read so far
    jrout,   \* tokens written so far
    jrp      \* the processor: [st, stack, raw, depth, model, options]

jrvars == <<jrw, jrin, jrout, jrp>>

None == "none"

Str(v) == <<"s", v>>
Prim(v) == <<"p", v>>
Null == Prim("null")
Structural == {<<"{">>, <<"}">>, <<"[">>, <<"]">>, <<":">>, <<",">>}
Alphabet(w) == Structural \cup {Str(v) : v \in w.strings} \cup {Prim("1"), Null}
IsStr(t) == t[1] = "s"
IsPrim(t) == t[1] = "p"

Container(kind, root, override, target) ==
    [kind |-> kind, state |-> "first", key |-> "", root |-> root, override |-> override, target |-> target,
     count |-> 0, seen |-> {}, kwSeen |-> FALSE]

Init ==
    /\ jrw \in JrRewrites
    /\ jrin = <<>> /\ jrout = <<>>
    /\ jrp = [st |-> "run", stack |-> <<>>, raw |-> <<>>, depth |-> 0, why |-> "", model |-> FALSE, options |-> FALSE]

(* ------------------------------ the parser ------------------------------ *)
\* ParseValue(s, i): the value that starts at token i, and where it ends.
Bad == [ok |-> FALSE, next |-> 0, tree |-> <<"bad">>]
Good(tree, next) == [ok |-> TRUE, next |-> next, tree |-> tree]
At(s, i) == IF i <= Len(s) THEN s[i] ELSE <<"eof">>

RECURSIVE ParseValue(_, _), ParseMembers(_, _, _), ParseItems(_, _, _)
ParseMembers(s, i, kv) ==
    IF ~IsStr(At(s, i)) \/ At(s, i + 1) # <<":">> THEN Bad
    ELSE LET v == ParseValue(s, i + 2)  all == Append(kv, <<At(s, i)[2], v.tree>>) IN
         IF ~v.ok THEN Bad
         ELSE IF At(s, v.next) = <<",">> THEN ParseMembers(s, v.next + 1, all)
         ELSE IF At(s, v.next) = <<"}">> THEN Good(<<"obj", all>>, v.next + 1) ELSE Bad
ParseItems(s, i, items) ==
    LET v == ParseValue(s, i)  all == Append(items, v.tree) IN
    IF ~v.ok THEN Bad
    ELSE IF At(s, v.next) = <<",">> THEN ParseItems(s, v.next + 1, all)
    ELSE IF At(s, v.next) = <<"]">> THEN Good(<<"arr", all>>, v.next + 1) ELSE Bad
ParseValue(s, i) ==
    IF IsStr(At(s, i)) \/ IsPrim(At(s, i)) THEN Good(<<"leaf", At(s, i)>>, i + 1)
    ELSE IF At(s, i) = <<"{">>
         THEN IF At(s, i + 1) = <<"}">> THEN Good(<<"obj", <<>>>>, i + 2) ELSE ParseMembers(s, i + 1, <<>>)
    ELSE IF At(s, i) = <<"[">>
         THEN IF At(s, i + 1) = <<"]">> THEN Good(<<"arr", <<>>>>, i + 2) ELSE ParseItems(s, i + 1, <<>>)
    ELSE Bad

Parse(s) == LET v == ParseValue(s, 1) IN IF v.ok /\ v.next = Len(s) + 1 THEN v ELSE Bad

RECURSIVE Flatten(_), FlattenMembers(_, _), FlattenItems(_, _)
FlattenMembers(kv, i) ==
    IF i > Len(kv) THEN <<>>
    ELSE (IF i > 1 THEN <<<<",">>>> ELSE <<>>) \o <<Str(kv[i][1]), <<":">>>> \o Flatten(kv[i][2]) \o FlattenMembers(kv, i + 1)
FlattenItems(items, i) ==
    IF i > Len(items) THEN <<>>
    ELSE (IF i > 1 THEN <<<<",">>>> ELSE <<>>) \o Flatten(items[i]) \o FlattenItems(items, i + 1)
Flatten(tree) ==
    IF tree[1] = "leaf" THEN <<tree[2]>>
    ELSE IF tree[1] = "obj" THEN <<<<"{">>>> \o FlattenMembers(tree[2], 1) \o <<<<"}">>>>
    ELSE <<<<"[">>>> \o FlattenItems(tree[2], 1) \o <<<<"]">>>>

RECURSIVE Depth(_)
Depth(tree) ==
    IF tree[1] = "leaf" THEN 0
    ELSE LET below == IF tree[1] = "obj" THEN {Depth(tree[2][i][2]) : i \in 1 .. Len(tree[2])}
                      ELSE {Depth(tree[2][i]) : i \in 1 .. Len(tree[2])} IN
         1 + (IF below = {} THEN 0 ELSE CHOOSE d \in below : \A e \in below : e <= d)

(* --------------------- chat template and defaults ----------------------- *)
Pairs(tree) == {tree[2][i] : i \in 1 .. Len(tree[2])}
KeysOf(pairs) == {x[1] : x \in pairs}
UniqueKeys(tree) == Cardinality(KeysOf(Pairs(tree))) = Len(tree[2])

\* mergeChatTemplateKwargs: an object or null; one side wins.
mergeable(tree) == tree = <<"leaf", Null>> \/ (tree[1] = "obj" /\ UniqueKeys(tree))
mergeChatTemplateKwargs(w, tree) ==
    LET client == IF tree[1] = "obj" THEN Pairs(tree) ELSE {}
        over(top, under) == top \cup {x \in under : x[1] \notin KeysOf(top)} IN
    <<"kw", IF w.wins THEN over(w.kwargs, client) ELSE over(client, w.kwargs)>>

HasKwargs(w) == w.kwargs # {}
targetsRoot(w) == w.defaults # <<>> /\ ~w.into
targetsOptions(w) == w.defaults # <<>> /\ w.into
DefaultKeys(w) == {w.defaults[i] : i \in 1 .. Len(w.defaults)}
has(w, key) == key \in DefaultKeys(w)
DefaultValue(key) == Prim(key)      \* the configured value of a default

Replaced(w, v) == IF w.to # None /\ (w.from = "" \/ v = w.from) THEN Str(w.to) ELSE Str(v)
replacementPath(path) == path \in {"model", "sd_model_checkpoint", "override_settings.sd_model_checkpoint"}

(* ----------------------------- the processor ---------------------------- *)
Top == jrp.stack[Len(jrp.stack)]
WithTop(stack, c) == [stack EXCEPT ![Len(stack)] = c]
Fail(p) == [p EXCEPT !.st = "error"]
Emit(tokens) == jrout' = jrout \o tokens
Read(t) == jrin' = Append(jrin, t) /\ jrw' = jrw

\* writeFieldKey: a comma unless it is the container's first field.
FieldKey(count, key) == (IF count > 0 THEN <<<<",">>>> ELSE <<>>) \o <<Str(key), <<":">>>>

\* writeMissingGenerationDefaults, in the configured order.
MissingDefaults(w, count, seen) ==
    LET missing == SelectSeq(w.defaults, LAMBDA k : k \notin seen)
        one(i) == FieldKey(count + (i - 1), missing[i]) \o <<DefaultValue(missing[i])>>
        upTo[i \in 0 .. Len(missing)] == IF i = 0 THEN <<>> ELSE upTo[i - 1] \o one(i) IN
    upTo[Len(missing)]

\* writeGenerationDefaultsObject
writeGenerationDefaultsObject(w) == <<<<"{">>>> \o MissingDefaults(w, 0, {}) \o <<<<"}">>>>

\* writeRootInsertions, in the order of the code: the model, the configured
\* kwargs, the missing defaults, the options.
writeRootInsertions(p, c) ==
    LET model == IF ~p.model /\ jrw.insert THEN FieldKey(c.count, "model") \o <<Str(jrw.to)>> ELSE <<>>
        n1 == c.count + (IF model = <<>> THEN 0 ELSE 1)
        kw == IF HasKwargs(jrw) /\ ~c.kwSeen THEN FieldKey(n1, "chat_template_kwargs") \o <<<<"kw", jrw.kwargs>>>> ELSE <<>>
        n2 == n1 + (IF kw = <<>> THEN 0 ELSE 1)
        defaults == IF c.target THEN MissingDefaults(jrw, n2, c.seen) ELSE <<>>
        n3 == n2 + (IF c.target THEN Cardinality(DefaultKeys(jrw) \ c.seen) ELSE 0)
        options == IF targetsOptions(jrw) /\ ~p.options
                   THEN FieldKey(n3, "options") \o writeGenerationDefaultsObject(jrw) ELSE <<>> IN
    model \o kw \o defaults \o options

\* closeContainer
closeContainer(t) ==
    LET c == Top  rest == SubSeq(jrp.stack, 1, Len(jrp.stack) - 1) IN
    /\ Emit((IF c.root THEN writeRootInsertions(jrp, c)
             ELSE IF c.target THEN MissingDefaults(jrw, c.count, c.seen) ELSE <<>>) \o <<t>>)
    /\ jrp' = [jrp EXCEPT !.stack = rest, !.st = IF rest = <<>> THEN "complete" ELSE @]

\* openContainer
openContainer(stack, t, c) ==
    IF Len(stack) >= JrNesting THEN jrp' = Fail(jrp) /\ UNCHANGED jrout
    ELSE jrp' = [jrp EXCEPT !.stack = Append(stack, c)] /\ Emit(<<t>>)

countField(c, key) == [c EXCEPT !.key = key, !.state = "colon", !.count = IF c.root \/ c.target THEN @ + 1 ELSE @,
                                !.kwSeen = @ \/ (c.root /\ HasKwargs(jrw) /\ key = "chat_template_kwargs"),
                                !.seen = IF c.target /\ has(jrw, key) THEN @ \cup {key} ELSE @]

duplicate(c, key) ==
    \/ c.root /\ HasKwargs(jrw) /\ key = "chat_template_kwargs" /\ c.kwSeen
    \/ c.target /\ has(jrw, key) /\ key \in c.seen
    \/ c.root /\ targetsOptions(jrw) /\ key = "options" /\ jrp.options

\* consumeObjectKey: count the field, refuse a second one where one is needed.
consumeObjectKey(t) ==
    IF t = <<"}">> /\ Top.state = "first" THEN closeContainer(t)
    ELSE IF ~IsStr(t) \/ duplicate(Top, t[2]) THEN jrp' = Fail(jrp) /\ UNCHANGED jrout
    ELSE /\ Emit(<<t>>)
         /\ jrp' = [jrp EXCEPT !.stack = WithTop(@, countField(Top, t[2])),
                               !.options = @ \/ (Top.root /\ targetsOptions(jrw) /\ t[2] = "options")]

\* valuePath
valuePath(c) ==
    IF c.kind # "{" THEN "" ELSE IF c.root THEN c.key
    ELSE IF c.override THEN "override_settings." \o c.key ELSE ""

\* Why a value is read whole instead of streamed.
rawFor(c) ==
    IF c.root /\ HasKwargs(jrw) /\ c.key = "chat_template_kwargs" THEN "kwargs"
    ELSE IF c.target /\ jrw.overwrite /\ has(jrw, c.key) THEN "overwrite"
    ELSE IF c.root /\ targetsOptions(jrw) /\ c.key = "options" THEN "options" ELSE ""

Valued == [jrp EXCEPT !.stack = WithTop(@, [Top EXCEPT !.state = "comma"])]

\* What is written for a value that was read whole.
RawWritten(p, why, tree) ==
    IF why = "kwargs" THEN (IF mergeable(tree) THEN jrp' = p /\ Emit(<<mergeChatTemplateKwargs(jrw, tree)>>)
                            ELSE jrp' = Fail(p) /\ UNCHANGED jrout)
    ELSE IF why = "overwrite" THEN jrp' = p /\ Emit(<<DefaultValue(Top.key)>>)
    ELSE IF tree = <<"leaf", Null>> THEN jrp' = p /\ Emit(writeGenerationDefaultsObject(jrw))
    ELSE jrp' = Fail(p) /\ UNCHANGED jrout

Opens(t) == t \in {<<"{">>, <<"[">>}
Closes(t) == t \in {<<"}">>, <<"]">>}

\* consumeValue
consumeValue(t) ==
    LET c == Top  path == valuePath(c)  why == rawFor(c) IN
    IF replacementPath(path) /\ ~IsStr(t) THEN jrp' = Fail(jrp) /\ UNCHANGED jrout
    ELSE IF why # "" /\ ~(why = "options" /\ t = <<"{">>)
         THEN IF Opens(t) THEN jrp' = [Valued EXCEPT !.st = "raw", !.raw = <<t>>, !.depth = 1, !.why = why] /\ UNCHANGED jrout
              ELSE IF IsStr(t) \/ IsPrim(t) THEN RawWritten(Valued, why, <<"leaf", t>>)
              ELSE jrp' = Fail(jrp) /\ UNCHANGED jrout
    ELSE IF why = "options" THEN openContainer(Valued.stack, t, Container("{", FALSE, FALSE, TRUE))
    ELSE IF IsStr(t) /\ replacementPath(path)
         THEN jrp' = [Valued EXCEPT !.model = @ \/ path = "model"] /\ Emit(<<Replaced(jrw, t[2])>>)
    ELSE IF IsStr(t) \/ IsPrim(t) THEN jrp' = Valued /\ Emit(<<t>>)
    ELSE IF t = <<"{">>
         THEN openContainer(Valued.stack, t, Container("{", FALSE, c.root /\ c.key = "override_settings", FALSE))
    ELSE IF t = <<"[">> THEN openContainer(Valued.stack, t, Container("[", FALSE, FALSE, FALSE))
    ELSE jrp' = Fail(jrp) /\ UNCHANGED jrout

\* consumeInObject, consumeObjectSeparator
consumeInObject(t) ==
    LET go(state) == jrp' = [jrp EXCEPT !.stack = WithTop(@, [Top EXCEPT !.state = state])] /\ Emit(<<t>>) IN
    IF Top.state \in {"first", "key"} THEN consumeObjectKey(t)
    ELSE IF Top.state = "value" THEN consumeValue(t)
    ELSE IF Top.state = "colon" /\ t = <<":">> THEN go("value")
    ELSE IF Top.state = "comma" /\ t = <<",">> THEN go("key")
    ELSE IF Top.state = "comma" /\ t = <<"}">> THEN closeContainer(t)
    ELSE jrp' = Fail(jrp) /\ UNCHANGED jrout

consumeInArray(t) ==
    IF Top.state = "first" /\ t = <<"]">> THEN closeContainer(t)
    ELSE IF Top.state \in {"first", "value"} THEN consumeValue(t)
    ELSE IF t = <<",">> THEN jrp' = [jrp EXCEPT !.stack = WithTop(@, [Top EXCEPT !.state = "value"])] /\ Emit(<<t>>)
    ELSE IF t = <<"]">> THEN closeContainer(t)
    ELSE jrp' = Fail(jrp) /\ UNCHANGED jrout

\* run: the next token, at the root, inside a container, or of a raw value.
run(t) ==
    /\ jrp.st \in {"run", "complete"} /\ Len(jrin) < JrMaxTokens
    /\ Read(t)
    /\ IF jrp.stack # <<>> THEN (IF Top.kind = "{" THEN consumeInObject(t) ELSE consumeInArray(t))
       ELSE IF jrp.st = "complete" \/ t # <<"{">> THEN jrp' = Fail(jrp) /\ UNCHANGED jrout
       ELSE /\ jrp' = [jrp EXCEPT !.stack = <<Container("{", TRUE, FALSE, targetsRoot(jrw))>>]
            /\ Emit(<<t>>)

\* readRawJSONValue: brackets are counted, the value is checked at its end.
readRawJSONValue(t) ==
    LET depth == jrp.depth + (IF Opens(t) THEN 1 ELSE 0) - (IF Closes(t) THEN 1 ELSE 0)
        raw == Append(jrp.raw, t)
        value == Parse(raw) IN
    /\ jrp.st = "raw" /\ Len(jrin) < JrMaxTokens
    /\ Read(t)
    /\ IF depth > 0 THEN jrp' = [jrp EXCEPT !.depth = depth, !.raw = raw] /\ UNCHANGED jrout
       ELSE IF ~value.ok THEN jrp' = Fail(jrp) /\ UNCHANGED jrout
       ELSE RawWritten([jrp EXCEPT !.st = "run", !.raw = <<>>, !.depth = 0], jrp.why, value.tree)

Next == \E t \in Alphabet(jrw) : run(t) \/ readRawJSONValue(t)

Spec == Init /\ [][Next]_jrvars

(* ------------------------- what the rewrite means ----------------------- *)
Leaf(t) == <<"leaf", t>>
Obj(kv) == <<"obj", kv>>
KeyCount(tree, key) == Cardinality({i \in 1 .. Len(tree[2]) : tree[2][i][1] = key})
Lookup(tree, key) == tree[2][CHOOSE i \in 1 .. Len(tree[2]) : tree[2][i][1] = key][2]

\* Every selector is a string; a field the config supplies occurs once.
Selectors(tree, keys) == \A i \in 1 .. Len(tree[2]) : tree[2][i][1] \in keys => tree[2][i][2][1] = "leaf" /\ IsStr(tree[2][i][2][2])
DefaultsOnce(w, tree) == \A k \in DefaultKeys(w) : KeyCount(tree, k) <= 1
Acceptable(w, tree) ==
    /\ tree[1] = "obj"
    /\ Selectors(tree, {"model", "sd_model_checkpoint"})
    /\ \A i \in 1 .. Len(tree[2]) : tree[2][i][1] = "override_settings" /\ tree[2][i][2][1] = "obj"
                                    => Selectors(tree[2][i][2], {"sd_model_checkpoint"})
    /\ HasKwargs(w) => KeyCount(tree, "chat_template_kwargs") <= 1
    /\ HasKwargs(w) /\ KeyCount(tree, "chat_template_kwargs") = 1 => mergeable(Lookup(tree, "chat_template_kwargs"))
    /\ targetsRoot(w) => DefaultsOnce(w, tree)
    /\ targetsOptions(w) => KeyCount(tree, "options") <= 1
    /\ targetsOptions(w) /\ KeyCount(tree, "options") = 1 =>
         \/ Lookup(tree, "options") = Leaf(Null)
         \/ Lookup(tree, "options")[1] = "obj" /\ DefaultsOnce(w, Lookup(tree, "options"))

\* Defaults in an object: overwritten where they are, added where they are not.
WithDefaults(w, tree) ==
    LET kept == [i \in 1 .. Len(tree[2]) |->
                    IF w.overwrite /\ has(w, tree[2][i][1]) THEN <<tree[2][i][1], Leaf(DefaultValue(tree[2][i][1]))>> ELSE tree[2][i]]
        missing == SelectSeq(w.defaults, LAMBDA k : KeyCount(tree, k) = 0) IN
    Obj(kept \o [i \in 1 .. Len(missing) |-> <<missing[i], Leaf(DefaultValue(missing[i]))>>])

Renamed(w, tree, keys) ==
    Obj([i \in 1 .. Len(tree[2]) |->
           IF tree[2][i][1] \in keys THEN <<tree[2][i][1], Leaf(Replaced(w, tree[2][i][2][2][2]))>> ELSE tree[2][i]])

Meaning(w, tree) ==
    LET member(m) ==
            IF m[1] = "override_settings" /\ m[2][1] = "obj" THEN <<m[1], Renamed(w, m[2], {"sd_model_checkpoint"})>>
            ELSE IF m[1] = "chat_template_kwargs" /\ HasKwargs(w) THEN <<m[1], Leaf(mergeChatTemplateKwargs(w, m[2]))>>
            ELSE IF m[1] = "options" /\ targetsOptions(w) THEN <<m[1], WithDefaults(w, IF m[2][1] = "obj" THEN m[2] ELSE Obj(<<>>))>>
            ELSE m
        named == Renamed(w, tree, {"model", "sd_model_checkpoint"})
        members == [i \in 1 .. Len(tree[2]) |-> member(named[2][i])]
        model == IF w.insert /\ KeyCount(tree, "model") = 0 THEN <<<<"model", Leaf(Str(w.to))>>>> ELSE <<>>
        kw == IF HasKwargs(w) /\ KeyCount(tree, "chat_template_kwargs") = 0
              THEN <<<<"chat_template_kwargs", Leaf(<<"kw", w.kwargs>>)>>>> ELSE <<>>
        root == Obj(members \o model \o kw)
        options == IF targetsOptions(w) /\ KeyCount(tree, "options") = 0 THEN <<<<"options", WithDefaults(w, Obj(<<>>))>>>> ELSE <<>> IN
    IF targetsRoot(w) THEN WithDefaults(w, root) ELSE Obj(root[2] \o options)

(* ------------------------------ properties ------------------------------ *)
\* A request the processor has read to its end and accepted is a JSON
\* document that may be rewritten, and what was written is its rewriting;
\* a document that may be rewritten is never refused.
RewriteIsExact ==
    LET doc == Parse(jrin) IN
    /\ jrp.st = "complete" => doc.ok /\ Acceptable(jrw, doc.tree) /\ jrout = Flatten(Meaning(jrw, doc.tree))
    /\ doc.ok /\ Acceptable(jrw, doc.tree) /\ Depth(doc.tree) <= JrNesting => jrp.st = "complete"
=============================================================================
