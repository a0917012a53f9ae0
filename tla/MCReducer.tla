----------------------------- MODULE MCReducer -----------------------------
(* For each family that has a reducer of its own kind of loop, every text   *)
(* of up to four lines over the lines that its loop tells apart.            *)
EXTENDS Reducer

Plain == [clean |-> Blank, critical |-> FALSE, diagnostic |-> FALSE, prompt |-> FALSE,
          tagged |-> FALSE, header |-> FALSE, success |-> {}, run |-> "", pass |-> "", log |-> ""]

Success(kind) == [Plain EXCEPT !.success = {kind}]
Runs(test)    == [Plain EXCEPT !.run = test]
Passed(test)  == [Plain EXCEPT !.pass = test]
Log(key)      == [Plain EXCEPT !.log = key]
Notice        == [Plain EXCEPT !.diagnostic = TRUE]
Error         == [Plain EXCEPT !.critical = TRUE, !.diagnostic = TRUE]

Lines ==
    "" :> Plain @@ "  " :> Plain @@ "text" :> Plain
    @@ "FAIL" :> Error @@ "retry" :> Notice @@ "[TokenSlim]" :> [Plain EXCEPT !.tagged = TRUE]
    @@ "=== RUN A" :> Runs("A") @@ "--- PASS: A" :> Passed("A") @@ "--- PASS: B" :> Passed("B")
    @@ "a.spec.ts:1:2" :> [Error EXCEPT !.success = {"playwright"}]
    @@ "A total of 1 test files" :> [Error EXCEPT !.header = TRUE]
    @@ "Passed" :> Success("dotnet-test") @@ "ok a.ts" :> Success("vitest")
    @@ "- Installing" :> Success("composer") @@ "> script" :> [Plain EXCEPT !.prompt = TRUE]
    @@ "Downloading" :> Success("maven") @@ "passed" :>
         [Plain EXCEPT !.success = {"pytest", "gradle", "vitest", "rust-test", "playwright",
                                    "dotnet-test", "composer", "php-test"}]
    @@ "k 1" :> Log("k") @@ "k 2" :> Log("k") @@ "j 3" :> Log("j")
    @@ "x1x" :> Plain @@ "xx1" :> Plain @@ "x2x" :> Plain @@ "xx" :> Plain

MCLine == [t \in DOMAIN Lines |-> [Lines[t] EXCEPT !.clean = IF t = "  " THEN "" ELSE t]]

MCSuffixed(t, u, n) == t \o " [x" \o ToString(n) \o "; .." \o u \o "]"

Logs   == {"k 1", "k 2", "j 3"}
Groups == {MCSuffixed(t, u, n) : t \in Logs, u \in Logs, n \in 2..4}

MCBytes ==
    [t \in DOMAIN Lines \cup Groups |->
       CASE t = "x1x" -> <<"x", "1", "x">> [] t = "xx1" -> <<"x", "x", "1">>
         [] t = "x2x" -> <<"x", "2", "x">> [] t = "xx"  -> <<"x", "x">>
         [] t = ""    -> <<>>              [] t \in Groups -> <<"?", "?", "?", "[", "x", "]">>
         [] OTHER     -> <<"?", "?", "?">>]

(* tick: x(?P<d>[0-9])x|xx(?P<e>[0-9]), ignoring both; all: (?P<l>.+),      *)
(* ignoring l; twin: (?P<o>x(?P<d>.)x), ignoring both, which overlap.       *)
Span(from, to) == [from |-> from, to |-> to]

MCMatch ==
    "tick" :> ("x1x" :> [d |-> Span(2, 3)] @@ "x2x" :> [d |-> Span(2, 3)]
               @@ "xx1" :> [e |-> Span(3, 4)])
    @@ "all" :> [t \in {"x1x", "x2x", "xx1", "xx", "text", "retry", "FAIL"} \cup Logs \cup Groups |->
                   [l |-> Span(1, Len(MCBytes[t]) + 1)]]
    @@ "twin" :> [t \in {"x1x", "x2x"} |-> [o |-> Span(1, 4), d |-> Span(2, 3)]]


Simple(words) == [words |-> words, simple |-> TRUE]
Piped(words)  == [words |-> words, simple |-> FALSE]
Worker        == Simple(<<"worker">>)

Rule(name, captures) ==
    [name |-> name, sound |-> TRUE, enabled |-> TRUE, ignore |-> captures, captures |-> captures,
     commands |-> {Worker, Simple(<<"vitest">>), Simple(<<"docker", "logs">>)}]

Tick == Rule("tick", <<"d", "e">>)
All  == Rule("all", <<"l">>)
Twin == Rule("twin", <<"o", "d">>)
SmartRules ==
    {<<Tick>>, <<Tick, All>>, <<Twin, All>>, <<[Tick EXCEPT !.enabled = FALSE]>>,
     <<Tick, Tick>>, <<[Tick EXCEPT !.ignore = <<"d", "x">>]>>}

Of(commands, alphabet, n) ==
    [original |-> SeqOf(alphabet, n) \ {<<>>}, command |-> commands, looks |-> {"generic"},
     mode |-> {"smart"}, specs |-> {<<>>}, groupTimestamps |-> {TRUE}, disableRepeats |-> {FALSE}]

With(rules, alphabet, n) == [Of({Worker}, alphabet, n) EXCEPT !.specs = rules]

GoTexts    == {"=== RUN A", "--- PASS: A", "--- PASS: B", "FAIL", "text"}
RuleTexts  == {"x1x", "x2x", "xx1", "text", "retry", "[TokenSlim]", ""}

(* Commands that differ in what their switches and wrappers leave open.    *)
Wrapped ==
    {Simple(words) : words \in
      {<<"php", "artisan", "test">>, <<"php", "-d", "a", "artisan", "test">>, <<"php", "-n", "sail", "pest">>,
       <<"php", "-z", "phpunit", "x">>, <<"php", "-d", "phpunit">>, <<"php", "-f", "composer", "-n", "update">>,
       <<"artisan", "--env=test", "-n", "test">>, <<"artisan", "--env", "test", "migrate">>,
       <<"artisan", "--env=test", "migrate">>, <<"composer", "-z", "install">>,
       <<"sail", "test">>, <<"sail", "-z", "test">>, <<"sail", "artisan", "--env", "test">>,
       <<"sail", "artisan", "--ansi", "test">>, <<"python", "-m", "pytest">>, <<"python", "-z", "-m", "pytest">>,
       <<"npx", "vitest">>, <<"npx", "-z", "vitest", "x">>, <<"yarn", "exec", "vitest">>, <<"bun", "x", "vitest">>,
       <<"pnpm", "vitest">>, <<"pnpm", "-z", "exec", "vitest">>, <<"npx", "playwright", "test">>,
       <<"playwright", "-z", "test">>, <<"cargo", "+stable", "test">>, <<"cargo", "-z", "test">>, <<"gradlew">>,
       <<"dotnet", "test">>, <<"pytest">>}}

MCCalls ==
    {Of({Simple(<<"go", "test">>), Piped(<<"go", "test">>)}, GoTexts, 4),
     Of({Simple(<<"npx", "playwright", "test">>), Piped(<<"npx", "playwright", "test">>)},
        {"a.spec.ts:1:2", "FAIL", "retry", "text"}, 4),
     Of({Simple(<<"dotnet", "test">>)}, {"A total of 1 test files", "Passed", "FAIL", "text"}, 4),
     Of({Simple(<<"php", "composer", "-n", "install">>), Simple(<<"composer", "test">>),
         Piped(<<"composer", "update">>)}, {"- Installing", "> script", "FAIL", "retry"}, 4),
     Of({Simple(<<"mvnw">>)}, {"Downloading", "FAIL", "retry", "text"}, 4),
     [Of({Simple(<<"docker", "logs">>)}, {"k 1", "k 2", "j 3", "FAIL"}, 4)
        EXCEPT !.groupTimestamps = BOOLEAN, !.specs = {<<>>, <<All>>}],
     Of({Worker}, {"", "  ", "text"}, 5),
     With(SmartRules, RuleTexts, 4),
     With({<<Tick>>}, {"x1x", "xx1"}, 7),
     [Of({Simple(<<"vitest">>)}, {"ok a.ts", "x1x", "FAIL"}, 5) EXCEPT !.specs = {<<Tick>>}],
     Of(Wrapped, {"passed"}, 2),
     [Of({Simple(<<"go", "test">>)}, GoTexts, 3)
        EXCEPT !.specs = {<<Tick>>}, !.mode = {"safe"}, !.disableRepeats = BOOLEAN]}

TwoRules == {With({<<Tick, All>>}, {"x1x", "x2x", "text"}, 4)}

MCAttached == {"--env=test"}
MCSwitches == PhpValued \cup PhpSilent \cup Quiet \cup {"-m", "-z", "--env"} \cup MCAttached
=============================================================================
