----------------------- MODULE MCConfiguredInvocation -----------------------
(* Every request of MCInvocation under the files that set one thing each,   *)
(* and a few requests under every two files.                                *)
EXTENDS MCInvocation, ConfiguredInvocation, TLC

Entry2(map, key)         == <<map>> :> "map" @@ <<map, key>> :> "map"
Compressors(key, f, v)   == Entry2("compressors", key) @@ InCompressors(key, f) :> v
InSection(s, f, v)       == <<s>> :> "map" @@ <<s, f>> :> v

AllKeys == STRING
Entries == {"generic", "node_test", "terraform"}

(* Default(), scaled as in MCInvocation; a mode that is "" is left out.     *)
MCDefault ==
    ModePath :> "safe" @@ RulesPath :> "valid" @@ Version :> "1"
    @@ InSection("thresholds", "minimum_bytes", "2") @@ InSection("thresholds", "minimum_lines", "2")
    @@ InSection("thresholds", "minimum_expected_reduction_percent", "10")
    @@ InSection("target", "max_reduction_percent", "60") @@ InSection("limits", "max_input_mb", "16")
    @@ InSection("target", "max_output_bytes", "99")
    @@ InSection("token_estimate", "characters_per_token", "2")
    @@ InSection("cache", "retention", "valid") @@ InSection("cache", "max_size_mb", "60")
    @@ InSection("cache", "enabled", "true") @@ InSection("metrics", "enabled", "true")
    @@ Entry2("tools", "Bash") @@ InTools("Bash") :> "true"
    @@ <<"compressors">> :> "map"
    @@ [p \in {<<"compressors", k>> : k \in Entries} |-> "map"]
    @@ [p \in {InCompressors(k, "enabled") : k \in Entries} |-> "true"]

MCNumber == "0" :> 0 @@ "1" :> 1 @@ "2" :> 2 @@ "10" :> 10 @@ "16" :> 16 @@ "40" :> 40 @@ "60" :> 60 @@ "99" :> 99

BashOff    == Entry2("tools", "Bash") @@ InTools("Bash") :> "false"
CacheOff   == Version :> "1" @@ InSection("cache", "enabled", "false")
              @@ InSection("cache", "retention", "valid") @@ InSection("cache", "max_size_mb", "40")
MetricsOff == InSection("metrics", "enabled", "false") @@ InSection("thresholds", "minimum_bytes", "0")
              @@ InSection("thresholds", "minimum_lines", "0")
Wide       == InSection("limits", "max_input_mb", "40")
              @@ InSection("thresholds", "minimum_expected_reduction_percent", "0")
              @@ InSection("target", "max_reduction_percent", "99")

(* What somebody may write into either file.                                *)
Docs ==
    {ModePath :> "off", ModePath :> "smart", BashOff, CacheOff, MetricsOff,
     Compressors("generic", "enabled", "false"), Compressors("generic", "enabled", "true"),
     Compressors("generic", "mode", "smart"), Compressors("generic", "mode", "off"),
     Compressors("node_test", "enabled", "false"),
     Compressors("generic", "mode", ""), <<"compressors">> :> "map" @@ <<"compressors", "generic">> :> "16",
     <<"compressors">> :> "null", <<"compressors">> :> "map" @@ <<"compressors", "generic">> :> "null"}

(* What Load or Validate refuses, the last when nothing above mends it.     *)
BadDocs ==
    {InSection("cache", "enabled", "16"), <<"typo">> :> "map", InSection("limits", "max_input_mb", "0"),
     RulesPath :> "invalid", Version :> "2", InSection("cache", "retention", "invalid"),
     InSection("cache", "max_size_mb", "0"), Compressors("generic", "mode", "risky")}

(* Which of the settings a file may have at once for one invocation.        *)
OneFile == {absent, broken} \cup {File(d) : d \in Docs \cup BadDocs \cup {Wide}}
AnyFile == {absent} \cup {File(d) : d \in Docs} \cup {File(Compressors("generic", "mode", "risky"))}

Claude(family) ==
    HookRequest("claude", [input |-> 14, raw |-> 12, out |-> 7, err |-> 3], TRUE, TRUE, family)

MCScenarios ==
    {[requests |-> MCRequests, global |-> OneFile, project |-> {absent}, flags |-> {unset}],
     [requests |-> {FileRequest(v, 9, TRUE) : v \in {"optimize", "benchmark"}},
      global |-> AnyFile, project |-> AnyFile, flags |-> {unset, "off", "smart", "risky"}],
     [requests |-> {Claude("generic"), Claude("vitest")},
      global |-> AnyFile, project |-> AnyFile, flags |-> {unset}]}

AllRequests == MCRequests \cup {Claude("vitest")}

(* Every configuration these files can give.                                *)
AllConfigs ==
    [loads : BOOLEAN, bash : BOOLEAN, mode : Modes, enabled : BOOLEAN, own : Modes \cup {"inherit"},
     cache : BOOLEAN, metrics : BOOLEAN, maxInput : {16, 40}, minBytes : {0, 2}, minLines : {0, 2},
     minReduction : {0, 10}, maxReduction : {60, 99}]
=============================================================================
