---------------------------- MODULE Configuration ----------------------------
(***************************************************************************)
(* internal/config: Load merges the default document, the global file and  *)
(* the project's file as YAML nodes, decodes the result over the defaults  *)
(* and validates it.  A document is a function from paths to "map", "null" *)
(* or the text of a scalar.                                                *)
(***************************************************************************)
EXTENDS Integers, Sequences, TLC, Functions

CONSTANTS
    Keys,        \* what may be a key of a mapping
    Default,     \* the default configuration as a document
    Number,      \* the numbers that texts of scalars stand for
    MaxInputBound \* 1024: the largest limits.max_input_mb

Section(name, field)      == <<name, field>>
InTools(tool)             == <<"tools", tool, "enabled">>
InCompressors(key, field) == <<"compressors", key, field>>

ModePath   == <<"mode">>
RulesPath  == <<"rules">>
Version    == <<"version">>
KeptFor    == Section("cache", "retention")
Maps       == {"tools", "compressors"}
Switched   == {Section(s, "enabled") : s \in {"cache", "metrics", "debug"}}
EntryFlags == {"enabled", "group_repeated_lines", "group_timestamp_variants",
               "keep_warning_lines", "keep_error_lines"}

MinBytes     == Section("thresholds", "minimum_bytes")
MinLines     == Section("thresholds", "minimum_lines")
MinReduction == Section("thresholds", "minimum_expected_reduction_percent")
MaxReduction == Section("target", "max_reduction_percent")
MaxInput     == Section("limits", "max_input_mb")
MaxSize      == Section("cache", "max_size_mb")
MaxOutput    == Section("target", "max_output_bytes")
PerToken     == Section("token_estimate", "characters_per_token")
Numbers      == {Version, MinBytes, MinLines, MinReduction, MaxReduction, MaxInput,
                 MaxSize, MaxOutput, PerToken}
Sections     == {"cache", "metrics", "debug", "thresholds", "target", "limits",
                 "token_estimate"} \cup Maps

(* A document is a tree: whatever has something below it is a mapping.     *)
Document(doc) ==
    /\ DOMAIN doc \subseteq Seq(Keys) \ {<<>>}
    /\ \A p \in DOMAIN doc : \A n \in 1..Len(p) - 1 :
         SubSeq(p, 1, n) \in DOMAIN doc /\ doc[SubSeq(p, 1, n)] = "map"

(* Default() has the mode, the cache and all compressors on, and gives no
   compressor a mode.                                                      *)
ASSUME ConfigurationAssumption ==
    /\ Sections \cup EntryFlags \subseteq Keys
    /\ {"mode", "Bash", "generic", "node_test", "terraform"} \subseteq Keys
    /\ Document(Default)
    /\ ModePath \in DOMAIN Default /\ Default[ModePath] # "off"
    /\ Section("cache", "enabled") \in DOMAIN Default
    /\ Default[Section("cache", "enabled")] = "true"
    /\ \A key \in {"generic", "node_test", "terraform"} :
         InCompressors(key, "enabled") \in DOMAIN Default
    /\ \A p \in DOMAIN Default : Len(p) = 3 /\ p[1] = "compressors" =>
         p[3] # "mode" /\ (p[3] = "enabled" => Default[p] = "true")

(* A file on disk; `broken` is one that is no single YAML mapping.         *)
absent == [kind |-> "absent"]
broken == [kind |-> "broken"]
File(doc) == [kind |-> "mapping", doc |-> doc]

-----------------------------------------------------------------------------
Within(p, q) == Len(q) <= Len(p) /\ SubSeq(p, 1, Len(q)) = q

(* Mutant: an entry of the file replaces the whole entry below it. *)
MergeShallow(dst, src) ==
    LET kept == {p \in DOMAIN dst : ~\E q \in DOMAIN src : Within(p, q) /\ src[q] # "map"}
                  \ {p \in DOMAIN dst : Len(p) > 2 /\ SubSeq(p, 1, 2) \in DOMAIN src}
    IN  src @@ Restrict(dst, kept)

(* merge: below a key that both have, two mappings are merged and anything *)
(* else is replaced as a whole.                                            *)
Kept(dst, src) ==
    LET replaced == {r \in DOMAIN dst \cap DOMAIN src : ~(dst[r] = "map" /\ src[r] = "map")}
    IN  {p \in DOMAIN dst : \A r \in replaced : ~Within(p, r)}

Merge(dst, src) ==
    [p \in DOMAIN src \cup Kept(dst, src) |-> IF p \in DOMAIN src THEN src[p] ELSE dst[p]]

Layer(dst, file) == IF file.kind = "mapping" THEN Merge(dst, file.doc) ELSE dst

(* Mutant: the project's file read first. *)
MergedReversed(files) == Layer(Layer(Default, files.project), files.global)

Merged(files) == Layer(Layer(Default, files.global), files.project)

-----------------------------------------------------------------------------
(* The decoder.  A null leaves a field of a struct as it was; it makes a   *)
(* map empty; as an entry of a map it leaves the default entry, while any  *)
(* other entry starts from zero values.                                    *)
Given(doc, p) == p \in DOMAIN doc /\ doc[p] # "null"

Field(doc, p) == IF Given(doc, p) THEN doc[p] ELSE Default[p]

IsNil(doc, map) == ~Given(doc, <<map>>)

EntryField(doc, p, zero) ==
    CASE Given(doc, SubSeq(p, 1, 2)) -> IF Given(doc, p) THEN doc[p] ELSE zero
      [] ~Given(doc, SubSeq(p, 1, 2)) -> IF p \in DOMAIN Default THEN Default[p] ELSE zero

(* KnownFields, and the Go types of the fields.                            *)
Decodes(doc) ==
    \A p \in DOMAIN doc :
        \/ /\ p \in {<<s>> : s \in Sections} \/ (Len(p) = 2 /\ p[1] \in Maps)
           /\ doc[p] \in {"map", "null"}
        \/ p \in {ModePath, RulesPath, KeptFor} /\ doc[p] # "map"
        \/ p \in Switched /\ doc[p] \in {"true", "false", "null"}
        \/ p \in Numbers /\ doc[p] \in DOMAIN Number \cup {"null"}
        \/ Len(p) = 3 /\ p[1] = "tools" /\ p[3] = "enabled" /\ doc[p] \in {"true", "false", "null"}
        \/ Len(p) = 3 /\ p[1] = "compressors" /\ p[3] \in EntryFlags
             /\ doc[p] \in {"true", "false", "null"}
        \/ Len(p) = 3 /\ p[1] = "compressors" /\ p[3] = "mode" /\ doc[p] # "map"

GeneralModes == {"off", "safe", "smart"}

Amount(doc, p) == Number[Field(doc, p)]

(* Validate.  The rules are one value, which Compile accepts or not, and   *)
(* so is the retention, which is a duration or not.                        *)
Valid(doc) ==
    /\ Field(doc, ModePath) \in GeneralModes
    /\ Amount(doc, MinBytes) >= 0 /\ Amount(doc, MinLines) >= 0
    /\ Amount(doc, MinReduction) \in 0..99 /\ Amount(doc, MaxReduction) \in 1..99
    /\ Amount(doc, MaxInput) \in 1..MaxInputBound
    /\ Amount(doc, Version) = 1
    /\ Amount(doc, MaxSize) >= 1 /\ Amount(doc, MaxOutput) >= 1 /\ Amount(doc, PerToken) > 0
    /\ "invalid" \notin {Field(doc, RulesPath), Field(doc, KeptFor)}
    /\ ~IsNil(doc, "compressors") =>
         \A p \in DOMAIN doc : Len(p) = 3 /\ p[1] = "compressors" /\ p[3] = "mode" =>
             EntryField(doc, p, "") \in GeneralModes \cup {""}

Loads(files) ==
    /\ "broken" \notin {files.global.kind, files.project.kind}
    /\ Decodes(Merged(files)) /\ Valid(Merged(files))

-----------------------------------------------------------------------------
(* Key: the entry of `compressors` that a family is configured by.         *)
Key(family) ==
    CASE family \in {"node-test", "vitest"} -> "node_test"
      [] family = "kubernetes-log" -> "kubernetes"
      [] family = "docker-log"     -> "docker"
      [] family = "php-test"       -> "php_test"
      [] family = "go-test"        -> "go_test"
      [] family = "rust-test"      -> "rust_test"
      [] family = "dotnet-test"    -> "dotnet_test"
      [] family = "dotnet-build"   -> "dotnet_build"
      [] OTHER                     -> family

(* What the engine reads of the result for one family.                     *)
Loaded(files, family) ==
    LET doc     == IF Loads(files) THEN Merged(files) ELSE Default
        on(p)   == Field(doc, p) = "true"
        has     == /\ ~IsNil(doc, "compressors")
                   /\ <<"compressors", Key(family)>> \in DOMAIN doc \cup DOMAIN Default
        entry(field, zero) ==
            IF ~has THEN "" ELSE EntryField(doc, InCompressors(Key(family), field), zero)
    IN  [loads   |-> Loads(files),
         bash    |-> ~IsNil(doc, "tools") /\ EntryField(doc, InTools("Bash"), "false") = "true",
         mode    |-> Field(doc, ModePath),
         enabled |-> entry("enabled", "false") # "false",
         own     |-> IF entry("mode", "") = "" THEN "inherit" ELSE entry("mode", ""),
         cache   |-> on(Section("cache", "enabled")),
         metrics |-> on(Section("metrics", "enabled")),
         maxInput |-> Amount(doc, MaxInput),
         minBytes |-> Amount(doc, MinBytes), minLines |-> Amount(doc, MinLines),
         minReduction |-> Amount(doc, MinReduction), maxReduction |-> Amount(doc, MaxReduction)]
=============================================================================
