------------------------------- MODULE Reducer -------------------------------
(***************************************************************************)
(* internal/compressor: Reducer.Compress on one stream, pass by pass and   *)
(* line by line, and then the guard (IntactFor) that the engine asks       *)
(* whether to believe the result.  A text is a sequence of lines, a line   *)
(* is a name with the attributes the code reads off it.  Texts that are    *)
(* one JSON value, which Compress only compacts, are left out.             *)
(***************************************************************************)
EXTENDS Classifier, Rules

CONSTANTS
    Calls,      \* what Compress is called on: sets of calls, each by the values
                \* that the fields of its members take
    Line,       \* the attributes of each line
    Suffixed(_, _, _), \* the line that groupLogs writes for the lines from t to u, n of them
    MarkerSize, \* the bytes of a rule's marker
    BlankRun    \* 2: how many blank lines in a row are kept

Blank == ""

(* Attributes: `clean`, the line without trailing blanks and colors;       *)
(* `critical` and `diagnostic`, what Critical and buildDiagnostic say;     *)
(* `prompt`, whether it begins with ">"; `tagged`, whether it holds        *)
(* "[TokenSlim"; `header`, a header of dotnet test; `success`, the         *)
(* reducers that take it for a success record; `run` and `pass`, the test  *)
(* that a "=== RUN" or "--- PASS" of go names; `log`, what is left of a    *)
(* log line without its timestamp.                                         *)
(* What the code makes of a line, whatever the line: a critical one is a   *)
(* diagnostic (buildDiagnostic asks Critical first), no header is a test   *)
(* that passed (dotnetPassed begins with a blank), and the empty line is   *)
(* neither.  Two blank lines in a row are kept at least.                   *)
ASSUME LineAssumption ==
    /\ Blank \in DOMAIN Line /\ ~Line[Blank].critical /\ ~Line[Blank].diagnostic
    /\ \A t \in DOMAIN Line :
         /\ Line[t].clean \in DOMAIN Line
         /\ Line[t].critical => Line[t].diagnostic
         /\ Line[t].header => "dotnet-test" \notin Line[t].success

ASSUME BlankRunAssumption == BlankRun \in Nat /\ BlankRun >= 2

ASSUME CallsAssumption ==
    \A c \in Calls :
      /\ \A command \in c.command : command.words \in Seq(ToSet(command.words))
      /\ \A text \in c.original : text \in Seq(DOMAIN Line)
      /\ \A specs \in c.specs :
           /\ specs \in Seq(ToSet(specs))
           /\ \A k \in DOMAIN specs : specs[k].name \in DOMAIN Match

BuildKinds == {"pytest", "go-test", "vitest", "gradle", "rust-test", "playwright", "dotnet-test"}
PhpKinds   == {"composer", "php-test", "laravel"}
LogKinds   == {"kubernetes-log", "docker-log"}
Passes     == {"success", "logs", "rules", "repeats", "result", "guard"}

VARIABLES
    input,      \* the text, the command and the options
    context,    \* what Process and Compress make of the command before any line
    pass,       \* which pass is running
    clean,      \* the text as the first pass leaves it
    lines,      \* what the running pass reads: output lines of the one before
    pos,          \* its next line
    out,        \* what it has written
    count,      \* blank lines in a row; records not yet flushed
    diagnostic, \* whether it has seen a diagnostic line
    effects,    \* of the rules
    cursor      \* of the guard, in lines of the output

reducerVars == <<input, context, pass, clean, lines, pos, out, count, diagnostic, effects, cursor>>

Kind           == context.kind
SuccessReducer == context.reducer
ActiveRules    == context.rules

(* An output line: a line of the text (mark "line"), the first of n log    *)
(* lines with the suffix of groupLogs ("group"), or one of the two kinds   *)
(* of marker, for n records or lines; `times` is the mark of Repeats.      *)
(* `behind` is history: the lines of the text that the marker of a rule    *)
(* stands for, which its n only says if no group is among them.            *)
Kept(t)        == [mark |-> "line", text |-> t, n |-> 1, times |-> 1]
Group(t, u, n) == [mark |-> "group", text |-> t, last |-> u, n |-> n, times |-> 1]
Omitted(n)     == [mark |-> "omitted", text |-> Blank, n |-> n, times |-> 1]
RuleMark(r, n, behind) ==
    [mark |-> "rule", text |-> r, n |-> n, times |-> 1, behind |-> behind]

IsText(l) == l.mark \in {"line", "group"}

Written(l) == IF l.mark = "group" THEN Suffixed(l.text, l.last, l.n) ELSE l.text

(* How many lines of the text an output line stands for.                   *)
RecordLines == IF SuccessReducer = "go-test" THEN 2 ELSE 1

StandsFor(l) ==
    CASE l.mark = "rule"    -> l.behind
      [] l.mark = "omitted" -> l.n * RecordLines
      [] OTHER              -> l.n * l.times

LinesOf(s) == FoldFunction(+, 0, [k \in DOMAIN s |-> StandsFor(s[k])])


IsSmart == input.mode = "smart"

(* The switch of Compress: which reducer of success records runs on an     *)
(* output of the family `kind`.                                            *)
SuccessReducerOf(kind) ==
    CASE IsSmart /\ kind \in BuildKinds /\ BuildReduction(input.command) = kind -> kind
      [] IsSmart /\ kind \in {"maven", "node-test"} -> kind
      [] IsSmart /\ kind \in PhpKinds /\ PHPReduction(input.command) # NoWord -> PHPReduction(input.command)
      [] IsSmart /\ kind \in LogKinds /\ input.groupTimestamps -> "logs"
      [] OTHER -> "none"

RulesFor(command) ==
    LET rules == Compiled(input.specs)
    IN  Those(rules, {i \in DOMAIN rules : MatchesCommand(rules[i], command)})

NoContext == [kind |-> "", reducer |-> "none", rules |-> <<>>]

(* The pass that follows, leaving out those that have nothing to do.       *)
After(p) ==
    LET repeats == IF input.disableRepeats THEN "result" ELSE "repeats"
        custom  == IF ActiveRules # <<>> THEN "rules" ELSE repeats
    IN  CASE p = "sanitize" -> IF SuccessReducer = "none" THEN custom
                               ELSE IF SuccessReducer = "logs" THEN "logs" ELSE "success"
          [] p \in {"success", "logs"} -> custom
          [] p = "rules"   -> repeats
          [] p = "repeats" -> "result"

ReducerInit ==
    /\ \E c \in Calls :
         input \in [original : c.original, command : c.command, looks : c.looks, mode : c.mode,
                    specs : c.specs, groupTimestamps : c.groupTimestamps,
                    disableRepeats : c.disableRepeats]
    /\ context = NoContext /\ pass = "compile" /\ clean = <<>> /\ lines = <<>> /\ pos = 1 /\ out = <<>>
    /\ count = 0 /\ diagnostic = FALSE /\ effects = <<>> /\ cursor = 0

-----------------------------------------------------------------------------
(* Engine.Process compiles the rules first, in smart mode.                 *)
Compile ==
    /\ pass = "compile"
    /\ IF IsSmart /\ ~Accepted(input.specs)
         THEN pass' = "invalid" /\ UNCHANGED context
         ELSE /\ pass' = "sanitize"
              /\ LET kind == Detect(input.command, input.looks)
                 IN  context' = [kind |-> kind, reducer |-> SuccessReducerOf(kind),
                                 rules |-> IF IsSmart THEN RulesFor(input.command) ELSE <<>>]
    /\ UNCHANGED <<input, clean, lines, pos, out, count, diagnostic, effects, cursor>>

(* Sanitize: two blank lines in a row at most.                             *)
SanitizeLine ==
    /\ pass = "sanitize" /\ pos <= Len(input.original)
    /\ LET t      == Line[input.original[pos]].clean
           blanks == IF t = Blank THEN count + 1 ELSE 0
       IN  /\ count' = blanks
           /\ clean' = IF blanks <= BlankRun THEN Append(clean, t) ELSE clean
    /\ pos' = pos + 1
    /\ UNCHANGED <<input, context, pass, lines, out, diagnostic, effects, cursor>>

Enter(p, text) ==
    /\ pass' = p /\ lines' = text /\ out' = <<>> /\ pos' = 1
    /\ count' = 0 /\ diagnostic' = FALSE
    /\ UNCHANGED <<input, context, clean, effects, cursor>>

Sanitized ==
    /\ pass = "sanitize" /\ pos > Len(input.original)
    /\ Enter(After(pass), [k \in DOMAIN clean |-> Kept(clean[k])])

-----------------------------------------------------------------------------
(* reduceBuild and reduceSuccess.                                          *)
Attributes(k) == Line[lines[k].text]

PlaywrightRow(t) == Kind = "playwright" /\ "playwright" \in Line[t].success

Begins(k) ==
    IF SuccessReducer \in BuildKinds
      THEN /\ Attributes(k).diagnostic /\ ~PlaywrightRow(lines[k].text)
           /\ ~(Kind = "dotnet-test" /\ Attributes(k).header)
      ELSE Attributes(k).critical \/ (SuccessReducer = "composer" /\ Attributes(k).prompt)

(* How many lines the success record at k has; 0 if there is none.         *)
(* Mutant: any PASS ends the pair. *)
RecordWithAnyPass(k) ==
    IF SuccessReducer = "go-test"
      THEN IF /\ Attributes(k).run # "" /\ k < Len(lines) /\ Attributes(k + 1).pass # ""
           THEN 2 ELSE 0
      ELSE IF SuccessReducer \in Attributes(k).success THEN 1 ELSE 0

RecordAt(k) ==
    IF SuccessReducer = "go-test"
      THEN IF /\ Attributes(k).run # "" /\ k < Len(lines)
              /\ ~Attributes(k + 1).diagnostic
              /\ Attributes(k + 1).pass = Attributes(k).run
           THEN 2 ELSE 0
      ELSE IF SuccessReducer \in Attributes(k).success THEN 1 ELSE 0

(* Mutant: no marker for what was left out before a line that is kept. *)
FlushForgotten == out

(* Mutant: a marker even if nothing was left out. *)
FlushAlways == Append(out, Omitted(count))

Flushed == IF count > 0 THEN Append(out, Omitted(count)) ELSE out

Omit ==
    /\ pass = "success" /\ pos <= Len(lines)
    /\ ~diagnostic /\ ~Begins(pos) /\ RecordAt(pos) > 0
    /\ count' = count + 1 /\ pos' = pos + RecordAt(pos)
    /\ UNCHANGED <<input, context, pass, clean, lines, out, diagnostic, effects, cursor>>

(* Mutant: a diagnostic ends with its line. *)
KeepForgets ==
    /\ pass = "success" /\ pos <= Len(lines)
    /\ diagnostic \/ Begins(pos) \/ RecordAt(pos) = 0
    /\ diagnostic' = Begins(pos)
    /\ out' = Append(Flushed, lines[pos]) /\ count' = 0 /\ pos' = pos + 1
    /\ UNCHANGED <<input, context, pass, clean, lines, effects, cursor>>

Keep ==
    /\ pass = "success" /\ pos <= Len(lines)
    /\ diagnostic \/ Begins(pos) \/ RecordAt(pos) = 0
    /\ diagnostic' = (diagnostic \/ Begins(pos))
    /\ out' = Append(Flushed, lines[pos]) /\ count' = 0 /\ pos' = pos + 1
    /\ UNCHANGED <<input, context, pass, clean, lines, effects, cursor>>

Reduced ==
    /\ pass = "success" /\ pos > Len(lines)
    /\ Enter(After(pass), Flushed)

(* The last line of the run that begins with k and goes on with `alike`.   *)
RunEnd(k, alike) ==
    CHOOSE e \in k..Len(lines) : k + 1..e \subseteq alike /\ e + 1 \notin alike

(* groupLogs: a line without a timestamp has no key, nor a critical one.   *)
LogKey(k) == IF Attributes(k).critical THEN "" ELSE Attributes(k).log

GroupLogs ==
    /\ pass = "logs" /\ pos <= Len(lines)
    /\ LET alike == {x \in DOMAIN lines : LogKey(pos) # "" /\ LogKey(x) = LogKey(pos)}
           end   == RunEnd(pos, alike)
           n     == end - pos + 1
       IN  /\ out' = Append(out, IF n = 1 THEN lines[pos]
                                      ELSE Group(lines[pos].text, lines[end].text, n))
           /\ pos' = end + 1
    /\ UNCHANGED <<input, context, pass, clean, lines, count, diagnostic, effects, cursor>>

LogsGrouped ==
    /\ pass = "logs" /\ pos > Len(lines)
    /\ Enter(After(pass), out)

-----------------------------------------------------------------------------
(* aggregateRules.  The marker of a reducer is text as any other for       *)
(* buildDiagnostic, and that of vitest holds one of its words; the suffix  *)
(* of a group makes no line a diagnostic.                                  *)
IsDiagnostic(l) == IF IsText(l) THEN Line[l.text].diagnostic ELSE Kind = "vitest"
IsTagged(l)     == IF IsText(l) THEN Line[l.text].tagged ELSE TRUE
IsBlank(l)      == l = Kept(Blank)

Protected(l) == IsDiagnostic(l) \/ IsTagged(l)

(* A rule reads what groupLogs has written, suffix and all.                *)
KeyOf(r, l) == IF IsText(l) THEN Key(r, Written(l)) ELSE NoKey

(* The first rule with a key for line k owns it; 0 if there is none.       *)
Owner(k) ==
    LET keyed == {r \in DOMAIN ActiveRules : KeyOf(ActiveRules[r], lines[k]) # NoKey}
    IN  IF keyed = {} THEN 0 ELSE Min(keyed)

Size(k, end) == FoldFunction(+, 0, [x \in k..end |-> Len(Bytes[Written(lines[x])])]) + end - k

(* Mutant: the effect of a group replaces that of the ones before. *)
CountedOnce(name, n) == [groups |-> 1, lines |-> n]

Counted(name, n) ==
    IF name \in DOMAIN effects
      THEN [groups |-> effects[name].groups + 1, lines |-> effects[name].lines + n]
      ELSE [groups |-> 1, lines |-> n]

Untouched ==
    LET l == lines[pos] IN diagnostic \/ IsDiagnostic(l) \/ IsBlank(l) \/ IsTagged(l) \/ Owner(pos) = 0

GroupEnd ==
    LET r == ActiveRules[Owner(pos)]
    IN  RunEnd(pos, {x \in DOMAIN lines : /\ ~IsBlank(lines[x]) /\ ~Protected(lines[x])
                                         /\ KeyOf(r, lines[x]) = KeyOf(r, lines[pos])})

Saves == ~Untouched /\ GroupEnd > pos /\ Size(pos, pos) + 1 + MarkerSize < Size(pos, GroupEnd)

PassBy ==
    /\ pass = "rules" /\ pos <= Len(lines)
    /\ ~Saves
    /\ diagnostic' = (diagnostic \/ IsDiagnostic(lines[pos]))
    /\ out' = Append(out, lines[pos]) /\ pos' = pos + 1
    /\ UNCHANGED <<input, context, pass, clean, lines, count, effects, cursor>>

Aggregate ==
    /\ pass = "rules" /\ pos <= Len(lines)
    /\ Saves
    /\ LET name   == ActiveRules[Owner(pos)].name
           n      == GroupEnd - pos + 1
           behind == LinesOf(SubSeq(lines, 1, GroupEnd)) - LinesOf(SubSeq(lines, 1, pos))
       IN  /\ out' = out \o <<lines[pos], RuleMark(name, n, behind)>>
           /\ effects' = [x \in DOMAIN effects \cup {name} |->
                            IF x = name THEN Counted(name, n) ELSE effects[x]]
    /\ pos' = GroupEnd + 1
    /\ UNCHANGED <<input, context, pass, clean, lines, count, diagnostic, cursor>>

Aggregated ==
    /\ pass = "rules" /\ pos > Len(lines)
    /\ Enter(After(pass), out)

-----------------------------------------------------------------------------
(* Repeats, in every mode.                                                 *)
Repeat ==
    /\ pass = "repeats" /\ pos <= Len(lines)
    /\ LET alike == {x \in DOMAIN lines : lines[x] = lines[pos] /\ ~IsBlank(lines[pos])}
           end   == RunEnd(pos, alike)
       IN  /\ out' = Append(out, [lines[pos] EXCEPT !.times = end - pos + 1])
           /\ pos' = end + 1
    /\ UNCHANGED <<input, context, pass, clean, lines, count, diagnostic, effects, cursor>>

Repeated ==
    /\ pass = "repeats" /\ pos > Len(lines)
    /\ Enter(After(pass), out)

(* Compress returns: a text that would be emptied is returned as it was.   *)
(* Mutant: without that. *)
ReturnEmptied ==
    /\ pass = "result"
    /\ out' = lines /\ effects' = effects
    /\ pass' = "guard" /\ pos' = 1 /\ cursor' = 0
    /\ UNCHANGED <<input, context, clean, lines, count, diagnostic>>

Return ==
    /\ pass = "result"
    /\ IF lines = <<Kept(Blank)>> /\ input.original # <<Blank>>
         THEN /\ out' = [k \in DOMAIN input.original |-> Kept(input.original[k])]
              /\ effects' = <<>>
         ELSE out' = lines /\ UNCHANGED effects
    /\ pass' = "guard" /\ pos' = 1 /\ cursor' = 0
    /\ UNCHANGED <<input, context, clean, lines, count, diagnostic>>

-----------------------------------------------------------------------------
(* IntactFor: the critical lines in their order; one that repeats the line *)
(* before it needs no occurrence of its own.  The code looks for the bytes *)
(* of the line anywhere in the rest of the output, so it accepts what is   *)
(* accepted here.                                                          *)
Emptied == out = <<Kept(Blank)>> /\ input.original # <<Blank>>

Exempt(k) ==
    \/ ~Line[clean[k]].critical \/ PlaywrightRow(clean[k])
    \/ k > 1 /\ clean[k - 1] = clean[k]

Places(k) == {x \in cursor + 1..Len(out) : IsText(out[x]) /\ out[x].text = clean[k]}

Judge(verdict) ==
    /\ pass' = verdict
    /\ UNCHANGED <<input, context, clean, lines, pos, out, count, diagnostic, effects, cursor>>

GuardLine ==
    /\ pass = "guard" /\ ~Emptied /\ pos <= Len(clean)
    /\ \/ Exempt(pos) /\ UNCHANGED cursor
       \/ ~Exempt(pos) /\ Places(pos) # {} /\ cursor' = Min(Places(pos))
    /\ pos' = pos + 1
    /\ UNCHANGED <<input, context, pass, clean, lines, out, count, diagnostic, effects>>

Refuse ==
    /\ pass = "guard"
    /\ Emptied \/ (pos <= Len(clean) /\ ~Exempt(pos) /\ Places(pos) = {})
    /\ Judge("refused")

Accept ==
    /\ pass = "guard" /\ ~Emptied /\ pos > Len(clean)
    /\ Judge("accepted")

ReducerNext ==
    \/ Compile \/ SanitizeLine \/ Sanitized \/ Omit \/ Keep \/ Reduced
    \/ GroupLogs \/ LogsGrouped \/ PassBy \/ Aggregate \/ Aggregated
    \/ Repeat \/ Repeated \/ Return \/ GuardLine \/ Refuse \/ Accept

ReducerSpec == ReducerInit /\ [][ReducerNext]_reducerVars

-----------------------------------------------------------------------------
Judged == pass \in {"accepted", "refused"}

(* Every variable has its type.                                            *)
OutputLine ==
    [mark : {"line"}, text : DOMAIN Line, n : Nat \ {0}, times : Nat \ {0}]
      \cup [mark : {"group"}, text : DOMAIN Line, last : DOMAIN Line, n : Nat \ {0}, times : Nat \ {0}]
      \cup [mark : {"omitted"}, text : {Blank}, n : Nat \ {0}, times : {1}]
      \cup [mark : {"rule"}, text : DOMAIN Match, n : Nat \ {0, 1}, times : {1}, behind : Nat \ {0}]

ReducerTypeOK ==
    /\ input.original \in Seq(DOMAIN Line)
    /\ pass \in Passes \cup {"idle", "compile", "sanitize", "invalid", "accepted", "refused"}
    /\ context.reducer \in BuildKinds \cup PhpKinds \cup {"maven", "node-test", "logs", "none"}
    /\ \A k \in DOMAIN context.rules : context.rules[k].name \in DOMAIN Match
    /\ clean \in Seq(DOMAIN Line)
    /\ lines \in Seq(OutputLine) /\ out \in Seq(OutputLine)
    /\ pos \in Nat \ {0} /\ count \in Nat /\ cursor \in Nat /\ diagnostic \in BOOLEAN
    /\ DOMAIN effects \subseteq DOMAIN Match
    /\ \A name \in DOMAIN effects : effects[name].lines >= 2 * effects[name].groups

(* The reducers never make the engine throw their work away: what Compress *)
(* returns always passes the guard (engine.go:109, "integrity guard").     *)
GuardAccepts == pass # "refused"

(* At every step of every pass the written lines, with what their markers  *)
(* stand for and what is not flushed yet, stand for exactly the lines read *)
(* so far.  The number in a marker is what it stands for; that of a rule   *)
(* counts lines as the rules read them (rules.go:49), so a group of        *)
(* groupLogs among them counts as one, and never says too many.            *)
EveryLineCounted ==
    /\ pass \in Passes \ {"result", "guard"} =>
         LinesOf(out) + count * RecordLines = LinesOf(SubSeq(lines, 1, pos - 1))
    /\ pass \in Passes \ {"result", "guard"} => LinesOf(lines) = Len(clean)
    /\ Judged => LinesOf(out) = Len(clean)
    /\ \A k \in DOMAIN out : out[k].mark = "rule" =>
         /\ out[k].n - 1 <= out[k].behind
         /\ SuccessReducer # "logs" => out[k].n - 1 = out[k].behind

(* What is about to be left out is nothing but whole success records: for  *)
(* go, a RUN and the PASS of the same test next to each other (build.go:43)*)
(* and never behind or across a diagnostic line.                           *)
OnlySuccessOmitted ==
    pass = "success" =>
        \A k \in 1..count :
            LET at == pos - k * RecordLines
            IN  /\ SuccessReducer = "go-test" =>
                     /\ Attributes(at).run # "" /\ Attributes(at + 1).pass = Attributes(at).run
                     /\ ~Attributes(at + 1).diagnostic
                /\ SuccessReducer # "go-test" => SuccessReducer \in Attributes(at).success
                /\ \A x \in 1..at : ~Begins(x)

(* Where a diagnostic has begun nothing is left out or joined any more     *)
(* (compressor.go:150, "preserve its complete body, even lines that look   *)
(* like noise"): from the first critical line on, the output has every     *)
(* line of the text, in order, repeats only marked as such.  groupLogs     *)
(* alone goes on behind a critical line.                                   *)
Alarms == {k \in DOMAIN clean :
             /\ Line[clean[k]].critical
             /\ ~(Kind = "dotnet-test" /\ Line[clean[k]].header)
             /\ ~PlaywrightRow(clean[k])}

Unfold(s) == FlattenSeq([k \in DOMAIN s |-> [x \in 1..s[k].times |-> [s[k] EXCEPT !.times = 1]]])

DiagnosticBodyKept ==
    pass = "accepted" /\ Alarms # {} /\ SuccessReducer # "logs" =>
        \E k \in DOMAIN out :
            Unfold(SubSeq(out, k, Len(out)))
              = [x \in 1..Len(clean) - Min(Alarms) + 1 |-> Kept(clean[Min(Alarms) + x - 1])]

(* The effects that reach the metrics are the markers in the output: as    *)
(* many groups of each rule, with the lines they say.                      *)
RuleEffectsMatch ==
    Judged =>
        LET marks(name) == {k \in DOMAIN out : out[k].mark = "rule" /\ out[k].text = name}
        IN  /\ \A k \in DOMAIN out : out[k].mark = "rule" => out[k].text \in DOMAIN effects
            /\ \A name \in DOMAIN effects :
                 /\ effects[name].groups = Cardinality(marks(name))
                 /\ effects[name].lines = MapThenSumSet(LAMBDA k : out[k].n, marks(name))

(* Success records are left out only of the output of one program, and its *)
(* records they are, however the switches of the command are read          *)
(* (build.go:11, "whose output has an identified producer", php.go:63);    *)
(* Maven and the Node runners are recognized by their lines alone.         *)
OmissionHasOneProducer ==
    (\E k \in DOMAIN out : out[k].mark = "omitted") /\ Kind \notin {"maven", "node-test"} =>
        /\ input.command.simple /\ IsSmart
        /\ Programs(input.command.words) # {}
        /\ \A p \in Programs(input.command.words) : Prints(input.command.words, p, SuccessReducer)

(* The lines behind the marker that aggregateRules has just written.       *)
JustAggregated ==
    IF pass = "rules" /\ out # <<>> /\ Last(out).mark = "rule"
      THEN SubSeq(lines, pos - Last(out).n, pos - 1) ELSE <<>>

(* Lines are aggregated only when they differ in nothing but the ignored   *)
(* captures (custom-rules.md: "every other byte participates in the        *)
(* comparison"), never over a blank line, a diagnostic or a marker.        *)
AggregatedAlike ==
    \A k \in DOMAIN JustAggregated :
        LET l == JustAggregated[k]
            r == ActiveRules[CHOOSE x \in DOMAIN ActiveRules : ActiveRules[x].name = Last(out).text]
        IN  /\ IsText(l) /\ Alike(r, Written(JustAggregated[1]), Written(l))
            /\ ~Protected(l) /\ ~IsBlank(l)

(* "The first matching rule in configuration order owns the line,          *)
(* including when it finds no savings" (docs/custom-rules.md:64).          *)
FirstRuleOwns ==
    \A k \in DOMAIN JustAggregated :
        LET at == pos - Len(JustAggregated) + k - 1
        IN  ActiveRules[Owner(at)].name = Last(out).text
=============================================================================
