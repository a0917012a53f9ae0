------------------------------ MODULE TextProofs ------------------------------
(***************************************************************************)
(* The two algorithms of Process on text.                                  *)
(*                                                                         *)
(* What may be left out of an output, for every text, command and list of  *)
(* custom rules: OmissionHasOneProducer from Marked and from what the      *)
(* words of a command mean (BuildPrograms, PhpPrograms),                   *)
(* OnlySuccessOmitted from OnlyRecords.                                    *)
(*                                                                         *)
(* That the marker is sized correctly for every reduced output and every   *)
(* marker text the program can have, not only near the sizes that TLC      *)
(* visits: MarkerIsTrue from MarkerInv.                                    *)
(*                                                                         *)
(* That Compress keeps the books: the lines that a pass writes stand for   *)
(* exactly the lines that it has read, each of them for lines it may stand *)
(* for (Ledger).  From that follow that the guard accepts whatever the     *)
(* reducers do (GuardAccepts), that the counts in the markers are true     *)
(* (EveryLineCounted) and that nothing behind an alarm is touched          *)
(* (DiagnosticBodyKept).  That the rules report what their markers say:    *)
(* RuleEffectsMatch from Effects.  That they join only what differs in the *)
(* ignored captures alone: AggregatedAlike, from KeysTell.                 *)
(***************************************************************************)
EXTENDS Marker, Reducer, FoldProofs, WellFoundedInduction, TLAPS

(* What a pass reads and writes is a sequence; what its lines are, does    *)
(* not matter here.                                                        *)
IsSeq(s) == \E S : s \in Seq(S)

(* A marker of omitted records is there only under a reducer of such       *)
(* records.                                                                *)
Marks(s) == \A k \in DOMAIN s : s[k].mark = "omitted" => SuccessReducer \notin {"none", "logs"}

(* The context is the one of the command, and only under a reducer of      *)
(* success records there is a marker or a pass that writes one.            *)
FromCommand ==
    /\ IsSeq(input.command.words)
    /\ \/ context = NoContext
       \/ Kind = Detect(input.command, input.looks) /\ SuccessReducer = SuccessReducerOf(Kind)

Derived ==
    /\ FromCommand
    /\ pass = "success" => SuccessReducer \notin {"none", "logs"}
    /\ pass = "compile" => context = NoContext /\ lines = <<>> /\ out = <<>>

Marked ==
    /\ Derived
    /\ IsSeq(lines) /\ IsSeq(clean)
    /\ pass \notin {"guard", "accepted", "refused"} => IsSeq(out)
    /\ Marks(lines) /\ Marks(out)
    /\ pos \in Nat \ {0}

-----------------------------------------------------------------------------
(* There is a last line of the run: the first after which it does not go   *)
(* on, and at the latest the last of all.                                  *)
LEMMA RunEnds ==
    ASSUME NEW alike \in SUBSET (DOMAIN lines), IsSeq(lines),
           NEW k \in 1..Len(lines)
    PROVE  /\ Len(lines) \in Nat /\ RunEnd(k, alike) \in k..Len(lines)
           /\ k + 1..RunEnd(k, alike) \subseteq alike
<1> DEFINE Ends == {e \in k..Len(lines) : e + 1 \notin alike}
<1>1. Len(lines) \in Nat /\ DOMAIN lines = 1..Len(lines)
    BY DEF IsSeq
<1>2. Ends \subseteq Nat /\ Len(lines) \in Ends
    BY <1>1
<1>3. IsWellFoundedOn(OpToRel(<, Nat), Nat)
    BY NatLessThanWellFounded
<1>4. PICK e \in Ends : \A x \in Ends : <<x, e>> \notin OpToRel(<, Nat)
    BY <1>2, <1>3, WFMin
<1>5. \A x \in Ends : ~(x < e)
    BY <1>2, <1>4 DEF OpToRel
<1>6. ASSUME NEW x \in k + 1..e PROVE x \in alike
    <2>1. x - 1 \in k..Len(lines) /\ x - 1 < e /\ (x - 1) + 1 = x
        BY <1>1
    <2>2. x - 1 \notin Ends
        BY <1>5, <2>1
    <2> QED BY <2>1, <2>2
<1>7. e \in k..Len(lines) /\ k + 1..e \subseteq alike /\ e + 1 \notin alike
    BY <1>6
<1> QED BY <1>1, <1>7 DEF RunEnd

(* What follows from the command stays as it is.                           *)
LEMMA StillFromCommand ==
    ASSUME FromCommand, UNCHANGED <<input, context>>
    PROVE  FromCommand' /\ UNCHANGED <<Kind, SuccessReducer>>
    BY DEF FromCommand, Kind, SuccessReducer, SuccessReducerOf, IsSmart

(* A sequence has a length and is defined up to it.                        *)
LEMMA SeqDomain ==
    ASSUME NEW s, IsSeq(s)
    PROVE  Len(s) \in Nat /\ DOMAIN s = 1..Len(s)
    BY DEF IsSeq

LEMMA EmptyIsSeq == IsSeq(<<>>) /\ Marks(<<>>)
    BY DEF IsSeq, Marks

(* Appending a line to what a pass has written.                            *)
LEMMA AppendKeeps ==
    ASSUME NEW s, NEW e, IsSeq(s)
    PROVE  /\ IsSeq(Append(s, e))
           /\ DOMAIN Append(s, e) = 1..Len(s) + 1 /\ Len(s) \in Nat
           /\ Append(s, e)[Len(s) + 1] = e
           /\ \A k \in 1..Len(s) : k \in DOMAIN s /\ Append(s, e)[k] = s[k]
<1>1. PICK S : s \in Seq(S)
    BY DEF IsSeq
<1> DEFINE T == S \cup {e}
<1>2. s \in Seq(T) /\ e \in T
    BY <1>1
<1> HIDE DEF T
<1>3. Append(s, e) \in Seq(T)
    BY <1>2
<1> QED BY <1>2, <1>3 DEF IsSeq

(* Two lines appended at once, as aggregateRules does.                     *)
LEMMA TwoAppended ==
    ASSUME NEW s, NEW d, NEW e, IsSeq(s)
    PROVE  s \o <<d, e>> = Append(Append(s, d), e)
<1>1. PICK S : s \in Seq(S)
    BY DEF IsSeq
<1> DEFINE T == S \cup {d, e}
<1>2. s \in Seq(T) /\ d \in T /\ e \in T
    BY <1>1
<1> HIDE DEF T
<1> QED BY <1>2

(* An appended line that is no marker of a reducer keeps Marks.            *)
LEMMA AppendMarked ==
    ASSUME NEW s, NEW e, IsSeq(s), Marks(s),
           e.mark = "omitted" => SuccessReducer \notin {"none", "logs"}
    PROVE  IsSeq(Append(s, e)) /\ Marks(Append(s, e))
    BY AppendKeeps DEF Marks

(* After a pass there is none of success records but behind Sanitize.      *)
LEMMA NextPass ==
    /\ After("sanitize") = "success" => SuccessReducer \notin {"none", "logs"}
    /\ \A p \in {"success", "logs", "rules", "repeats"} : After(p) # "success"
    /\ \A p \in {"sanitize", "success", "logs", "rules", "repeats"} :
         After(p) \notin {"guard", "accepted", "refused", "compile"}
    BY DEF After

(* Entering the pass that follows.                                         *)
LEMMA EnterMarked ==
    ASSUME Marked, NEW p \in {"sanitize", "success", "logs", "rules", "repeats"},
           NEW text, IsSeq(text), Marks(text), Enter(After(p), text), p = "sanitize" \/ pass # "sanitize"
    PROVE  Marked'
<1>1. p # "sanitize" => After(p) # "success"
    BY NextPass
<1>2. After(p) = "success" => SuccessReducer \notin {"none", "logs"}
    BY <1>1, NextPass
<1> QED
    BY <1>2, NextPass, EmptyIsSeq, StillFromCommand DEF Marked, Derived, Enter, Marks

(* A step within a pass that writes at most one line.                      *)
LEMMA WriteMarked ==
    ASSUME Marked, UNCHANGED <<input, context, pass, clean, lines>>,
           pass \notin {"guard", "accepted", "refused", "compile"}, pos' \in Nat \ {0},
           NEW e, e.mark = "omitted" => SuccessReducer \notin {"none", "logs"},
           out' = Append(out, e)
    PROVE  Marked'
<1>1. IsSeq(Append(out, e)) /\ Marks(Append(out, e))
    BY AppendMarked DEF Marked
<1> QED
    BY <1>1, StillFromCommand DEF Marked, Derived, Marks

(* A step that writes nothing.                                             *)
LEMMA StillMarked ==
    ASSUME Marked, UNCHANGED <<input, context, pass, clean, lines, out>>, pos' \in Nat \ {0}
    PROVE  Marked'
    BY StillFromCommand DEF Marked, Derived, Marks

(* The line that is read next.                                             *)
LEMMA LineMarked ==
    ASSUME Marked, pos <= Len(lines)
    PROVE  lines[pos].mark = "omitted" => SuccessReducer \notin {"none", "logs"}
<1>1. PICK S : lines \in Seq(S)
    BY DEF Marked, IsSeq
<1>2. pos \in DOMAIN lines
    BY <1>1 DEF Marked
<1> QED BY <1>2 DEF Marked, Marks

-----------------------------------------------------------------------------
(* The passes one by one.                                                  *)
LEMMA CompileMarked == Marked /\ Compile => Marked'
<1> SUFFICES ASSUME Marked, Compile PROVE Marked'
    OBVIOUS
<1>1. FromCommand'
    <2>1. CASE UNCHANGED context
        BY <2>1, StillFromCommand DEF Compile, Marked, Derived
    <2>2. CASE ~UNCHANGED context
        <3> DEFINE kind == Detect(input.command, input.looks)
        <3>1. UNCHANGED input /\ context' = [kind |-> kind, reducer |-> SuccessReducerOf(kind),
                        rules |-> IF IsSmart THEN RulesFor(input.command) ELSE <<>>]
            BY <2>2 DEF Compile
        <3> HIDE DEF kind
        <3>2. Kind' = kind /\ SuccessReducer' = SuccessReducerOf(kind)
            BY <3>1 DEF Kind, SuccessReducer
        <3>3. SuccessReducerOf(kind)' = SuccessReducerOf(kind) /\ kind' = kind
            BY <3>1 DEF SuccessReducerOf, IsSmart, kind
        <3>4. Kind' = Detect(input.command, input.looks)' /\ SuccessReducer' = SuccessReducerOf(Kind)'
            BY <3>1, <3>2, <3>3 DEF kind, SuccessReducerOf, IsSmart
        <3>5. IsSeq(input.command.words)'
            BY <3>1 DEF FromCommand, Marked, Derived
        <3> QED BY <3>4, <3>5 DEF FromCommand
    <2> QED BY <2>1, <2>2
<1>2. Marks(lines)' /\ Marks(out)' /\ pass' \in {"invalid", "sanitize"}
    BY DEF Compile, Marked, Derived, Marks
<1> QED BY <1>1, <1>2 DEF Compile, Marked, Derived

LEMMA SanitizeMarked == Marked /\ (SanitizeLine \/ Sanitized) => Marked'
<1> SUFFICES ASSUME Marked, SanitizeLine \/ Sanitized PROVE Marked'
    OBVIOUS
<1>1. CASE SanitizeLine
    <2>1. IsSeq(clean')
        BY <1>1, AppendKeeps DEF SanitizeLine, Marked
    <2> QED
        BY <1>1, <2>1, StillFromCommand DEF SanitizeLine, Marked, Derived, Marks
<1>2. CASE Sanitized
    <2> DEFINE text == [k \in DOMAIN clean |-> Kept(clean[k])]
    <2>1. PICK S : clean \in Seq(S)
        BY DEF Marked, IsSeq
    <2>2. text \in Seq({Kept(clean[k]) : k \in DOMAIN clean})
        BY <2>1
    <2>3. IsSeq(text)
        BY <2>2 DEF IsSeq
    <2>4. Marks(text)
        BY DEF Marks, Kept
    <2>5. Enter(After("sanitize"), text)
        BY <1>2 DEF Sanitized
    <2> HIDE DEF text
    <2> QED BY <2>3, <2>4, <2>5, EnterMarked
<1> QED BY <1>1, <1>2

(* What flush writes.                                                      *)
LEMMA FlushedMarked ==
    ASSUME Marked, pass = "success"
    PROVE  IsSeq(Flushed) /\ Marks(Flushed)
<1>1. Omitted(count).mark = "omitted" => SuccessReducer \notin {"none", "logs"}
    BY DEF Marked, Derived
<1> QED BY <1>1, AppendMarked DEF Marked, Flushed

LEMMA SuccessMarked == Marked /\ (Omit \/ Keep \/ Reduced) => Marked'
<1> SUFFICES ASSUME Marked, Omit \/ Keep \/ Reduced PROVE Marked'
    OBVIOUS
<1>1. CASE Omit
    <2>0. RecordAt(pos) \in {0, 1, 2}
        BY Zenon DEF RecordAt
    <2>1. RecordAt(pos) \in {1, 2}
        BY <1>1, <2>0 DEF Omit
    <2>2. pos' \in Nat \ {0} /\ UNCHANGED <<input, context, pass, clean, lines, out>>
        BY <1>1, <2>1 DEF Omit, Marked
    <2> QED BY <2>2, StillMarked
<1>2. CASE Keep
    <2>1. IsSeq(Flushed) /\ Marks(Flushed)
        BY <1>2, FlushedMarked DEF Keep
    <2>2. lines[pos].mark = "omitted" => SuccessReducer \notin {"none", "logs"}
        BY <1>2, LineMarked DEF Keep
    <2>3. IsSeq(out') /\ Marks(Append(Flushed, lines[pos])) /\ out' = Append(Flushed, lines[pos])
        BY <1>2, <2>1, <2>2, AppendMarked DEF Keep
    <2> QED
        BY <1>2, <2>3, StillFromCommand DEF Keep, Marked, Derived, Marks
<1>3. CASE Reduced
    <2>1. IsSeq(Flushed) /\ Marks(Flushed) /\ Enter(After("success"), Flushed) /\ pass = "success"
        BY <1>3, FlushedMarked DEF Reduced
    <2> QED BY <2>1, EnterMarked
<1> QED BY <1>1, <1>2, <1>3

LEMMA LogsMarked == Marked /\ (GroupLogs \/ LogsGrouped) => Marked'
<1> SUFFICES ASSUME Marked, GroupLogs \/ LogsGrouped PROVE Marked'
    OBVIOUS
<1>1. CASE GroupLogs
    <2> DEFINE alike == {x \in DOMAIN lines : LogKey(pos) # "" /\ LogKey(x) = LogKey(pos)}
               end   == RunEnd(pos, alike)
               n     == end - pos + 1
               line  == IF n = 1 THEN lines[pos] ELSE Group(lines[pos].text, lines[end].text, n)
    <2>0. pos <= Len(lines)
        BY <1>1 DEF GroupLogs
    <2>1. pass = "logs" /\ pos <= Len(lines) /\ out' = Append(out, line) /\ pos' = end + 1
        BY <1>1 DEF GroupLogs
    <2>2. pos \in 1..Len(lines)
        BY <2>0, SeqDomain DEF Marked
    <2>3. alike \in SUBSET (DOMAIN lines) /\ IsSeq(lines)
        BY DEF Marked
    <2> HIDE DEF alike
    <2>4. Len(lines) \in Nat /\ end \in pos..Len(lines)
        BY <2>2, <2>3, RunEnds
    <2>5. pos' \in Nat \ {0}
        BY <2>1, <2>2, <2>4
    <2>6. line.mark = "omitted" => SuccessReducer \notin {"none", "logs"}
        BY <2>1, LineMarked DEF Group
    <2> HIDE DEF line
    <2> QED BY <1>1, <2>1, <2>5, <2>6, WriteMarked DEF GroupLogs
<1>2. CASE LogsGrouped
    <2>1. Enter(After("logs"), out) /\ pass = "logs" /\ IsSeq(out) /\ Marks(out)
        BY <1>2 DEF LogsGrouped, Marked
    <2> QED BY <2>1, EnterMarked
<1> QED BY <1>1, <1>2

LEMMA RulesMarked == Marked /\ (PassBy \/ Aggregate \/ Aggregated) => Marked'
<1> SUFFICES ASSUME Marked, PassBy \/ Aggregate \/ Aggregated PROVE Marked'
    OBVIOUS
<1>1. CASE PassBy
    <2>1. pos' \in Nat \ {0} /\ pass = "rules" /\ out' = Append(out, lines[pos])
        BY <1>1 DEF PassBy, Marked
    <2>2. lines[pos].mark = "omitted" => SuccessReducer \notin {"none", "logs"}
        BY <1>1, LineMarked DEF PassBy
    <2> QED BY <1>1, <2>1, <2>2, WriteMarked DEF PassBy
<1>2. CASE Aggregate
    <2> DEFINE r     == ActiveRules[Owner(pos)]
               alike == {x \in DOMAIN lines : /\ ~IsBlank(lines[x]) /\ ~Protected(lines[x])
                                              /\ KeyOf(r, lines[x]) = KeyOf(r, lines[pos])}
               mark  == RuleMark(r.name, GroupEnd - pos + 1,
                                 LinesOf(SubSeq(lines, 1, GroupEnd)) - LinesOf(SubSeq(lines, 1, pos)))
    <2>1. /\ pass = "rules" /\ pos <= Len(lines) /\ pos' = GroupEnd + 1
          /\ out' = out \o <<lines[pos], mark>>
        BY <1>2 DEF Aggregate
    <2>2. pos \in 1..Len(lines)
        BY <2>1, SeqDomain DEF Marked
    <2>3. alike \in SUBSET (DOMAIN lines) /\ IsSeq(lines) /\ GroupEnd = RunEnd(pos, alike)
        BY DEF Marked, GroupEnd
    <2>4. mark.mark = "rule"
        BY DEF RuleMark
    <2> HIDE DEF alike, mark
    <2>5. Len(lines) \in Nat /\ GroupEnd \in pos..Len(lines)
        BY <2>2, <2>3, RunEnds
    <2>6. pos' \in Nat \ {0}
        BY <2>1, <2>2, <2>5
    <2>7. lines[pos].mark = "omitted" => SuccessReducer \notin {"none", "logs"}
        BY <2>1, LineMarked
    <2>8. IsSeq(out) /\ Marks(out)
        BY <2>1 DEF Marked
    <2>9. out' = Append(Append(out, lines[pos]), mark)
        BY <2>1, <2>8, TwoAppended
    <2>10. IsSeq(Append(out, lines[pos])) /\ Marks(Append(out, lines[pos]))
        BY <2>7, <2>8, AppendMarked
    <2>11. IsSeq(out') /\ Marks(Append(Append(out, lines[pos]), mark))
        BY <2>4, <2>9, <2>10, AppendMarked
    <2> QED
        BY <1>2, <2>6, <2>9, <2>11, StillFromCommand DEF Aggregate, Marked, Derived, Marks
<1>3. CASE Aggregated
    <2>1. Enter(After("rules"), out) /\ pass = "rules" /\ IsSeq(out) /\ Marks(out)
        BY <1>3 DEF Aggregated, Marked
    <2> QED BY <2>1, EnterMarked
<1> QED BY <1>1, <1>2, <1>3

LEMMA RepeatsMarked == Marked /\ (Repeat \/ Repeated) => Marked'
<1> SUFFICES ASSUME Marked, Repeat \/ Repeated PROVE Marked'
    OBVIOUS
<1>1. CASE Repeat
    <2> DEFINE alike == {x \in DOMAIN lines : lines[x] = lines[pos] /\ ~IsBlank(lines[pos])}
               end   == RunEnd(pos, alike)
               line  == [lines[pos] EXCEPT !.times = end - pos + 1]
    <2>1. pass = "repeats" /\ pos <= Len(lines) /\ out' = Append(out, line) /\ pos' = end + 1
        BY <1>1 DEF Repeat
    <2>2. pos \in 1..Len(lines)
        BY <2>1, SeqDomain DEF Marked
    <2>3. alike \in SUBSET (DOMAIN lines) /\ IsSeq(lines)
        BY DEF Marked
    <2> HIDE DEF alike
    <2>4. Len(lines) \in Nat /\ end \in pos..Len(lines)
        BY <2>2, <2>3, RunEnds
    <2>5. pos' \in Nat \ {0}
        BY <2>1, <2>2, <2>4
    <2>6. lines[pos].mark = "omitted" => SuccessReducer \notin {"none", "logs"}
        BY <2>1, LineMarked
    <2>7. line.mark = lines[pos].mark
        OBVIOUS
    <2> HIDE DEF line
    <2> QED BY <1>1, <2>1, <2>5, <2>6, <2>7, WriteMarked DEF Repeat
<1>2. CASE Repeated
    <2>1. Enter(After("repeats"), out) /\ pass = "repeats" /\ IsSeq(out) /\ Marks(out)
        BY <1>2 DEF Repeated, Marked
    <2> QED BY <2>1, EnterMarked
<1> QED BY <1>1, <1>2

LEMMA JudgedMarked ==
    Marked /\ (Return \/ GuardLine \/ Refuse \/ Accept) => Marked'
<1> SUFFICES ASSUME Marked, Return \/ GuardLine \/ Refuse \/ Accept PROVE Marked'
    OBVIOUS
<1>1. CASE Return
    <2>1. Marks(out')
        BY <1>1 DEF Return, Marked, Marks, Kept
    <2>2. UNCHANGED <<input, context, clean, lines>> /\ pass' = "guard" /\ pos' = 1
        BY <1>1 DEF Return
    <2> QED BY <2>1, <2>2, StillFromCommand DEF Marked, Derived, Marks
<1>2. CASE GuardLine
    BY <1>2, StillMarked DEF GuardLine, Marked
<1>3. CASE Refuse \/ Accept
    <2>1. UNCHANGED <<input, context, clean, lines, out, pos>> /\ pass' \in {"refused", "accepted"}
        BY <1>3 DEF Refuse, Accept, Judge
    <2> QED BY <2>1, StillFromCommand DEF Marked, Derived, Marks
<1> QED BY <1>1, <1>2, <1>3

LEMMA InitMarked == ReducerInit => Marked
<1> SUFFICES ASSUME ReducerInit PROVE Marked
    OBVIOUS
<1>1. IsSeq(input.command.words)
    <2>1. PICK c \in Calls : input.command \in c.command
        BY DEF ReducerInit
    <2>2. input.command.words \in Seq(ToSet(input.command.words))
        BY <2>1, CallsAssumption
    <2> QED BY <2>2 DEF IsSeq
<1> QED BY <1>1, EmptyIsSeq DEF ReducerInit, Marked, Derived, FromCommand

(* Marked is inductive.                                                    *)
LEMMA MarkedInductive == Marked /\ [ReducerNext]_reducerVars => Marked'
<1> SUFFICES ASSUME Marked, [ReducerNext]_reducerVars PROVE Marked'
    OBVIOUS
<1>1. CASE UNCHANGED reducerVars
    BY <1>1, StillMarked DEF reducerVars, Marked
<1> QED
    BY <1>1, CompileMarked, SanitizeMarked, SuccessMarked, LogsMarked, RulesMarked,
       RepeatsMarked, JudgedMarked
    DEF ReducerNext

-----------------------------------------------------------------------------
(* How the words of a command are read.                                    *)
Names == {"pytest", "cargo", "dotnet", "playwright", "go", "gradle", "gradlew", "vitest", "npx",
          "pnpm", "yarn", "bun", "exec", "x", "test", "-m", "+stable", "sail", "artisan",
          "phpunit", "phpunit.phar", "phpunit.bat", "pest", "pest.bat",
          "composer", "composer.phar", "composer.bat", "install", "update"}

LEMMA NoName == NoWord \notin Names \cup Php \cup Python \cup PhpValued \cup PhpSilent
    BY Zenon DEF NoWord, Names, Php, Python, PhpValued, PhpSilent

LEMMA AtIs ==
    ASSUME NEW words, IsSeq(words)
    PROVE  /\ Len(words) \in Nat /\ DOMAIN words = 1..Len(words)
           /\ \A u : u \notin 1..Len(words) => At(words, u) = NoWord
           /\ \A u : At(words, u) # NoWord => u \in 1..Len(words)
           /\ NoWord \notin Switches
    BY ClassifierAssumption DEF At, IsSeq

(* A word that is no switch is the only operand that begins with it,       *)
LEMMA LoneOperand ==
    ASSUME NEW words, IsSeq(words), NEW start \in Nat, start <= Len(words) + 2,
           At(words, start) \notin Switches, NEW silent, NEW valued
    PROVE  Operands(words, start, silent, valued) = {start}
<1>1. Len(words) \in Nat
    BY AtIs
<1>2. start \in Operands(words, start, silent, valued)
    <2>1. start \in start..Len(words) + 2
        BY <1>1
    <2>2. {start} \in SUBSET (start..Len(words) + 2) /\ {start, start} \subseteq {start} /\ {start} \ {start} = {}
        BY <2>1
    <2> QED BY <2>1, <2>2 DEF Operands
<1>3. ASSUME NEW j \in Operands(words, start, silent, valued) PROVE j = start
    <2>1. PICK S : /\ {start, j} \subseteq S
                   /\ \A u \in S \ {j} : Onward(words, u, silent, valued) \cap S # {}
        BY DEF Operands
    <2>2. Onward(words, start, silent, valued) = {}
        BY DEF Onward
    <2> QED BY <2>1, <2>2
<1> QED BY <1>2, <1>3

(* So is the first word behind switches that take none, however many.      *)
LEMMA BehindSwitches ==
    ASSUME NEW words, IsSeq(words), NEW start \in Nat, NEW k \in Nat, start <= k,
           NEW silent, NEW valued, silent \cap valued = {}, Attached \cap valued = {},
           \A u \in start..k - 1 : At(words, u) \in Switches \cap (silent \cup Attached),
           At(words, k) \notin Switches,
           NEW j \in Operands(words, start, silent, valued)
    PROVE  j = k
<1>0. Len(words) \in Nat
    BY AtIs
<1>1. PICK S : /\ {start, j} \subseteq S /\ At(words, j) \notin Switches /\ j \in Int
               /\ \A u \in S \ {j} : Onward(words, u, silent, valued) \cap S # {}
    <2>1. j \in start..Len(words) + 2 /\ At(words, j) \notin Switches
        BY DEF Operands
    <2>2. \E S : /\ {start, j} \subseteq S
                 /\ \A u \in S \ {j} : Onward(words, u, silent, valued) \cap S # {}
        BY DEF Operands
    <2> QED BY <1>0, <2>1, <2>2
<1>. DEFINE I == {n \in Nat : start + n <= k => start + n \in S}
<1>2. 0 \in I
    BY <1>1
<1>3. ASSUME NEW n \in I PROVE n + 1 \in I
    <2>1. ASSUME start + (n + 1) <= k PROVE start + (n + 1) \in S
        <3>. DEFINE u == start + n
        <3>1. u \in S /\ u \in start..k - 1
            BY <2>1
        <3>. HIDE DEF u
        <3>2. At(words, u) \in Switches \cap (silent \cup Attached) /\ u # j
            BY <1>1, <3>1
        <3>3. PICK x \in Onward(words, u, silent, valued) : x \in S
            BY <1>1, <3>1, <3>2
        <3>4. u + 1 \in S
            BY <3>2, <3>3 DEF Onward
        <3> QED BY <3>4 DEF u
    <2> QED BY <2>1
<1>4. I = Nat
    <2>1. I \in SUBSET Nat
        OBVIOUS
    <2>. HIDE DEF I
    <2> QED BY <1>2, <1>3, <2>1, Upwards
<1>5. k \in S
    <2>1. k - start \in Nat /\ start + (k - start) = k
        OBVIOUS
    <2>2. k - start \in I
        BY <1>4, <2>1
    <2> QED BY <2>1, <2>2
<1>6. Onward(words, k, silent, valued) = {}
    BY DEF Onward
<1> QED BY <1>1, <1>5, <1>6

(* What AfterSwitches finds.                                               *)
LEMMA FirstBehind ==
    ASSUME NEW words, IsSeq(words), NEW start \in Nat, start <= Len(words) + 1,
           NEW allowed, NoWord \notin allowed
    PROVE  LET k == AfterSwitches(words, start, allowed)
           IN  /\ k \in start..Len(words) + 1 /\ At(words, k) \notin allowed
               /\ \A u \in start..k - 1 : At(words, u) \in allowed
<1>. DEFINE K == {u \in start..Len(words) + 1 : At(words, u) \notin allowed}
            k == AfterSwitches(words, start, allowed)
<1>1. Len(words) \in Nat /\ At(words, Len(words) + 1) = NoWord
    BY AtIs
<1>2. K \in SUBSET Nat /\ K # {}
    <2>1. Len(words) + 1 \in K
        BY <1>1
    <2> QED BY <1>1, <2>1
<1>3. k = Min(K)
    BY DEF AfterSwitches
<1>. HIDE DEF k
<1>4. k \in K /\ \A x \in K : k <= x
    <2>. HIDE DEF K
    <2> QED BY <1>2, <1>3, Least
<1>5. ASSUME NEW u \in start..k - 1 PROVE At(words, u) \in allowed
    <2>1. u \in start..Len(words) + 1 /\ ~(k <= u)
        BY <1>1, <1>4
    <2>2. u \notin K
        BY <1>4, <2>1
    <2> QED BY <2>1, <2>2
<1> QED BY <1>4, <1>5 DEF k

(* A verb that the code finds behind quiet switches is the one the program *)
(* gets.                                                                   *)
LEMMA VerbFound ==
    ASSUME NEW words, IsSeq(words), NEW p \in Nat, p <= Len(words), NEW allowed, NEW verbs,
           allowed \subseteq (Switches \cap Attached) \cup Quiet,
           verbs \subseteq {"test", "install", "update"},
           At(words, AfterSwitches(words, p + 1, allowed)) \in verbs
    PROVE  GetsOneOf(words, p, Quiet, verbs)
<1>. DEFINE k == AfterSwitches(words, p + 1, allowed)
<1>1. Quiet \subseteq Switches /\ NoWord \notin allowed /\ verbs \cap Switches = {}
    BY ClassifierAssumption DEF Quiet
<1>2. /\ Len(words) \in Nat /\ p + 1 \in Nat /\ p + 1 <= Len(words) + 1
    BY AtIs
<1>3. k \in p + 1..Len(words) + 1 /\ \A u \in p + 1..k - 1 : At(words, u) \in allowed
    BY <1>1, <1>2, FirstBehind
<1>4. At(words, k) \in verbs
    OBVIOUS
<1>. HIDE DEF k
<1>5. \A u \in p + 1..k - 1 : At(words, u) \in Switches \cap (Quiet \cup Attached)
    BY <1>1, <1>3
<1>6. k \in Nat /\ p + 1 <= k /\ At(words, k) \notin Switches
    BY <1>1, <1>2, <1>3, <1>4
<1>7. ASSUME NEW j \in Operands(words, p + 1, Quiet, {}) PROVE j = k
    BY <1>2, <1>5, <1>6, BehindSwitches
<1> QED BY <1>4, <1>7 DEF GetsOneOf

(* Without any switch.                                                     *)
LEMMA VerbNext ==
    ASSUME NEW words, IsSeq(words), NEW p \in Nat, p <= Len(words), NEW silent, NEW verbs,
           At(words, p + 1) \in verbs, verbs \cap Switches = {}
    PROVE  GetsOneOf(words, p, silent, verbs)
<1>1. /\ p + 1 \in Nat /\ p + 1 <= Len(words) + 2 /\ At(words, p + 1) \notin Switches
    BY AtIs
<1>2. Operands(words, p + 1, silent, {}) = {p + 1}
    BY <1>1, LoneOperand
<1> QED BY <1>2 DEF GetsOneOf

-----------------------------------------------------------------------------
(* The search for the program behind php, word by word.                    *)
FoundAt(words, f, u) ==
    IF u > Len(words) THEN 0
    ELSE IF At(words, u) \in PhpValued THEN (IF u = Len(words) THEN 0 ELSE f[u + 2])
    ELSE IF At(words, u) \in PhpSilent THEN f[u + 1]
    ELSE IF At(words, u) \in Switches THEN 0 ELSE u

LEMMA SearchIs ==
    ASSUME NEW words, IsSeq(words)
    PROVE  \E f : /\ AfterInterpreter(words) = f[2]
                  /\ \A u \in 2..Len(words) + 2 : f[u] = FoundAt(words, f, u)
<1>. DEFINE N == Len(words) + 2
            V == 0..N
            S == V \X V
            Via3(u, x, y) ==
                IF u > Len(words) \/ u < 2 THEN 0
                ELSE IF At(words, u) \in PhpValued THEN (IF u = Len(words) THEN 0 ELSE y)
                ELSE IF At(words, u) \in PhpSilent THEN x
                ELSE IF At(words, u) \in Switches THEN 0 ELSE u
            G == [n \in Nat |-> [d \in S |-> <<Via3(N - (n + 1), d[1], d[2]), d[1]>>]]
            Body(f) == [u \in 2..Len(words) + 2 |->
                IF u > Len(words) THEN 0
                ELSE IF At(words, u) \in PhpValued THEN IF u = Len(words) THEN 0 ELSE f[u + 2]
                ELSE IF At(words, u) \in PhpSilent THEN f[u + 1]
                ELSE IF At(words, u) \in Switches THEN 0 ELSE u]
            F == CHOOSE f : f = Body(f)
<1>1. Len(words) \in Nat /\ N \in Nat /\ 0 \in V
    BY AtIs
<1>2. ASSUME NEW n \in Nat, NEW d \in S
      PROVE  <<Via3(N - (n + 1), d[1], d[2]), d[1]>> \in S
    <2>1. d[1] \in V /\ d[2] \in V
        OBVIOUS
    <2>2. ASSUME NEW u \in Int, u <= N PROVE Via3(u, d[1], d[2]) \in V
        BY <1>1, <2>1, <2>2
    <2>3. N - (n + 1) \in Int /\ N - (n + 1) <= N
        BY <1>1
    <2>4. Via3(N - (n + 1), d[1], d[2]) \in V
        BY <2>2, <2>3
    <2>. HIDE DEF V, Via3
    <2> QED BY <2>1, <2>4
<1>3. G \in [Nat -> [S -> S]] /\ <<0, 0>> \in S
    BY <1>1, <1>2
<1>4. PICK g \in [Nat -> S] : Recurs(g, <<0, 0>>, G)
    <2>. HIDE DEF G, S
    <2> QED BY <1>3, Recursion
<1>5. g[0] = <<0, 0>>
    BY <1>4 DEF Recurs
<1>6. ASSUME NEW n \in Nat
      PROVE  /\ g[n] \in S
             /\ g[n + 1][1] = Via3(N - (n + 1), g[n][1], g[n][2]) /\ g[n + 1][2] = g[n][1]
    <2>1. n + 1 \in Nat /\ n + 1 # 0 /\ (n + 1) - 1 = n /\ g[n] \in S
        <3>. HIDE DEF S, G
        <3> QED BY <1>4
    <2>2. g[n + 1] = G[n][g[n]]
        <3>. HIDE DEF G, S
        <3> QED BY <1>4, <2>1 DEF Recurs
    <2>3. G[n][g[n]] = <<Via3(N - (n + 1), g[n][1], g[n][2]), g[n][1]>>
        <3>. HIDE DEF Via3, S, N
        <3> QED BY <2>1
    <2>. HIDE DEF Via3, S, N, G
    <2> QED BY <2>1, <2>2, <2>3
<1>. DEFINE h == [u \in 2..Len(words) + 2 |-> g[N - u][1]]
<1>7. ASSUME NEW u \in 2..Len(words) + 2
      PROVE  h[u] = FoundAt(words, h, u)
    <2>1. CASE u = Len(words) + 2
        BY <1>1, <1>5, <2>1 DEF FoundAt
    <2>2. CASE u # Len(words) + 2
        <3>. DEFINE n == N - u - 1
        <3>1. n \in Nat /\ n + 1 = N - u /\ N - (n + 1) = u /\ u + 1 \in 2..Len(words) + 2 /\ N - (u + 1) = n
            <4>. HIDE DEF h, S, V
            <4> QED BY <1>1, <2>2
        <3>2. h[u] = g[n + 1][1] /\ h[u + 1] = g[n][1]
            BY <3>1
        <3>3. h[u] = Via3(u, g[n][1], g[n][2])
            <4>. HIDE DEF n, h, Via3, N, S, V
            <4> QED BY <1>6, <3>1, <3>2
        <3>4. ASSUME u < Len(words) PROVE g[n][2] = h[u + 2]
            <4>1. n - 1 \in Nat /\ (n - 1) + 1 = n /\ N - (u + 2) = n - 1 /\ u + 2 \in 2..Len(words) + 2
                <5>. HIDE DEF h, S, V, G
                <5> QED BY <1>1, <3>1, <3>4
            <4>2. h[u + 2] = g[n - 1][1]
                BY <4>1
            <4>. HIDE DEF n, h, Via3, N, S, V
            <4> QED BY <1>6, <4>1, <4>2
        <3>. HIDE DEF n, h
        <3>5. u < Len(words) \/ u = Len(words) \/ u > Len(words)
            BY <1>1
        <3>6. u >= 2
            OBVIOUS
        <3>. HIDE DEF V, S, G
        <3> QED BY <3>2, <3>3, <3>4, <3>5, <3>6 DEF FoundAt
    <2> QED BY <2>1, <2>2
<1>8. ASSUME NEW f, NEW u \in 2..Len(words) + 2
      PROVE  Body(f)[u] = FoundAt(words, f, u)
    BY DEF FoundAt
<1>9. h = Body(h)
    <2>1. DOMAIN h = 2..Len(words) + 2 /\ DOMAIN Body(h) = 2..Len(words) + 2
        OBVIOUS
    <2>2. h = [u \in 2..Len(words) + 2 |-> h[u]] /\ Body(h) = [u \in 2..Len(words) + 2 |-> Body(h)[u]]
        OBVIOUS
    <2>3. \A u \in 2..Len(words) + 2 : h[u] = Body(h)[u]
        <3>. HIDE DEF h, Body
        <3> QED BY <1>7, <1>8
    <2>. HIDE DEF h, Body
    <2> QED BY <2>2, <2>3
<1>10. F = Body(F)
    <2>. HIDE DEF h, Body
    <2> QED BY <1>9
<1>11. AfterInterpreter(words) = F[2]
    BY DEF AfterInterpreter
<1>12. ASSUME NEW u \in 2..Len(words) + 2 PROVE F[u] = FoundAt(words, F, u)
    <2>. HIDE DEF F, Body
    <2> QED BY <1>8, <1>10
<1>. HIDE DEF F
<1> QED BY <1>11, <1>12

(* The word it finds is the one that php runs, whoever reads its switches. *)
LEMMA ProgramFound ==
    ASSUME NEW words, IsSeq(words), AfterInterpreter(words) # 0
    PROVE  /\ AfterInterpreter(words) \in 2..Len(words)
           /\ Operands(words, 2, PhpSilent, PhpValued) = {AfterInterpreter(words)}
<1>. DEFINE e == AfterInterpreter(words)
<1>1. Len(words) \in Nat
    BY AtIs
<1>2. PICK f : e = f[2] /\ \A u \in 2..Len(words) + 2 : f[u] = FoundAt(words, f, u)
    BY SearchIs
<1>. HIDE DEF e
<1>. DEFINE M == {m \in 2..Len(words) + 2 : f[m] = e}
<1>3. PhpValued \cup PhpSilent \subseteq Switches \ Attached /\ PhpValued \cap PhpSilent = {}
    BY ClassifierAssumption DEF PhpValued, PhpSilent
<1>4. ASSUME NEW m \in M
      PROVE  \/ m = e /\ At(words, m) \notin Switches /\ m \in 2..Len(words)
             \/ m + 1 \in M /\ Onward(words, m, PhpSilent, PhpValued) = {m + 1}
             \/ m + 2 \in M /\ Onward(words, m, PhpSilent, PhpValued) = {m + 2}
    <2>1. m \in 2..Len(words) + 2 /\ f[m] = e /\ e # 0 /\ f[m] = FoundAt(words, f, m)
        BY <1>2 DEF e
    <2>2. m <= Len(words)
        BY <1>1, <2>1 DEF FoundAt
    <2>3. CASE At(words, m) \in PhpValued
        <3>1. f[m + 2] = e /\ m + 2 \in 2..Len(words) + 2
            BY <1>1, <2>1, <2>2, <2>3 DEF FoundAt
        <3>2. Onward(words, m, PhpSilent, PhpValued) = {m + 2}
            BY <1>3, <2>3 DEF Onward
        <3> QED BY <3>1, <3>2
    <2>4. CASE At(words, m) \in PhpSilent
        <3>1. f[m + 1] = e /\ m + 1 \in 2..Len(words) + 2
            BY <1>1, <1>3, <2>1, <2>2, <2>4 DEF FoundAt
        <3>2. Onward(words, m, PhpSilent, PhpValued) = {m + 1}
            BY <1>3, <2>4 DEF Onward
        <3> QED BY <3>1, <3>2
    <2>5. CASE At(words, m) \notin PhpValued \cup PhpSilent
        BY <1>1, <2>1, <2>2, <2>5 DEF FoundAt
    <2> QED BY <2>3, <2>4, <2>5
<1>5. 2 \in M /\ M \in SUBSET Nat /\ \A m \in M : m <= Len(words) + 2
    BY <1>1, <1>2
<1>. HIDE DEF M
<1>6. e \in M /\ At(words, e) \notin Switches /\ e \in 2..Len(words)
    <2>. DEFINE top == Max(M)
    <2>1. top \in M /\ \A m \in M : m <= top
        <3>1. Len(words) + 2 \in Nat
            BY <1>1
        <3> QED BY <1>5, <3>1, Greatest
    <2>. HIDE DEF top
    <2>2. top + 1 \notin M /\ top + 2 \notin M
        BY <1>5, <2>1
    <2> QED BY <1>4, <2>1, <2>2
<1>7. e \in Operands(words, 2, PhpSilent, PhpValued)
    <2>1. M \in SUBSET (2..Len(words) + 2) /\ {2, e} \subseteq M
        BY <1>5, <1>6 DEF M
    <2>2. \A m \in M \ {e} : Onward(words, m, PhpSilent, PhpValued) \cap M # {}
        BY <1>4
    <2>3. e \in 2..Len(words) + 2
        BY <1>1, <1>6
    <2> QED BY <1>6, <2>1, <2>2, <2>3 DEF Operands
<1>8. ASSUME NEW j \in Operands(words, 2, PhpSilent, PhpValued) PROVE j = e
    <2>1. PICK S : /\ {2, j} \subseteq S /\ At(words, j) \notin Switches
                   /\ \A u \in S \ {j} : Onward(words, u, PhpSilent, PhpValued) \cap S # {}
        BY DEF Operands
    <2>. DEFINE T == M \cap S
    <2>2. T \in SUBSET Nat /\ T # {} /\ \A m \in T : m <= Len(words) + 2
        BY <1>5, <2>1
    <2>. DEFINE m == Max(T)
    <2>3. m \in T /\ \A x \in T : x <= m
        <3>. HIDE DEF T
        <3>1. Len(words) + 2 \in Nat
            BY <1>1
        <3> QED BY <2>2, <3>1, Greatest
    <2>. HIDE DEF m
    <2>4. m + 1 \notin T /\ m + 2 \notin T /\ m \in Nat
        BY <2>2, <2>3
    <2>5. m # j => Onward(words, m, PhpSilent, PhpValued) \cap S # {}
        BY <2>1, <2>3
    <2>6. At(words, m) \notin Switches => Onward(words, m, PhpSilent, PhpValued) = {}
        BY DEF Onward
    <2>7. At(words, m) \in Switches => m # j
        BY <2>1
    <2> QED BY <1>4, <2>3, <2>4, <2>5, <2>6, <2>7
<1> QED BY <1>6, <1>7, <1>8 DEF e

-----------------------------------------------------------------------------
(* The one program that a command of BuildReduction runs.                  *)
LEMMA RunsItself ==
    ASSUME NEW words, NEW p,
           At(words, p) \notin Php \cup Python \cup {"npx", "pnpm", "yarn", "bun", "sail"}
    PROVE  MayRun(words, p) = {p}
    BY DEF MayRun

LEMMA BuildPrograms ==
    ASSUME NEW words, IsSeq(words), Producer(words) # NoWord
    PROVE  \E p : Programs(words) = {p} /\ Prints(words, p, Producer(words))
<1>1. /\ Len(words) \in Nat /\ \A u : At(words, u) # NoWord => u \in 1..Len(words)
      /\ \A u \in 1..Len(words) : At(words, u) = words[u]
    BY AtIs DEF At
<1>2. {"test", "pytest", "playwright", "vitest", "exec", "x"} \cap Switches = {} /\ NoWord \notin Names
    BY ClassifierAssumption, NoName
<1>. DEFINE exe == At(words, 1)
            own == {"pytest", "cargo", "dotnet", "playwright", "go", "gradle", "gradlew", "vitest"}
<1>3. ASSUME NEW p \in 1..Len(words), At(words, p) \in own, MayRun(words, 1) = {p}
      PROVE  Programs(words) = {p}
    <2>1. MayRun(words, p) = {p}
        BY <1>3, RunsItself DEF Php, Python
    <2> QED BY <1>3, <2>1 DEF Programs
<1>4. CASE exe \in own
    <2>1. 1 \in 1..Len(words) /\ MayRun(words, 1) = {1}
        <3>1. exe # NoWord
            BY <1>2, <1>4 DEF Names
        <3> QED BY <1>1, <1>4, <3>1, RunsItself DEF Php, Python
    <2>2. Programs(words) = {1}
        BY <1>3, <1>4, <2>1
    <2>3. Prints(words, 1, Producer(words))
        <3>1. Producer(words) = CASE exe = "pytest" -> "pytest"
                                  [] exe = "cargo" /\ Toolchain(words) = "test" -> "rust-test"
                                  [] exe = "dotnet" /\ At(words, 2) = "test" -> "dotnet-test"
                                  [] exe = "playwright" /\ At(words, 2) = "test" -> "playwright"
                                  [] exe = "go" /\ At(words, 2) = "test" -> "go-test"
                                  [] exe \in {"gradle", "gradlew"} -> "gradle"
                                  [] exe = "vitest" -> "vitest"
                                  [] OTHER -> NoWord
            BY <1>4 DEF Producer, Python, Php, At
        <3>2. At(words, 2) = "test" => GetsOneOf(words, 1, {}, {"test"})
            BY <1>1, <1>2, <2>1, VerbNext
        <3>3. ASSUME exe = "cargo", Toolchain(words) = "test"
              PROVE  GetsOneOf(words, IF At(words, 2) = "+stable" THEN 2 ELSE 1, {}, {"test"})
            <4>1. CASE At(words, 2) = "+stable"
                <5>1. At(words, 2 + 1) = "test" /\ 2 \in 1..Len(words)
                    BY <1>1, <3>3, <4>1 DEF Toolchain
                <5>2. GetsOneOf(words, 2, {}, {"test"})
                    BY <1>1, <1>2, <5>1, VerbNext
                <5> QED BY <4>1, <5>2
            <4>2. CASE At(words, 2) # "+stable"
                BY <3>2, <3>3, <4>2 DEF Toolchain
            <4> QED BY <4>1, <4>2
        <3> QED BY <1>4, <3>1, <3>2, <3>3 DEF Prints
    <2> QED BY <2>2, <2>3
<1>5. CASE exe \in {"npx", "pnpm", "yarn", "bun"}
    <2>. DEFINE bare == \/ exe \in {"pnpm", "yarn"} /\ At(words, 2) = "exec"
                        \/ exe = "bun" /\ At(words, 2) = "x"
                b == IF bare THEN 3 ELSE 2
                run == Launched(words)
    <2>1. 1 \in 1..Len(words) /\ words[1] = exe
        <3>1. exe # NoWord
            BY <1>2, <1>5 DEF Names
        <3> QED BY <1>1, <3>1
    <2>2. run = SubSeq(words, b, Len(words))
        BY <2>1 DEF Launched
    <2>3. b \in {2, 3} /\ b - 1 \in 1..Len(words)
        <3>1. bare => At(words, 2) # NoWord
            BY <1>2 DEF Names
        <3> QED BY <1>1, <2>1, <3>1
    <2>4. ASSUME NEW u \in 1..2 PROVE At(run, u) = At(words, b + u - 1)
        <3>1. PICK W : words \in Seq(W)
            BY DEF IsSeq
        <3>2. /\ DOMAIN run = 1..Len(words) - b + 1
              /\ \A x \in 1..Len(words) - b + 1 : run[x] = words[b + x - 1]
            BY <1>1, <2>2, <2>3, <3>1
        <3>3. DOMAIN words = 1..Len(words)
            BY AtIs
        <3>. HIDE DEF b, run
        <3>4. u \in DOMAIN run <=> b + u - 1 \in DOMAIN words
            BY <1>1, <2>3, <3>2, <3>3
        <3>5. u \in DOMAIN run => run[u] = words[b + u - 1]
            BY <3>2
        <3> QED BY <3>4, <3>5 DEF At
    <2>5. /\ At(run, 1) \in {"playwright", "vitest"} /\ Producer(words) = At(run, 1)
          /\ At(run, 1) = "playwright" => At(run, 2) = "test"
        <3>1. Producer(words) = CASE At(run, 1) = "playwright" /\ At(run, 2) = "test" -> "playwright"
                                  [] At(run, 1) = "vitest" -> "vitest"
                                  [] OTHER -> NoWord
            <4>. HIDE DEF run
            <4>1. run = Launched(words)
                BY DEF run
            <4> QED BY <1>5, <4>1 DEF Producer, Python
        <3>. HIDE DEF run
        <3> QED BY <3>1
    <2>6. At(words, b) = At(run, 1) /\ At(words, b + 1) = At(run, 2)
        <3>1. b + 1 - 1 = b /\ b + 2 - 1 = b + 1
            BY <2>3
        <3>. HIDE DEF b, run
        <3> QED BY <2>4, <3>1
    <2>7. b \in 1..Len(words) /\ At(words, b) \in own /\ At(words, b) \notin Switches \cup {"exec", "x"}
        BY <1>1, <1>2, <2>5, <2>6
    <2>8. MayRun(words, 1) = {b}
        <3>1. At(words, 2) \notin Switches
            BY <1>2, <2>7
        <3>2. Operands(words, 1 + 1, {}, {}) = {2}
            BY <1>1, <2>1, <3>1, LoneOperand
        <3>3. Operands(words, 2 + 1, {}, {}) = {3} \/ ~bare
            BY <1>1, <2>1, <2>7, LoneOperand
        <3> QED BY <1>5, <2>7, <3>2, <3>3 DEF MayRun, Php, Python
    <2>9. Programs(words) = {b}
        BY <1>3, <2>7, <2>8
    <2>10. Prints(words, b, Producer(words))
        <3>1. At(words, b) = "playwright" => GetsOneOf(words, b, {}, {"test"})
            <4>. HIDE DEF b, run
            <4> QED BY <1>1, <1>2, <2>5, <2>6, <2>7, VerbNext
        <3>. HIDE DEF b, run
        <3> QED BY <2>5, <2>6, <3>1 DEF Prints
    <2> QED BY <2>9, <2>10
<1>6. CASE exe \in Python
    <2>1. At(words, 2) = "-m" /\ At(words, 3) = "pytest" /\ Producer(words) = "pytest"
        <3>1. Producer(words) = CASE At(words, 2) = "-m" /\ At(words, 3) = "pytest" -> "pytest" [] OTHER -> NoWord
            BY <1>6 DEF Producer, Python, At
        <3> QED BY <3>1
    <2>2. 3 \in 1..Len(words) /\ "-m" \in Switches /\ "-m" \notin Attached
        BY <1>1, <2>1, ClassifierAssumption
    <2>3. \A j \in Operands(words, 2, {"-m"}, {}) : j = 3
        <3>1. \A u \in 2..3 - 1 : At(words, u) \in Switches \cap ({"-m"} \cup Attached)
            BY <2>1, <2>2
        <3>2. At(words, 3) \notin Switches
            BY <1>2, <2>1
        <3> QED BY <3>1, <3>2, BehindSwitches
    <2>4. 3 \in Operands(words, 2, {"-m"}, {})
        <3>1. Onward(words, 2, {"-m"}, {}) = {3}
            BY <2>1, <2>2 DEF Onward
        <3>2. {2, 3} \in SUBSET (2..Len(words) + 2) /\ 3 \in 2..Len(words) + 2
            BY <1>1, <2>2
        <3>3. \A u \in {2, 3} \ {3} : Onward(words, u, {"-m"}, {}) \cap {2, 3} # {}
            BY <3>1
        <3> QED BY <1>2, <2>1, <3>2, <3>3 DEF Operands
    <2>5. MayRun(words, 1) = {3}
        <3>1. MayRun(words, 1) = Operands(words, 1 + 1, {"-m"}, {})
            BY <1>6 DEF MayRun, Php, Python
        <3> QED BY <2>3, <2>4, <3>1
    <2>6. Programs(words) = {3}
        BY <1>3, <2>1, <2>2, <2>5
    <2> QED BY <2>1, <2>6 DEF Prints
<1>7. CASE exe \notin own \cup {"npx", "pnpm", "yarn", "bun"} \cup Python
    BY <1>7 DEF Producer, At
<1> QED BY <1>4, <1>5, <1>6, <1>7

(* And that of a command of PHPReduction.                                  *)
LEMMA PhpPrograms ==
    ASSUME NEW words, IsSeq(words), PhpProducer(words) # NoWord
    PROVE  \E p : Programs(words) = {p} /\ Prints(words, p, PhpProducer(words))
<1>. DEFINE e     == Entry(words)
            entry == At(words, e)
            next  == At(words, e + 1)
            verb  == At(words, AfterSwitches(words, e + 1, Quiet))
            tools == {"phpunit", "phpunit.phar", "phpunit.bat", "pest", "pest.bat"}
            composers == {"composer", "composer.phar", "composer.bat"}
<1>1. /\ Len(words) \in Nat /\ \A u : At(words, u) # NoWord => u \in 1..Len(words)
    BY AtIs
<1>2. {"test", "artisan", "pest", "phpunit", "install", "update"} \cap Switches = {} /\ NoWord \notin Names
    BY ClassifierAssumption, NoName
<1>3. /\ e # 0
      /\ \/ entry \in tools /\ PhpProducer(words) = "php-test"
         \/ entry = "sail" /\ next \in {"test", "pest", "phpunit"} /\ PhpProducer(words) = "php-test"
         \/ entry = "sail" /\ next = "artisan" /\ ArtisanTests(words, e + 2) /\ PhpProducer(words) = "php-test"
         \/ entry = "artisan" /\ ArtisanTests(words, e + 1) /\ PhpProducer(words) = "php-test"
         \/ entry \in composers /\ verb \in {"install", "update"} /\ PhpProducer(words) = "composer"
    <2>. HIDE DEF e
    <2>1. e = Entry(words)
        BY DEF e
    <2>2. PhpProducer(words) =
            LET en == IF e = 0 THEN NoWord ELSE At(words, e)
            IN  CASE en \in tools -> "php-test"
                  [] en = "sail" /\ next \in {"test", "pest", "phpunit"} -> "php-test"
                  [] en = "sail" /\ next = "artisan" /\ ArtisanTests(words, e + 2) -> "php-test"
                  [] en = "artisan" /\ ArtisanTests(words, e + 1) -> "php-test"
                  [] en \in composers /\ verb \in {"install", "update"} -> "composer"
                  [] OTHER -> NoWord
        BY <2>1 DEF PhpProducer
    <2> QED BY <1>2, <2>2 DEF Names
<1>4. e \in 1..Len(words) /\ entry \in tools \cup composers \cup {"sail", "artisan"}
    <2>1. entry # NoWord
        BY <1>2, <1>3 DEF Names
    <2> QED BY <1>1, <1>3, <2>1
<1>5. e = 1 \/ MayRun(words, 1) = {e}
    <2>1. CASE At(words, 1) \in Php
        <3>1. e = AfterInterpreter(words)
            BY <2>1 DEF Entry
        <3>2. MayRun(words, 1) = Operands(words, 1 + 1, PhpSilent, PhpValued)
            BY <2>1 DEF MayRun, Php, Python
        <3> QED BY <1>3, <3>1, <3>2, ProgramFound
    <2>2. CASE At(words, 1) \notin Php
        BY <2>2 DEF Entry
    <2> QED BY <2>1, <2>2
<1>. HIDE DEF e
<1>6. ASSUME NEW p \in {e, e + 1}, MayRun(words, e) = {p}, MayRun(words, p) = {p}
      PROVE  Programs(words) = {p}
    BY <1>5, <1>6 DEF Programs
<1>7. ASSUME NEW p, At(words, p) \in tools \cup composers \cup {"artisan"}
      PROVE  MayRun(words, p) = {p}
    BY <1>7, RunsItself DEF Php, Python
<1>8. CASE entry \in tools
    <2>1. Programs(words) = {e}
        BY <1>6, <1>7, <1>8
    <2> QED BY <1>3, <1>8, <2>1 DEF Prints
<1>9. CASE entry = "sail"
    <2>1. next \notin Switches /\ next \in {"test", "pest", "phpunit", "artisan"}
        BY <1>2, <1>3, <1>9
    <2>2. e + 1 \in Nat /\ e + 1 <= Len(words) + 2
        BY <1>1, <1>4
    <2>3. Operands(words, e + 1, {}, {}) = {e + 1}
        BY <2>1, <2>2, LoneOperand
    <2>4. MayRun(words, e) = {IF next = "artisan" THEN e + 1 ELSE e}
        BY <1>9, <2>3 DEF MayRun, Php, Python
    <2>5. CASE next = "artisan"
        <3>1. Programs(words) = {e + 1}
            BY <1>6, <1>7, <2>4, <2>5
        <3>2. ArtisanTests(words, e + 2) /\ PhpProducer(words) = "php-test"
            BY <1>3, <1>9, <2>5
        <3>3. e + 1 \in 1..Len(words) /\ (e + 1) + 1 = e + 2
            <4>1. next # NoWord
                BY <1>2, <2>5 DEF Names
            <4> QED BY <1>1, <1>4, <4>1
        <3>4. GetsOneOf(words, e + 1, Quiet, {"test"})
            BY <1>1, <3>2, <3>3, VerbFound DEF ArtisanTests
        <3> QED BY <2>5, <3>1, <3>2, <3>4 DEF Prints
    <2>6. CASE next # "artisan"
        <3>1. Programs(words) = {e}
            BY <1>6, <2>4, <2>6
        <3>2. next \in {"test", "pest", "phpunit"} /\ PhpProducer(words) = "php-test"
            BY <1>3, <1>9, <2>6
        <3>3. GetsOneOf(words, e, {}, {"test", "pest", "phpunit"})
            BY <1>1, <1>2, <1>4, <3>2, VerbNext
        <3> QED BY <1>9, <3>1, <3>2, <3>3 DEF Prints
    <2> QED BY <2>5, <2>6
<1>10. CASE entry = "artisan"
    <2>1. Programs(words) = {e}
        BY <1>6, <1>7, <1>10
    <2>2. ArtisanTests(words, e + 1) /\ PhpProducer(words) = "php-test"
        BY <1>3, <1>10
    <2>. DEFINE allowed == (Switches \cap Attached) \cup Quiet
    <2>3. At(words, AfterSwitches(words, e + 1, allowed)) \in {"test"}
        BY <2>2 DEF ArtisanTests
    <2>4. GetsOneOf(words, e, Quiet, {"test"})
        <3>1. allowed \subseteq (Switches \cap Attached) \cup Quiet
            OBVIOUS
        <3>2. {"test"} \subseteq {"test", "install", "update"} /\ e \in Nat /\ e <= Len(words)
            BY <1>1, <1>4
        <3>. HIDE DEF allowed
        <3> QED BY <2>3, <3>1, <3>2, VerbFound
    <2> QED BY <1>10, <2>1, <2>2, <2>4 DEF Prints
<1>11. CASE entry \in composers
    <2>1. Programs(words) = {e}
        BY <1>6, <1>7, <1>11
    <2>2. verb \in {"install", "update"} /\ PhpProducer(words) = "composer"
        BY <1>3, <1>11
    <2>3. GetsOneOf(words, e, Quiet, {"install", "update"})
        BY <1>1, <1>4, <2>2, VerbFound
    <2> QED BY <1>11, <2>1, <2>2, <2>3 DEF Prints
<1> QED BY <1>4, <1>8, <1>9, <1>10, <1>11

-----------------------------------------------------------------------------
(* Whatever the text, the command and the rules, success records are left  *)
(* out only of the output of one program, in smart mode, and whatever the  *)
(* switches before it mean, that program prints these records (build.go:11 *)
(* and php.go:63): every way to read the words that Operands allows ends   *)
(* at the word that BuildReduction or PHPReduction has found.              *)
THEOREM OneProducer == ReducerSpec => []OmissionHasOneProducer
<1>1. ReducerInit => Marked
    BY InitMarked
<1>2. Marked => OmissionHasOneProducer
    <2>. DEFINE words == input.command.words
    <2> SUFFICES ASSUME Marked, NEW k \in DOMAIN out, out[k].mark = "omitted",
                        Kind \notin {"maven", "node-test"}
                 PROVE  /\ input.command.simple /\ IsSmart
                        /\ \E p : Programs(words) = {p} /\ Prints(words, p, SuccessReducer)
        BY DEF OmissionHasOneProducer
    <2>1. SuccessReducer \notin {"none", "logs"}
        BY DEF Marked, Marks
    <2>2. SuccessReducer = SuccessReducerOf(Kind) /\ IsSeq(words)
        <3>1. FromCommand
            BY DEF Marked, Derived
        <3>2. context # NoContext
            <4>1. NoContext.reducer = "none"
                BY DEF NoContext
            <4> QED BY <2>1, <4>1 DEF SuccessReducer
        <3> QED BY <3>1, <3>2 DEF FromCommand
    <2>3. /\ IsSmart
          /\ \/ Kind \in BuildKinds /\ SuccessReducer = Kind /\ BuildReduction(input.command) = Kind
             \/ SuccessReducer = PHPReduction(input.command) /\ PHPReduction(input.command) # NoWord
        BY <2>1, <2>2 DEF SuccessReducerOf
    <2>4. CASE Kind \in BuildKinds /\ SuccessReducer = Kind /\ BuildReduction(input.command) = Kind
        <3>1. Kind # NoWord
            BY <2>4, Zenon DEF BuildKinds, NoWord
        <3>2. input.command.simple /\ Producer(words) = SuccessReducer /\ Producer(words) # NoWord
            BY <2>4, <3>1 DEF BuildReduction
        <3>3. \E p : Programs(words) = {p} /\ Prints(words, p, Producer(words))
            BY <2>2, <3>2, BuildPrograms
        <3> QED BY <2>3, <3>2, <3>3
    <2>5. CASE SuccessReducer = PHPReduction(input.command) /\ PHPReduction(input.command) # NoWord
        <3>1. input.command.simple /\ PhpProducer(words) = SuccessReducer /\ PhpProducer(words) # NoWord
            BY <2>5 DEF PHPReduction
        <3>2. \E p : Programs(words) = {p} /\ Prints(words, p, PhpProducer(words))
            BY <2>2, <3>1, PhpPrograms
        <3> QED BY <2>3, <3>1, <3>2
    <2> QED BY <2>3, <2>4, <2>5
<1> QED BY <1>1, <1>2, MarkedInductive, PTL DEF ReducerSpec

-----------------------------------------------------------------------------
(* What the loop of reduceBuild and reduceSuccess knows at each line.      *)
RecordBefore(k) ==
    LET at == pos - k * RecordLines
    IN  /\ SuccessReducer = "go-test" =>
             /\ Attributes(at).run # "" /\ Attributes(at + 1).pass = Attributes(at).run
             /\ ~Attributes(at + 1).diagnostic
        /\ SuccessReducer # "go-test" => SuccessReducer \in Attributes(at).success
        /\ \A x \in 1..at : ~Begins(x)

OnlyRecords ==
    pass = "success" =>
        /\ count \in Nat
        /\ ~diagnostic => \A x \in 1..pos - 1 : ~Begins(x)
        /\ count > 0 => ~diagnostic
        /\ \A k \in 1..count : RecordBefore(k)

(* As long as the lines stay, so does what is said of them.                *)
LEMMA SameLines ==
    ASSUME UNCHANGED <<input, context, lines>>
    PROVE  /\ RecordLines' = RecordLines /\ SuccessReducer' = SuccessReducer
           /\ \A x : Attributes(x)' = Attributes(x) /\ Begins(x)' = Begins(x)
    BY DEF RecordLines, SuccessReducer, Attributes, Begins, PlaywrightRow, Kind

(* What RecordAt has seen when it finds a record.                          *)
LEMMA RecordIs ==
    ASSUME NEW k, RecordAt(k) > 0
    PROVE  /\ RecordAt(k) = RecordLines
           /\ SuccessReducer = "go-test" =>
                /\ Attributes(k).run # "" /\ Attributes(k + 1).pass = Attributes(k).run
                /\ ~Attributes(k + 1).diagnostic
           /\ SuccessReducer # "go-test" => SuccessReducer \in Attributes(k).success
<1>1. RecordAt(k) # 0
    OBVIOUS
<1> QED BY <1>1, Zenon DEF RecordAt, RecordLines

(* A line that ends a pair is no diagnostic, so no later line of a record  *)
(* begins one either.                                                      *)
LEMMA OmitOnlyRecords ==
    ASSUME Marked, OnlyRecords, Omit
    PROVE  OnlyRecords'
<1>1. /\ count' = count + 1 /\ pos' = pos + RecordAt(pos) /\ RecordAt(pos) > 0
      /\ ~diagnostic /\ ~diagnostic' /\ ~Begins(pos) /\ pass = "success"
      /\ UNCHANGED <<input, context, lines>>
    BY DEF Omit
<1>2. count \in Nat /\ pos \in Nat \ {0}
    BY <1>1 DEF OnlyRecords, Marked
<1>3. RecordLines \in {1, 2} /\ pos' = pos + RecordLines
    BY <1>1, RecordIs DEF RecordLines
<1>4. \A x \in 1..pos : ~Begins(x)
    BY <1>1, <1>2 DEF OnlyRecords
<1>5. RecordLines = 2 => ~Begins(pos + 1)
    <2>1. RecordLines = 2 => SuccessReducer = "go-test"
        BY DEF RecordLines
    <2>2. SuccessReducer = "go-test" => ~Attributes(pos + 1).diagnostic
        BY <1>1, RecordIs
    <2> QED BY <2>1, <2>2 DEF Begins, BuildKinds
<1>6. \A x \in 1..pos' - 1 : ~Begins(x)
    BY <1>2, <1>3, <1>4, <1>5
<1>7. ASSUME NEW k \in 1..count + 1
      PROVE  RecordBefore(k)'
    <2>1. CASE k = 1
        <3>1. pos' - k * RecordLines = pos
            BY <1>2, <1>3, <2>1
        <3> QED BY <1>1, <1>4, <3>1, SameLines, RecordIs DEF RecordBefore
    <2>2. CASE k # 1
        <3>1. k - 1 \in 1..count
            BY <1>2, <2>2
        <3>2. RecordBefore(k - 1)
            BY <1>1, <3>1 DEF OnlyRecords
        <3>3. pos' - k * RecordLines = pos - (k - 1) * RecordLines
            BY <1>2, <1>3
        <3> QED BY <1>1, <3>2, <3>3, SameLines DEF RecordBefore
    <2> QED BY <2>1, <2>2
<1> QED BY <1>1, <1>2, <1>6, <1>7, SameLines DEF OnlyRecords

(* A line that is kept ends the count.                                     *)
LEMMA KeepOnlyRecords ==
    ASSUME Marked, OnlyRecords, Keep
    PROVE  OnlyRecords'
<1>1. /\ count' = 0 /\ pos' = pos + 1 /\ diagnostic' = (diagnostic \/ Begins(pos))
      /\ pass = "success" /\ UNCHANGED <<input, context, lines>>
    BY DEF Keep
<1>2. pos \in Nat \ {0}
    BY DEF Marked
<1>3. ~diagnostic' => \A x \in 1..pos : ~Begins(x)
    <2>1. ~diagnostic' => ~diagnostic /\ ~Begins(pos)
        BY <1>1, Zenon
    <2>2. ~diagnostic => \A x \in 1..pos - 1 : ~Begins(x)
        BY <1>1 DEF OnlyRecords
    <2>3. \A x \in 1..pos : x \in 1..pos - 1 \/ x = pos
        BY <1>2
    <2> QED BY <2>1, <2>2, <2>3, Zenon
<1> QED BY <1>1, <1>2, <1>3, SameLines DEF OnlyRecords

(* OnlyRecords is inductive together with Marked.                          *)
LEMMA OnlyRecordsInductive == Marked /\ OnlyRecords /\ [ReducerNext]_reducerVars => OnlyRecords'
<1> SUFFICES ASSUME Marked, OnlyRecords, [ReducerNext]_reducerVars PROVE OnlyRecords'
    OBVIOUS
<1>1. CASE Omit
    BY <1>1, OmitOnlyRecords
<1>2. CASE Keep
    BY <1>2, KeepOnlyRecords
<1>3. CASE \E p \in {"sanitize", "success", "logs", "rules", "repeats"} : \E text : Enter(After(p), text)
    BY <1>3 DEF Enter, OnlyRecords
<1>4. CASE pass' # "success"
    BY <1>4 DEF OnlyRecords
<1>5. CASE UNCHANGED reducerVars
    BY <1>5, SameLines DEF OnlyRecords, RecordBefore, reducerVars
<1>6. Sanitized \/ Reduced \/ LogsGrouped \/ Aggregated \/ Repeated =>
        \E p \in {"sanitize", "success", "logs", "rules", "repeats"} : \E text : Enter(After(p), text)
    BY DEF Sanitized, Reduced, LogsGrouped, Aggregated, Repeated
<1>7. Compile \/ SanitizeLine \/ GroupLogs \/ PassBy \/ Aggregate \/ Repeat
        \/ Return \/ GuardLine \/ Refuse \/ Accept => pass' # "success"
    BY DEF Compile, SanitizeLine, GroupLogs, PassBy, Aggregate, Repeat, Return, GuardLine,
           Refuse, Accept, Judge
<1> QED BY <1>1, <1>2, <1>3, <1>4, <1>5, <1>6, <1>7 DEF ReducerNext

(* Whatever the text, what is left out is nothing but whole success        *)
(* records, and none of them behind or across a diagnostic (reduceBuild,   *)
(* reduceSuccess).                                                         *)
THEOREM OnlyRecordsAreOmitted == ReducerSpec => []OnlySuccessOmitted
<1>1. ReducerInit => Marked /\ OnlyRecords
    BY InitMarked DEF ReducerInit, OnlyRecords
<1>2. OnlyRecords => OnlySuccessOmitted
    BY DEF OnlyRecords, OnlySuccessOmitted, RecordBefore
<1> QED BY <1>1, <1>2, MarkedInductive, OnlyRecordsInductive, PTL DEF ReducerSpec

-----------------------------------------------------------------------------
(* The loop that sizes the marker.                                         *)
LEMMA DigitsBounds ==
    \A n \in Nat : Digits(n) \in 1..10
  BY DEF Digits

LEMMA DigitsMonotone ==
    \A m, n \in Nat : m <= n => Digits(m) <= Digits(n)
  BY DEF Digits

(* Adding at most ten to a number of three digits adds at most one digit.  *)
LEMMA DigitsSlow ==
    \A n \in Nat, k \in 0..10 : n >= 100 => Digits(n + k) <= Digits(n) + 1
  BY DEF Digits

THEOREM MarkerInvariant == Spec => []MarkerInv
<1>1. Init => MarkerInv
<2>. SUFFICES ASSUME Init PROVE MarkerInv
  OBVIOUS
<2>1. i = 0 /\ i \in 0..3 /\ done = FALSE
  BY DEF Init
<2>2. done \in BOOLEAN
  BY <2>1, Zenon
<2>. QED  BY <2>1, <2>2 DEF Init, MarkerInv
<1>2. MarkerInv /\ [Next]_vars => MarkerInv'
  <2>. SUFFICES ASSUME MarkerInv, [Next]_vars PROVE MarkerInv'
    OBVIOUS
  <2>1. body \in Nat /\ fixed \in Nat /\ Base >= 100 /\ Base \in Nat
    <3>1. body \in Bodies /\ fixed \in Fixed
      BY DEF MarkerInv
    <3>2. body \in Nat /\ fixed \in Nat /\ fixed >= 100
      BY <3>1, MarkerAssumption, SMT
    <3>. QED  BY <3>2 DEF Base
  <2>2. finalSize \in Nat
    BY <2>1 DEF MarkerInv
  <2>3. Digits(finalSize) \in 1..10 /\ Digits(Base) \in 1..10
    BY <2>1, <2>2, DigitsBounds
  <2>4. CASE Format
    <3>1. CASE Length(finalSize) = finalSize
      <4>1. /\ done' = TRUE /\ stated' = finalSize
            /\ UNCHANGED <<i, finalSize, body, fixed>>
        <5>1. i' = i /\ stated' = finalSize /\ finalSize' = finalSize
              /\ UNCHANGED <<body, fixed>>
          BY <2>4, <3>1 DEF Format
        <5>2. done' = TRUE
          BY <2>4, <3>1, Zenon DEF Format
        <5>. QED  BY <5>1, <5>2
      <4>2. i # 0
        BY <2>1, <2>3, <3>1 DEF MarkerInv, Length
      <4>. QED  BY <3>1, <4>1, <4>2 DEF MarkerInv, Length, Base
    <3>2. CASE Length(finalSize) # finalSize
      <4>0. i # 3
        BY <3>2 DEF MarkerInv
      <4>1. /\ i' = i + 1 /\ finalSize' = Base + Digits(finalSize)
            /\ ~done /\ UNCHANGED <<done, body, fixed>>
        <5>1. i' = i + 1 /\ finalSize' = Base + Digits(finalSize) /\ ~done
              /\ UNCHANGED <<body, fixed>>
          BY <2>1, <2>4, <3>2 DEF Format, Length, Base
        <5>2. i + 1 # 5
          BY <4>0 DEF MarkerInv
        <5>3. done' = FALSE /\ done = FALSE
          BY <2>4, <3>2, <5>1, <5>2, Zenon DEF Format, MarkerInv, Rounds
        <5>. QED  BY <5>1, <5>3
      <4>2. CASE i = 0
        <5>1. Digits(finalSize) <= Digits(Base)
          BY <2>1, <2>2, <4>2, DigitsMonotone DEF MarkerInv, Base
        <5>. QED  BY <2>1, <2>3, <4>1, <4>2, <5>1 DEF MarkerInv, Base, Length
      <4>3. CASE i = 1
        <5>1. finalSize <= Base + Digits(Base) /\ finalSize >= Base
          BY <2>1, <4>3 DEF MarkerInv
        <5>2. Digits(Base) <= Digits(finalSize) /\ Digits(finalSize) <= Digits(Base) + 1
          <6>1. finalSize - Base \in 0..10 /\ finalSize = Base + (finalSize - Base)
            BY <2>1, <2>2, <2>3, <5>1
          <6>2. Digits(Base + (finalSize - Base)) <= Digits(Base) + 1
            BY <2>1, <6>1, DigitsSlow
          <6>3. Digits(finalSize) <= Digits(Base) + 1
            BY <6>1, <6>2
          <6>. QED  BY <2>1, <2>2, <5>1, <6>3, DigitsMonotone
        <5>3. finalSize' \in Nat /\ finalSize <= finalSize'
          BY <2>1, <2>2, <2>3, <4>1, <5>1, <5>2
        <5>4. Digits(finalSize) <= Digits(finalSize')
          BY <2>2, <5>3, DigitsMonotone
        <5>5. i' = 2 /\ finalSize' - Base \in {Digits(Base), Digits(Base) + 1}
          BY <2>1, <2>3, <4>1, <4>3, <5>2
        <5>6. finalSize' \in Base + 1 .. Base + 10
          BY <2>1, <2>3, <4>1
        <5>7. finalSize' <= Base + Digits(finalSize')
          BY <2>1, <2>2, <2>3, <4>1, <5>3, <5>4, DigitsBounds
        <5>. QED  BY <2>1, <4>1, <5>5, <5>6, <5>7 DEF MarkerInv, Base, Length
      <4>4. CASE i = 2
        <5>1. /\ finalSize = Base + (finalSize - Base)
              /\ finalSize - Base \in {Digits(Base), Digits(Base) + 1}
              /\ finalSize <= Base + Digits(finalSize)
          BY <2>1, <2>2, <4>4 DEF MarkerInv, Length, Base
        <5>2. /\ finalSize - Base = Digits(Base)
              /\ Digits(finalSize) = Digits(Base) + 1
          BY <2>1, <2>2, <2>3, <3>2, <4>4, <5>1, DigitsSlow DEF MarkerInv, Length, Base
        <5>3. finalSize' = Base + (Digits(Base) + 1) /\ finalSize' \in Nat /\ finalSize <= finalSize'
          BY <2>1, <2>2, <2>3, <4>1, <5>2
        <5>4. Digits(finalSize') = Digits(Base) + 1
          <6>1. Digits(finalSize) <= Digits(finalSize')
            BY <2>2, <5>3, DigitsMonotone
          <6>2. Digits(Base) + 1 \in 0..10
            BY <2>3, <5>2
          <6>3. Digits(Base + (Digits(Base) + 1)) <= Digits(Base) + 1
            BY <2>1, <6>2, DigitsSlow
          <6>4. Digits(finalSize') <= Digits(Base) + 1
            BY <5>3, <6>3
          <6>5. Digits(finalSize') \in 1..10
            BY <5>3, DigitsBounds
          <6>. QED  BY <2>3, <5>2, <6>1, <6>4, <6>5
        <5>. QED  BY <2>1, <2>3, <4>1, <4>4, <5>3, <5>4 DEF MarkerInv, Base, Length
      <4>. QED  BY <4>2, <4>3, <4>4, <4>0 DEF MarkerInv
    <3>. QED  BY <3>1, <3>2
  <2>5. CASE UNCHANGED vars
    BY <2>5 DEF vars, MarkerInv, Base, Length
  <2>. QED  BY <2>4, <2>5 DEF Next
<1>. QED  BY <1>1, <1>2, PTL DEF Spec

(* The size a marker states is the size of the output that contains it.    *)
THEOREM MarkersAreTrue == Spec => []MarkerIsTrue
<1>1. MarkerInv => MarkerIsTrue
  BY DEF MarkerInv, MarkerIsTrue, Length
<1>. QED  BY MarkerInvariant, <1>1, PTL

-----------------------------------------------------------------------------
(* The books of Compress.                                                  *)

(* The lines that the guard looks for, and those that begin a diagnostic.  *)
Guarded(t) == Line[t].critical /\ ~PlaywrightRow(t)
Alarm(t)   == Guarded(t) /\ ~(Kind = "dotnet-test" /\ Line[t].header)
Calm(n)    == \A k \in 1..n : ~Alarm(clean[k])

(* How many lines of the text the first p lines of s stand for.            *)
Weight     == [l \in OutputLine |-> StandsFor(l)]
UpTo(s, p) == Tally(Weight, s, p)

(* What line l may stand for behind the first b lines of the text: one     *)
(* that is not marked, for copies of itself; any other, for lines that the *)
(* guard does not look for and that no diagnostic has begun before.        *)
Speaks(l, b) ==
    /\ l.mark = "line" =>
         l.n = 1 /\ \A k \in b + 1..b + StandsFor(l) : clean[k] = l.text
    /\ l.mark # "line" =>
         /\ \A k \in b + 1..b + StandsFor(l) : ~Guarded(clean[k])
         /\ SuccessReducer # "logs" => Calm(b + StandsFor(l))
    /\ l.mark = "group" => SuccessReducer = "logs"
    /\ l.mark = "rule" =>
         /\ l.n - 1 <= l.behind
         /\ SuccessReducer # "logs" => l.n - 1 = l.behind

Faithful(s) == s \in Seq(OutputLine) /\ \A p \in DOMAIN s : Speaks(s[p], UpTo(s, p - 1))

(* Only lines of the text can be repeated: two markers next to each other  *)
(* differ.                                                                 *)
NoTwins(s) == \A p \in DOMAIN s : p + 1 \in DOMAIN s /\ s[p] = s[p + 1] => IsText(s[p])
Singles(s) == \A p \in DOMAIN s : s[p].times = 1
NoRules(s) == \A p \in DOMAIN s : s[p].mark # "rule"
Verbatim(s) == Len(s) = Len(clean) /\ \A p \in DOMAIN s : s[p] = Kept(clean[p])

(* What a pass hands to the one that follows.                              *)
Handed(s) == Faithful(s) /\ UpTo(s, Len(s)) = Len(clean)

Reading == {"success", "logs", "rules", "repeats"}

InSanitize ==
    /\ lines = <<>> /\ out = <<>> /\ ~diagnostic
    /\ pos \in 1..Len(input.original) + 1 /\ count \in 0..pos - 1
    /\ clean \in Seq(DOMAIN Line) /\ Len(clean) <= pos - 1
    /\ pos <= 3 => Len(clean) = pos - 1
    /\ pos > 3 => Len(clean) >= 2

InReading ==
    /\ Handed(lines) /\ NoTwins(lines) /\ Singles(lines)
    /\ Faithful(out) /\ count \in Nat /\ pos \in 1..Len(lines) + 1
    /\ UpTo(out, Len(out)) + count * RecordLines = UpTo(lines, pos - 1)
    /\ pass # "success" => count = 0
    /\ pass # "repeats" => NoTwins(out) /\ Singles(out)

InSuccess ==
    /\ Verbatim(lines) /\ SuccessReducer \notin {"none", "logs"} /\ NoRules(out)
    /\ out # <<>> => IsText(out[Len(out)])
    /\ ~diagnostic => Calm(pos - 1)
    /\ count > 0 => ~diagnostic
    /\ \A k \in pos - count * RecordLines..pos - 1 : ~Guarded(clean[k])

InLogs ==
    /\ Verbatim(lines) /\ SuccessReducer = "logs"
    /\ \A p \in DOMAIN out : IsText(out[p])

InRules ==
    /\ NoRules(lines)
    /\ ~diagnostic /\ SuccessReducer # "logs" => Calm(UpTo(lines, pos - 1))
    /\ out # <<>> => out[Len(out)].mark = "rule" \/ (pos > 1 /\ out[Len(out)] = lines[pos - 1])

(* What Compress returns: the books, or the text as it was.                *)
GivenBack ==
    /\ clean = <<Blank>> /\ Len(input.original) = 1
    /\ out = <<Kept(input.original[1])>>

InGuard ==
    /\ GivenBack \/ Handed(out)
    /\ pass \in {"guard", "accepted"} => ~Emptied
    /\ cursor \in 0..Len(out) /\ pos \in 1..Len(clean) + 1
    /\ Handed(out) /\ cursor > 0 => UpTo(out, cursor - 1) < pos - 1

Ledger ==
    /\ input.original \in Seq(DOMAIN Line) /\ input.specs \in Seq(ToSet(input.specs))
    /\ \A k \in DOMAIN input.specs : input.specs[k].name \in DOMAIN Match
    /\ ActiveRules \in Seq(ToSet(input.specs))
    /\ pass \in Passes \cup {"compile", "sanitize", "invalid", "accepted"}
    /\ pass \in {"compile", "invalid"} => clean = <<>> /\ lines = <<>> /\ out = <<>>
    /\ pass \in {"compile", "sanitize", "invalid"} => InSanitize
    /\ pass \in Passes \cup {"accepted"} =>
         /\ clean \in Seq(DOMAIN Line)
         /\ Len(clean) = 1 => Len(input.original) = 1
    /\ pass \in Reading => InReading
    /\ pass = "success" => InSuccess
    /\ pass = "logs" => InLogs
    /\ pass = "rules" => InRules
    /\ pass = "result" => Handed(lines) /\ out = <<>>
    /\ pass \in {"guard", "accepted"} => InGuard

-----------------------------------------------------------------------------
(* What a line stands for.                                                 *)
LEMMA Products == \A m, n \in Nat \ {0} : m * n \in Nat \ {0}
<1> SUFFICES ASSUME NEW m \in Nat \ {0}, NEW n \in Nat \ {0} PROVE m * n \in Nat \ {0}
    OBVIOUS
<1>. DEFINE I == {k \in Nat : m * (k + 1) \in Nat \ {0}}
<1>1. 0 \in I
    OBVIOUS
<1>2. ASSUME NEW k \in I PROVE k + 1 \in I
    <2>1. m * ((k + 1) + 1) = m * (k + 1) + m
        OBVIOUS
    <2> QED BY <2>1
<1>3. I = Nat
    <2>. HIDE DEF I
    <2>1. I \in SUBSET Nat
        BY DEF I
    <2> QED BY <1>1, <1>2, <2>1, Upwards
<1>4. n - 1 \in I /\ (n - 1) + 1 = n
    BY <1>3
<1> QED BY <1>4

LEMMA Weighs ==
    /\ \A l \in OutputLine : StandsFor(l) \in Nat \ {0} /\ Weight[l] = StandsFor(l)
    /\ Weight \in [OutputLine -> Nat]
<1>1. ASSUME NEW l \in OutputLine PROVE StandsFor(l) \in Nat \ {0}
    <2>1. CASE l.mark = "rule"
        BY <2>1 DEF OutputLine, StandsFor
    <2>2. CASE l.mark = "omitted"
        <3>1. l.n \in Nat \ {0} /\ StandsFor(l) = l.n * RecordLines
            BY <2>2 DEF OutputLine, StandsFor
        <3>2. RecordLines = 1 \/ RecordLines = 2
            BY DEF RecordLines
        <3> QED BY <3>1, <3>2
    <2>3. CASE l.mark \in {"line", "group"}
        <3>1. l.n \in Nat \ {0} /\ l.times \in Nat \ {0} /\ StandsFor(l) = l.n * l.times
            BY <2>3 DEF OutputLine, StandsFor
        <3> QED BY <3>1, Products
    <2> QED BY <2>1, <2>2, <2>3 DEF OutputLine
<1> QED BY <1>1 DEF Weight

(* The tallies of a text of a pass.                                        *)
LEMMA Tallied ==
    ASSUME NEW s \in Seq(OutputLine)
    PROVE  /\ Len(s) \in Nat /\ DOMAIN s = 1..Len(s)
           /\ UpTo(s, 0) = 0
           /\ \A p \in 0..Len(s) : UpTo(s, p) \in Nat
           /\ \A p \in 1..Len(s) : /\ UpTo(s, p) = UpTo(s, p - 1) + StandsFor(s[p])
                                    /\ StandsFor(s[p]) \in Nat \ {0}
           /\ \A p \in 0..Len(s) : \A q \in p..Len(s) : UpTo(s, p) <= UpTo(s, q)
<1>1. Weight \in [OutputLine -> Nat] /\ \A p \in 1..Len(s) : s[p] \in OutputLine
    BY Weighs
<1>2. \A p \in 0..Len(s) : UpTo(s, p) \in Nat
    BY <1>1, TallyNat DEF UpTo
<1>3. \A p \in 1..Len(s) : UpTo(s, p) = UpTo(s, p - 1) + Weight[s[p]]
    BY <1>1, TallyStep DEF UpTo
<1>4. \A p \in 0..Len(s) : \A q \in p..Len(s) : UpTo(s, p) <= UpTo(s, q)
    BY <1>1, TallyUp DEF UpTo
<1>5. UpTo(s, 0) = 0
    BY TallyEmpty DEF UpTo
<1> QED BY <1>1, <1>2, <1>3, <1>4, <1>5, Weighs

(* LinesOf, as EveryLineCounted says it.                                   *)
LEMMA LinesOfIs ==
    ASSUME NEW s \in Seq(OutputLine)
    PROVE  /\ LinesOf(s) = UpTo(s, Len(s))
           /\ \A n \in 0..Len(s) : LinesOf(SubSeq(s, 1, n)) = UpTo(s, n)
<1>1. ASSUME NEW t \in Seq(OutputLine) PROVE LinesOf(t) = UpTo(t, Len(t))
    <2>. DEFINE f == [k \in DOMAIN t |-> StandsFor(t[k])]
    <2>1. Weights(Weight, t) = f /\ DOMAIN f = 1..Len(t)
        BY Weighs DEF Weights
    <2>2. LinesOf(t) = SumOver(f, DOMAIN f)
        BY DEF LinesOf, FoldFunction, SumOver
    <2> QED BY <2>1, <2>2 DEF UpTo, Tally
<1>2. ASSUME NEW n \in 0..Len(s) PROVE LinesOf(SubSeq(s, 1, n)) = UpTo(s, n)
    <2>. DEFINE t == SubSeq(s, 1, n)
    <2>1. t \in Seq(OutputLine) /\ Len(t) = n /\ \A k \in 1..n : t[k] = s[k]
        OBVIOUS
    <2>. HIDE DEF t
    <2>2. Weight \in [OutputLine -> Nat] /\ n \in 0..Len(t) /\ n <= Len(s)
        BY <2>1, Weighs
    <2>3. Tally(Weight, t, n) = Tally(Weight, s, n)
        BY <2>1, <2>2, TallySame
    <2> QED BY <1>1, <2>1, <2>3 DEF UpTo, t
<1> QED BY <1>1, <1>2

(* One more line that speaks for those behind the ones before it.          *)
LEMMA AppendFaithful ==
    ASSUME NEW s, Faithful(s), NEW l \in OutputLine, Speaks(l, UpTo(s, Len(s)))
    PROVE  /\ Faithful(Append(s, l)) /\ Len(Append(s, l)) = Len(s) + 1
           /\ UpTo(Append(s, l), Len(s) + 1) = UpTo(s, Len(s)) + StandsFor(l)
<1>. DEFINE t == Append(s, l)
<1>1. s \in Seq(OutputLine) /\ Weight \in [OutputLine -> Nat] /\ Weight[l] = StandsFor(l)
    BY Weighs DEF Faithful
<1>2. t \in Seq(OutputLine) /\ Len(t) = Len(s) + 1 /\ t[Len(s) + 1] = l
      /\ \A k \in 1..Len(s) : t[k] = s[k]
    BY <1>1
<1>3. /\ \A p \in 0..Len(s) : UpTo(t, p) = UpTo(s, p)
      /\ UpTo(t, Len(s) + 1) = UpTo(s, Len(s)) + Weight[l]
    BY <1>1, TallyAppend DEF UpTo
<1>. HIDE DEF t
<1>4. ASSUME NEW p \in 1..Len(s) + 1 PROVE Speaks(t[p], UpTo(t, p - 1))
    <2>1. CASE p = Len(s) + 1
        <3>1. p - 1 = Len(s) /\ Len(s) \in 0..Len(s)
            BY <1>1, <2>1
        <3> QED BY <1>2, <1>3, <2>1, <3>1
    <2>2. CASE p # Len(s) + 1
        <3>1. p \in 1..Len(s) /\ p - 1 \in 0..Len(s) /\ p \in DOMAIN s
            BY <1>1, <2>2
        <3>2. Speaks(s[p], UpTo(s, p - 1))
            BY <3>1 DEF Faithful
        <3> QED BY <1>2, <1>3, <3>1, <3>2
    <2> QED BY <2>1, <2>2
<1>5. DOMAIN t = 1..Len(s) + 1
    BY <1>2
<1> QED BY <1>1, <1>2, <1>3, <1>4, <1>5 DEF t, Faithful

(* Every line of the text that s stands for has one line in s for it.      *)
LEMMA Covered ==
    ASSUME NEW s \in Seq(OutputLine), NEW k \in 1..UpTo(s, Len(s))
    PROVE  \E p \in 1..Len(s) : UpTo(s, p - 1) < k /\ k <= UpTo(s, p)
<1>. DEFINE T == {p \in 0..Len(s) : k <= UpTo(s, p)}
<1>1. Len(s) \in T /\ T \subseteq Nat /\ 0 \notin T /\ \A p \in T : UpTo(s, p) \in Nat
    BY Tallied
<1>2. PICK p \in T : \A x \in T : <<x, p>> \notin OpToRel(<, Nat)
    BY <1>1, NatLessThanWellFounded, WFMin
<1>3. \A x \in T : ~(x < p)
    BY <1>1, <1>2 DEF OpToRel
<1>4. p \in 1..Len(s) /\ p - 1 \in 0..Len(s) /\ p - 1 \notin T
    BY <1>1, <1>3
<1>5. UpTo(s, p - 1) \in Nat
    BY <1>4, Tallied
<1> QED BY <1>4, <1>5

-----------------------------------------------------------------------------
(* As long as the text and the context stay, so does what is said of them. *)
LEMMA StillSaid ==
    ASSUME UNCHANGED <<input, context, clean>>
    PROVE  /\ UNCHANGED <<Kind, SuccessReducer, ActiveRules, RecordLines, Weight>>
           /\ \A t : (Guarded(t)' <=> Guarded(t)) /\ (Alarm(t)' <=> Alarm(t))
           /\ \A n : Calm(n)' <=> Calm(n)
           /\ \A s, p : UpTo(s, p)' = UpTo(s, p)
           /\ \A s : Faithful(s)' <=> Faithful(s)
           /\ \A s : Handed(s)' <=> Handed(s)
           /\ \A s : Verbatim(s)' <=> Verbatim(s)
<1>1. UNCHANGED <<Kind, SuccessReducer, ActiveRules, RecordLines>>
    BY DEF Kind, SuccessReducer, ActiveRules, RecordLines
<1>2. \A l : StandsFor(l)' = StandsFor(l)
    BY <1>1 DEF StandsFor
<1>3. UNCHANGED Weight
    BY <1>2 DEF Weight
<1>4. \A t : (Guarded(t)' <=> Guarded(t)) /\ (Alarm(t)' <=> Alarm(t))
    BY <1>1 DEF Guarded, Alarm, PlaywrightRow
<1>5. \A n : Calm(n)' <=> Calm(n)
    BY <1>4 DEF Calm
<1>6. \A s, p : UpTo(s, p)' = UpTo(s, p)
    BY <1>3 DEF UpTo
<1>7. \A l, b : Speaks(l, b)' <=> Speaks(l, b)
    BY <1>1, <1>2, <1>4, <1>5 DEF Speaks
<1>8. \A s : Faithful(s)' <=> Faithful(s)
    BY <1>6, <1>7 DEF Faithful
<1>9. \A s : Handed(s)' <=> Handed(s)
    BY <1>6, <1>8 DEF Handed
<1>10. \A s : Verbatim(s)' <=> Verbatim(s)
    BY DEF Verbatim
<1> QED BY <1>1, <1>3, <1>4, <1>5, <1>6, <1>8, <1>9, <1>10

(* Appending a line and the shape of what is written.                      *)
LEMMA AppendShape ==
    ASSUME NEW s \in Seq(OutputLine), NEW l \in OutputLine
    PROVE  /\ Singles(s) /\ l.times = 1 => Singles(Append(s, l))
           /\ NoRules(s) /\ l.mark # "rule" => NoRules(Append(s, l))
           /\ NoTwins(s) /\ (s # <<>> /\ s[Len(s)] = l => IsText(l)) => NoTwins(Append(s, l))
           /\ Append(s, l) # <<>> /\ Append(s, l)[Len(Append(s, l))] = l
<1>. DEFINE t == Append(s, l)
<1>1. /\ Len(s) \in Nat /\ DOMAIN s = 1..Len(s) /\ Len(t) = Len(s) + 1 /\ DOMAIN t = 1..Len(s) + 1
      /\ t[Len(s) + 1] = l /\ \A k \in 1..Len(s) : t[k] = s[k]
    OBVIOUS
<1>2. t # <<>>
    <2>1. Len(<<>>) = 0
        OBVIOUS
    <2>. HIDE DEF t
    <2> QED BY <1>1, <2>1
<1>. HIDE DEF t
<1>3. Singles(s) /\ l.times = 1 => Singles(t)
    BY <1>1 DEF Singles
<1>4. NoRules(s) /\ l.mark # "rule" => NoRules(t)
    BY <1>1 DEF NoRules
<1>5. ASSUME NoTwins(s), s # <<>> /\ s[Len(s)] = l => IsText(l) PROVE NoTwins(t)
    <2> SUFFICES ASSUME NEW p \in 1..Len(s) + 1, p + 1 \in 1..Len(s) + 1, t[p] = t[p + 1]
                 PROVE  IsText(t[p])
        BY <1>1 DEF NoTwins
    <2>1. CASE p + 1 = Len(s) + 1
        <3>0. p \in Nat /\ p >= 1 /\ Len(s) \in Nat
            BY <1>1
        <3>1. p = Len(s) /\ p \in 1..Len(s)
            BY <2>1, <3>0
        <3>2. s # <<>>
            BY <3>1
        <3> QED BY <1>1, <1>5, <2>1, <3>1, <3>2
    <2>2. CASE p + 1 # Len(s) + 1
        <3>1. p \in DOMAIN s /\ p + 1 \in DOMAIN s
            BY <1>1, <2>2
        <3> QED BY <1>1, <1>5, <3>1 DEF NoTwins
    <2> QED BY <2>1, <2>2
<1> QED BY <1>1, <1>2, <1>3, <1>4, <1>5 DEF t

(* The text as Sanitize hands it over.                                     *)
LEMMA KeptIs ==
    ASSUME NEW t \in DOMAIN Line
    PROVE  /\ Kept(t) \in OutputLine /\ IsText(Kept(t)) /\ StandsFor(Kept(t)) = 1
           /\ Kept(t).mark = "line" /\ Kept(t).text = t /\ Kept(t).n = 1 /\ Kept(t).times = 1
    BY DEF Kept, OutputLine, IsText, StandsFor

LEMMA VerbatimCounts ==
    ASSUME clean \in Seq(DOMAIN Line), NEW s \in Seq(OutputLine), Verbatim(s)
    PROVE  \A p \in 0..Len(s) : UpTo(s, p) = p
<1>. DEFINE I == {p \in Nat : p <= Len(s) => UpTo(s, p) = p}
<1>1. 0 \in I
    BY Tallied
<1>2. ASSUME NEW p \in I PROVE p + 1 \in I
    <2>1. ASSUME p + 1 <= Len(s) PROVE UpTo(s, p + 1) = p + 1
        <3>1. p + 1 \in 1..Len(s) /\ (p + 1) - 1 = p /\ p + 1 \in DOMAIN clean /\ p + 1 \in DOMAIN s
            BY <2>1 DEF Verbatim
        <3>2. UpTo(s, p + 1) = UpTo(s, p) + StandsFor(s[p + 1])
            BY <3>1, Tallied
        <3>3. s[p + 1] = Kept(clean[p + 1]) /\ clean[p + 1] \in DOMAIN Line
            BY <3>1 DEF Verbatim
        <3>4. UpTo(s, p) = p
            BY <2>1
        <3> QED BY <3>2, <3>3, <3>4, KeptIs
    <2> QED BY <2>1
<1>3. I = Nat
    <2>. HIDE DEF I
    <2>1. I \in SUBSET Nat
        BY DEF I
    <2> QED BY <1>1, <1>2, <2>1, Upwards
<1> QED BY <1>3

LEMMA VerbatimHanded ==
    ASSUME clean \in Seq(DOMAIN Line), NEW s, s = [k \in DOMAIN clean |-> Kept(clean[k])]
    PROVE  Handed(s) /\ NoTwins(s) /\ Singles(s) /\ NoRules(s) /\ Verbatim(s)
<1>1. /\ s \in Seq(OutputLine) /\ Len(s) = Len(clean) /\ DOMAIN s = 1..Len(clean) /\ Len(clean) \in Nat
      /\ \A k \in DOMAIN s : clean[k] \in DOMAIN Line /\ s[k] = Kept(clean[k])
    <2>1. \A k \in DOMAIN clean : clean[k] \in DOMAIN Line /\ Kept(clean[k]) \in OutputLine
        BY KeptIs
    <2> QED BY <2>1
<1>2. Verbatim(s) /\ NoTwins(s) /\ Singles(s) /\ NoRules(s)
    BY <1>1, KeptIs DEF Verbatim, NoTwins, Singles, NoRules
<1>3. \A p \in 0..Len(s) : UpTo(s, p) = p
    BY <1>1, <1>2, VerbatimCounts
<1>4. ASSUME NEW p \in DOMAIN s PROVE Speaks(s[p], UpTo(s, p - 1))
    <2>1. s[p].mark = "line" /\ s[p].n = 1 /\ s[p].text = clean[p] /\ StandsFor(s[p]) = 1
        BY <1>1, KeptIs
    <2>2. p \in Nat /\ UpTo(s, p - 1) = p - 1
        BY <1>1, <1>3
    <2>3. \A k \in (p - 1) + 1..(p - 1) + 1 : k = p
        BY <2>2
    <2> QED BY <2>1, <2>2, <2>3 DEF Speaks
<1> QED BY <1>1, <1>2, <1>3, <1>4 DEF Handed, Faithful

-----------------------------------------------------------------------------
(* The rules that apply to a command are among the configured ones.        *)
LEMMA ThoseAre ==
    ASSUME NEW S, NEW s \in Seq(S), NEW at
    PROVE  Those(s, at) \in Seq(S)
<1>. DEFINE parts == [z \in DOMAIN s |-> IF z \in at THEN <<s[z]>> ELSE <<>>]
<1>1. parts \in Seq(Seq(S))
    <2>1. \A z \in DOMAIN s : s[z] \in S
        OBVIOUS
    <2>2. \A z \in DOMAIN s : parts[z] \in Seq(S)
        BY <2>1
    <2>. HIDE DEF parts
    <2>3. DOMAIN parts = 1..Len(s) /\ Len(s) \in Nat
        BY DEF parts
    <2>4. parts \in [1..Len(s) -> Seq(S)]
        BY <2>2, <2>3 DEF parts
    <2> QED BY <2>3, <2>4
<1>. HIDE DEF parts
<1> QED BY <1>1, FlattenKeeps DEF Those, parts

LEMMA RulesForKnown ==
    ASSUME input.specs \in Seq(ToSet(input.specs)), NEW command
    PROVE  RulesFor(command) \in Seq(ToSet(input.specs))
<1>1. Compiled(input.specs) \in Seq(ToSet(input.specs))
    BY ThoseAre DEF Compiled
<1> QED BY <1>1, ThoseAre DEF RulesFor

LEMMA CompileLedger ==
    ASSUME Ledger, Compile
    PROVE  Ledger'
<1>1. ActiveRules' \in Seq(ToSet(input.specs))
    <2>1. CASE UNCHANGED context
        BY <2>1 DEF ActiveRules, Ledger
    <2>2. CASE ~UNCHANGED context
        <3>1. context'.rules = IF IsSmart THEN RulesFor(input.command) ELSE <<>>
            BY <2>2 DEF Compile
        <3>2. RulesFor(input.command) \in Seq(ToSet(input.specs))
            BY RulesForKnown DEF Ledger
        <3>3. <<>> \in Seq(ToSet(input.specs))
            OBVIOUS
        <3> QED BY <3>1, <3>2, <3>3 DEF ActiveRules
    <2> QED BY <2>1, <2>2
<1>2. pass' \in {"invalid", "sanitize"} /\ UNCHANGED <<input, clean, lines, pos, out, count, diagnostic>>
    BY DEF Compile
<1>3. InSanitize'
    BY <1>2 DEF Ledger, InSanitize, Compile
<1>4. ActiveRules' \in Seq(ToSet(input'.specs))
    BY <1>1, <1>2
<1> QED BY <1>2, <1>3, <1>4 DEF Ledger, Passes, Reading, Compile

LEMMA SanitizeLineLedger ==
    ASSUME Ledger, SanitizeLine
    PROVE  Ledger'
<1>. DEFINE t == Line[input.original[pos]].clean
            blanks == IF t = Blank THEN count + 1 ELSE 0
<1>1. /\ pass = "sanitize" /\ pos <= Len(input.original) /\ count' = blanks /\ pos' = pos + 1
      /\ clean' = IF blanks <= BlankRun THEN Append(clean, t) ELSE clean
      /\ UNCHANGED <<input, context, pass, lines, out, diagnostic>>
    BY DEF SanitizeLine
<1>2. InSanitize /\ input.original \in Seq(DOMAIN Line)
    BY <1>1 DEF Ledger
<1>3. /\ pos \in Nat \ {0} /\ count \in Nat /\ count <= pos - 1 /\ Len(input.original) \in Nat
      /\ clean \in Seq(DOMAIN Line) /\ Len(clean) \in Nat
    BY <1>2 DEF InSanitize
<1>4. t \in DOMAIN Line
    <2>1. input.original[pos] \in DOMAIN Line
        BY <1>1, <1>2, <1>3
    <2> QED BY <2>1, LineAssumption
<1>. HIDE DEF t
<1>5. blanks \in Nat /\ blanks <= pos
    BY <1>3
<1>. HIDE DEF blanks
<1>6. clean' \in Seq(DOMAIN Line) /\ Len(clean') \in {Len(clean), Len(clean) + 1}
      /\ (blanks <= BlankRun => Len(clean') = Len(clean) + 1)
    <2>1. Append(clean, t) \in Seq(DOMAIN Line) /\ Len(Append(clean, t)) = Len(clean) + 1
        BY <1>3, <1>4
    <2>2. CASE blanks <= BlankRun
        BY <1>1, <2>1, <2>2
    <2>3. CASE ~(blanks <= BlankRun)
        BY <1>1, <1>3, <2>3
    <2> QED BY <2>2, <2>3
<1>7. pos <= 2 => blanks <= BlankRun
    BY <1>3, <1>5, BlankRunAssumption
<1>8. InSanitize'
    <2>1. Len(clean) <= pos - 1 /\ (pos <= 3 => Len(clean) = pos - 1) /\ (pos > 3 => Len(clean) >= 2)
        BY <1>2 DEF InSanitize
    <2>2. Len(clean') <= pos' - 1
        BY <1>1, <1>3, <1>6, <2>1
    <2>3. pos' <= 3 => Len(clean') = pos' - 1
        BY <1>1, <1>3, <1>6, <1>7, <2>1
    <2>4. pos' > 3 => Len(clean') >= 2
        BY <1>1, <1>3, <1>6, <2>1
    <2>5. pos' \in 1..Len(input.original) + 1 /\ count' \in 0..pos' - 1
        BY <1>1, <1>3, <1>5
    <2> QED BY <1>1, <1>2, <1>6, <2>2, <2>3, <2>4, <2>5 DEF InSanitize
<1> QED BY <1>1, <1>8 DEF Ledger, Passes, Reading, ActiveRules

(* The pass that follows begins with what it is handed.                    *)
LEMMA NextReads ==
    /\ \A p \in {"sanitize", "success", "logs", "rules", "repeats"} : After(p) \in Reading \cup {"result"}
    /\ After("sanitize") = "success" => SuccessReducer \notin {"none", "logs"}
    /\ After("sanitize") = "logs" => SuccessReducer = "logs"
    /\ \A p \in {"success", "logs", "rules", "repeats"} : After(p) \notin {"success", "logs"}
    /\ After("rules") # "rules" /\ After("repeats") = "result"
    BY DEF After, Reading

LEMMA EmptyFaithful == Faithful(<<>>) /\ UpTo(<<>>, 0) = 0
<1>1. <<>> \in Seq(OutputLine) /\ DOMAIN <<>> = {}
    OBVIOUS
<1> QED BY <1>1, Tallied DEF Faithful

LEMMA EnterLedger ==
    ASSUME Ledger, NEW p \in {"sanitize", "success", "logs", "rules", "repeats"}, NEW text,
           Enter(After(p), text), Handed(text), clean \in Seq(DOMAIN Line),
           Len(clean) = 1 => Len(input.original) = 1,
           p # "repeats" => NoTwins(text) /\ Singles(text),
           p = "sanitize" => Verbatim(text),
           p \notin {"rules", "repeats"} => NoRules(text)
    PROVE  Ledger'
<1>1. /\ pass' = After(p) /\ lines' = text /\ out' = <<>> /\ pos' = 1 /\ count' = 0
      /\ ~diagnostic' /\ UNCHANGED <<input, context, clean>>
    BY DEF Enter
<1>2. pass' \in Reading \cup {"result"}
    BY <1>1, NextReads
<1>3. UNCHANGED <<SuccessReducer, ActiveRules, RecordLines>> /\ Handed(lines)'
    BY <1>1, StillSaid
<1>4. text \in Seq(OutputLine) /\ Len(text) \in Nat /\ UpTo(text, 0) = 0
    BY Tallied DEF Handed, Faithful
<1>5. ASSUME pass' \in Reading PROVE InReading'
    <2>1. p # "repeats"
        BY <1>1, <1>5, NextReads DEF Reading
    <2>2. NoTwins(lines') /\ Singles(lines')
        BY <1>1, <2>1
    <2>3. NoTwins(<<>>) /\ Singles(<<>>)
        BY DEF NoTwins, Singles
    <2>4. Faithful(<<>>)' /\ UpTo(<<>>, 0)' = 0 /\ UpTo(text, 0)' = 0
        BY <1>1, <1>4, StillSaid, EmptyFaithful
    <2>5. Len(<<>>) = 0 /\ 1 - 1 = 0 /\ 0 * RecordLines = 0
        BY DEF RecordLines
    <2>6. UpTo(out, Len(out))' + count' * RecordLines' = UpTo(lines, pos - 1)'
        BY <1>1, <1>3, <2>4, <2>5
    <2>7. Faithful(out)' /\ NoTwins(out)' /\ Singles(out)' /\ NoTwins(lines)' /\ Singles(lines)'
        BY <1>1, <2>2, <2>3, <2>4 DEF NoTwins, Singles
    <2> QED BY <1>1, <1>3, <1>4, <2>6, <2>7 DEF InReading
<1>6. ASSUME pass' \in {"success", "logs"} PROVE Verbatim(lines)' /\ p = "sanitize"
    <2>1. p = "sanitize"
        BY <1>1, <1>6, NextReads
    <2> QED BY <1>1, <2>1, StillSaid
<1>7. \A n \in {0} : Calm(n)'
    BY DEF Calm
<1>8. pass' = "success" => InSuccess'
    <2> SUFFICES ASSUME pass' = "success" PROVE InSuccess'
        OBVIOUS
    <2>1. SuccessReducer' \notin {"none", "logs"}
        BY <1>1, <1>3, <1>6, NextReads
    <2>2. NoRules(out')
        BY <1>1 DEF NoRules
    <2>3. 1 - 0 * RecordLines'..1 - 1 = {}
        BY <1>3 DEF RecordLines
    <2> QED BY <1>1, <1>6, <1>7, <2>1, <2>2, <2>3 DEF InSuccess, NoRules
<1>9. pass' = "logs" => InLogs'
    <2> SUFFICES ASSUME pass' = "logs" PROVE InLogs'
        OBVIOUS
    <2>1. SuccessReducer' = "logs"
        BY <1>1, <1>3, <1>6, NextReads
    <2> QED BY <1>1, <1>6, <2>1 DEF InLogs
<1>10. pass' = "rules" => InRules'
    <2> SUFFICES ASSUME pass' = "rules" PROVE InRules'
        OBVIOUS
    <2>1. p \notin {"rules", "repeats"}
        BY <1>1, NextReads
    <2>2. NoRules(lines)'
        BY <1>1, <2>1 DEF NoRules
    <2>3. UpTo(lines, pos - 1)' = 0
        <3>1. UpTo(text, 0)' = 0 /\ 1 - 1 = 0
            BY <1>1, <1>4, StillSaid
        <3> QED BY <1>1, <3>1
    <2> QED BY <1>1, <1>7, <2>2, <2>3 DEF InRules
<1> QED BY <1>1, <1>2, <1>3, <1>5, <1>8, <1>9, <1>10 DEF Ledger, Passes, Reading

LEMMA SanitizedLedger ==
    ASSUME Ledger, Sanitized
    PROVE  Ledger'
<1>. DEFINE text == [k \in DOMAIN clean |-> Kept(clean[k])]
<1>1. pass = "sanitize" /\ pos > Len(input.original) /\ Enter(After("sanitize"), text)
    BY DEF Sanitized
<1>2. InSanitize /\ Len(input.original) \in Nat
    BY <1>1 DEF Ledger
<1>3. clean \in Seq(DOMAIN Line)
    BY <1>2 DEF InSanitize
<1>4. Len(clean) = 1 => Len(input.original) = 1
    <2>1. pos = Len(input.original) + 1
        BY <1>1, <1>2 DEF InSanitize
    <2> QED BY <1>2, <2>1 DEF InSanitize
<1>. HIDE DEF text
<1>5. Handed(text) /\ NoTwins(text) /\ Singles(text) /\ NoRules(text) /\ Verbatim(text)
    BY <1>3, VerbatimHanded DEF text
<1> QED BY <1>1, <1>3, <1>4, <1>5, EnterLedger

-----------------------------------------------------------------------------
(* What the loop of a reducer of success records knows of its lines.       *)
LEMMA ReducerOfKind ==
    ASSUME Marked, SuccessReducer \notin {"none", "logs"}
    PROVE  /\ Kind \in BuildKinds => SuccessReducer = Kind
           /\ Kind \notin BuildKinds => SuccessReducer \notin BuildKinds
<1>1. FromCommand
    BY DEF Marked, Derived
<1>2. context # NoContext
    <2>1. NoContext.reducer = "none"
        BY DEF NoContext
    <2> QED BY <2>1 DEF SuccessReducer
<1>3. SuccessReducer = SuccessReducerOf(Kind)
    BY <1>1, <1>2 DEF FromCommand
<1>4. PHPReduction(input.command) \in {NoWord, "php-test", "composer"}
    BY DEF PHPReduction, PhpProducer
<1> QED BY <1>3, <1>4 DEF SuccessReducerOf, BuildKinds, PhpKinds, LogKinds

(* A line that begins no diagnostic is no alarm.                           *)
LEMMA NoAlarm ==
    ASSUME Marked, SuccessReducer \notin {"none", "logs"}, NEW k, lines[k].text \in DOMAIN Line,
           ~Begins(k)
    PROVE  ~Alarm(lines[k].text)
<1>1. Line[lines[k].text].critical => Line[lines[k].text].diagnostic
    BY LineAssumption
<1>2. Kind = "dotnet-test" => SuccessReducer \in BuildKinds
    BY ReducerOfKind DEF BuildKinds
<1>3. CASE SuccessReducer \in BuildKinds
    BY <1>1, <1>3 DEF Begins, Attributes, Alarm, Guarded
<1>4. CASE SuccessReducer \notin BuildKinds
    BY <1>4 DEF Begins, Attributes, Alarm, Guarded
<1> QED BY <1>3, <1>4

(* A line that is left out as a record, or as the first of a pair, is none *)
(* that the guard looks for.                                               *)
LEMMA RecordUnguarded ==
    ASSUME Marked, SuccessReducer \notin {"none", "logs"}, NEW k, lines[k].text \in DOMAIN Line,
           ~Begins(k), RecordAt(k) > 0
    PROVE  ~Guarded(lines[k].text)
<1>. DEFINE t == lines[k].text
<1>1. ~Alarm(t)
    BY NoAlarm
<1>2. SUFFICES ASSUME Guarded(t) PROVE FALSE
    OBVIOUS
<1>3. Kind = "dotnet-test" /\ Line[t].header
    BY <1>1, <1>2 DEF Alarm
<1>4. SuccessReducer = "dotnet-test"
    BY <1>3, ReducerOfKind DEF BuildKinds
<1>5. "dotnet-test" \in Line[t].success
    BY <1>4, RecordIs DEF Attributes
<1> QED BY <1>3, <1>5, LineAssumption

(* The lines of the first pass are those of the text, one for one.         *)
LEMMA FirstPassLines ==
    ASSUME Ledger, pass \in {"success", "logs"}
    PROVE  /\ InReading /\ Verbatim(lines) /\ clean \in Seq(DOMAIN Line)
           /\ lines \in Seq(OutputLine) /\ out \in Seq(OutputLine)
           /\ Len(lines) = Len(clean) /\ Len(lines) \in Nat /\ count \in Nat /\ pos \in Nat \ {0}
           /\ \A p \in 0..Len(lines) : UpTo(lines, p) = p
           /\ \A p \in 1..Len(lines) : /\ lines[p] = Kept(clean[p]) /\ clean[p] \in DOMAIN Line
                                        /\ lines[p].text = clean[p]
           /\ UpTo(out, Len(out)) \in Nat /\ UpTo(out, Len(out)) + count * RecordLines = pos - 1
           /\ pos - 1 \in 0..Len(lines)
<1>1. InReading /\ Verbatim(lines) /\ clean \in Seq(DOMAIN Line)
    BY DEF Ledger, Passes, Reading, InSuccess, InLogs
<1>2. lines \in Seq(OutputLine) /\ out \in Seq(OutputLine) /\ Len(lines) = Len(clean)
    BY <1>1 DEF InReading, Handed, Faithful, Verbatim
<1>3. \A p \in 0..Len(lines) : UpTo(lines, p) = p
    BY <1>1, <1>2, VerbatimCounts
<1>4. \A p \in 1..Len(lines) : lines[p] = Kept(clean[p]) /\ clean[p] \in DOMAIN Line
    BY <1>1, <1>2 DEF Verbatim
<1>5. pos \in Nat \ {0} /\ pos - 1 \in 0..Len(lines) /\ count \in Nat /\ Len(lines) \in Nat
    BY <1>1, <1>2 DEF InReading
<1>6. UpTo(out, Len(out)) \in Nat
    BY <1>2, Tallied
<1>7. UpTo(out, Len(out)) + count * RecordLines = pos - 1
    BY <1>1, <1>3, <1>5 DEF InReading
<1> QED BY <1>1, <1>2, <1>3, <1>4, <1>5, <1>6, <1>7, KeptIs

LEMMA SuccessLines ==
    ASSUME Ledger, pass = "success"
    PROVE  /\ InReading /\ InSuccess /\ clean \in Seq(DOMAIN Line)
           /\ lines \in Seq(OutputLine) /\ out \in Seq(OutputLine)
           /\ Len(lines) = Len(clean) /\ Len(lines) \in Nat /\ count \in Nat /\ pos \in Nat \ {0}
           /\ \A p \in 0..Len(lines) : UpTo(lines, p) = p
           /\ \A p \in 1..Len(lines) : /\ lines[p] = Kept(clean[p]) /\ clean[p] \in DOMAIN Line
                                        /\ lines[p].text = clean[p]
           /\ UpTo(out, Len(out)) \in Nat /\ UpTo(out, Len(out)) + count * RecordLines = pos - 1
           /\ pos - 1 \in 0..Len(lines)
<1>1. InSuccess
    BY DEF Ledger
<1> QED BY <1>1, FirstPassLines

LEMMA Between ==
    ASSUME NEW a \in Int, NEW b \in Int, NEW c \in Int
    PROVE  \A k \in a..c : k \in a..b - 1 \/ k \in b..c
    OBVIOUS

LEMMA OmitLedger ==
    ASSUME Ledger, Marked, Omit
    PROVE  Ledger'
<1>1. /\ pass = "success" /\ pos <= Len(lines) /\ ~diagnostic /\ ~Begins(pos) /\ RecordAt(pos) > 0
      /\ count' = count + 1 /\ pos' = pos + RecordAt(pos)
      /\ UNCHANGED <<input, context, pass, clean, lines, out, diagnostic>>
    BY DEF Omit
<1>2. /\ InReading /\ InSuccess /\ clean \in Seq(DOMAIN Line)
      /\ Len(lines) = Len(clean) /\ Len(lines) \in Nat /\ count \in Nat /\ pos \in Nat \ {0}
      /\ UpTo(out, Len(out)) \in Nat /\ UpTo(out, Len(out)) + count * RecordLines = pos - 1
      /\ \A p \in 0..Len(lines) : UpTo(lines, p) = p
      /\ \A p \in 1..Len(lines) : clean[p] \in DOMAIN Line /\ lines[p].text = clean[p]
    BY <1>1, SuccessLines
<1>3. SuccessReducer \notin {"none", "logs"}
    BY <1>2 DEF InSuccess
<1>4. RecordAt(pos) = RecordLines /\ RecordLines \in {1, 2}
    BY <1>1, RecordIs DEF RecordLines
<1>5. pos' - 1 \in 0..Len(lines) /\ pos' \in 1..Len(lines) + 1
    <2>1. RecordLines = 2 => pos < Len(lines)
        <3>1. RecordLines = 2 => SuccessReducer = "go-test"
            BY DEF RecordLines
        <3>2. RecordAt(pos) # 0
            BY <1>4
        <3>3. SuccessReducer = "go-test" => pos < Len(lines)
            BY <3>2, Zenon DEF RecordAt
        <3> QED BY <3>1, <3>3
    <2> QED BY <1>1, <1>2, <1>4, <2>1
<1>6. ~Alarm(clean[pos]) /\ ~Guarded(clean[pos])
    <2>1. pos \in 1..Len(lines)
        BY <1>1, <1>2
    <2>2. lines[pos].text = clean[pos] /\ clean[pos] \in DOMAIN Line
        BY <1>2, <2>1
    <2> QED BY <1>1, <1>3, <2>2, NoAlarm, RecordUnguarded
<1>7. RecordLines = 2 => ~Guarded(clean[pos + 1])
    <2> SUFFICES ASSUME RecordLines = 2 PROVE ~Guarded(clean[pos + 1])
        OBVIOUS
    <2>1. SuccessReducer = "go-test"
        BY DEF RecordLines
    <2>2. pos + 1 \in 1..Len(lines)
        BY <1>1, <1>2, <1>4, <1>5
    <2>3. lines[pos + 1].text = clean[pos + 1] /\ clean[pos + 1] \in DOMAIN Line
        BY <1>2, <2>2
    <2>4. ~Line[clean[pos + 1]].diagnostic
        BY <1>1, <2>1, <2>3, RecordIs DEF Attributes
    <2> QED BY <2>3, <2>4, LineAssumption DEF Guarded
<1>8. \A k \in pos..pos' - 1 : ~Guarded(clean[k]) /\ ~Alarm(clean[k])
    <2>1. \A k \in pos..pos' - 1 : k = pos \/ (RecordLines = 2 /\ k = pos + 1)
        BY <1>1, <1>2, <1>4
    <2> QED BY <1>6, <1>7, <2>1 DEF Alarm
<1>9. Calm(pos' - 1)
    <2>1. Calm(pos - 1)
        BY <1>1, <1>2 DEF InSuccess
    <2>2. \A k \in 1..pos' - 1 : k \in 1..pos - 1 \/ k \in pos..pos' - 1
        <3>1. 1 \in Int /\ pos \in Int /\ pos' - 1 \in Int
            BY <1>2, <1>5
        <3> QED BY <3>1, Between
    <2> QED BY <1>8, <2>1, <2>2 DEF Calm
<1>10. \A k \in pos' - count' * RecordLines..pos' - 1 : ~Guarded(clean[k])
    <2>1. pos' - count' * RecordLines = pos - count * RecordLines
        BY <1>1, <1>2, <1>4
    <2>2. count * RecordLines \in Nat
        BY <1>2, <1>4
    <2>3. \A k \in pos - count * RecordLines..pos' - 1 :
            k \in pos - count * RecordLines..pos - 1 \/ k \in pos..pos' - 1
        <3>1. pos - count * RecordLines \in Int /\ pos \in Int /\ pos' - 1 \in Int
            BY <1>2, <1>5, <2>2
        <3> QED BY <3>1, Between
    <2> QED BY <1>2, <1>8, <2>1, <2>3 DEF InSuccess
<1>11. UpTo(out, Len(out)) + count' * RecordLines = UpTo(lines, pos' - 1)
    <2>1. count' * RecordLines = count * RecordLines + RecordLines /\ count * RecordLines \in Nat
        BY <1>1, <1>2, <1>4
    <2>2. UpTo(lines, pos' - 1) = pos' - 1 /\ pos' = pos + RecordLines
        BY <1>1, <1>2, <1>4, <1>5
    <2> QED BY <1>2, <1>4, <2>1, <2>2
<1>12. InReading'
    <2>1. UpTo(out, Len(out))' = UpTo(out, Len(out)) /\ UpTo(lines, pos - 1)' = UpTo(lines, pos' - 1)
          /\ UNCHANGED RecordLines
        BY <1>1, StillSaid
    <2>2. Handed(lines)' /\ Faithful(out)'
        BY <1>1, <1>2, StillSaid DEF InReading
    <2>3. NoTwins(lines)' /\ Singles(lines)' /\ NoTwins(out)' /\ Singles(out)'
        BY <1>1, <1>2 DEF InReading, NoTwins, Singles
    <2> QED BY <1>1, <1>2, <1>5, <1>11, <2>1, <2>2, <2>3 DEF InReading
<1>13. InSuccess'
    <2>1. Verbatim(lines)' /\ UNCHANGED <<SuccessReducer, RecordLines>>
          /\ (Calm(pos - 1)' <=> Calm(pos' - 1))
        BY <1>1, <1>2, StillSaid DEF InSuccess
    <2>2. \A k \in (pos - count * RecordLines)'..pos' - 1 : ~Guarded(clean[k])'
        BY <1>1, <1>10, <2>1, StillSaid
    <2>3. NoRules(out)' /\ (out' # <<>> => IsText(out'[Len(out')]))
        BY <1>1, <1>2 DEF InSuccess, NoRules
    <2> QED BY <1>1, <1>3, <1>9, <2>1, <2>2, <2>3 DEF InSuccess
<1> QED BY <1>1, <1>2, <1>12, <1>13 DEF Ledger, Passes, Reading, ActiveRules

(* The marker of what was left out closes the gap.                         *)
LEMMA FlushedBooks ==
    ASSUME Ledger, pass = "success"
    PROVE  /\ Faithful(Flushed) /\ UpTo(Flushed, Len(Flushed)) = pos - 1
           /\ NoTwins(Flushed) /\ Singles(Flushed) /\ NoRules(Flushed)
<1>1. /\ InReading /\ InSuccess /\ out \in Seq(OutputLine) /\ count \in Nat /\ pos \in Nat \ {0}
      /\ UpTo(out, Len(out)) \in Nat /\ UpTo(out, Len(out)) + count * RecordLines = pos - 1
    BY SuccessLines
<1>2. Faithful(out) /\ NoTwins(out) /\ Singles(out) /\ NoRules(out)
    BY <1>1 DEF InReading, InSuccess
<1>3. CASE count = 0
    <2>1. Flushed = out /\ 0 * RecordLines = 0
        BY <1>3 DEF Flushed, RecordLines
    <2> QED BY <1>1, <1>2, <1>3, <2>1
<1>4. CASE count # 0
    <2>. DEFINE l == Omitted(count)  b == UpTo(out, Len(out))
    <2>1. Flushed = Append(out, l) /\ count > 0
        BY <1>1, <1>4 DEF Flushed
    <2>2. l \in OutputLine /\ l.mark = "omitted" /\ l.n = count /\ l.times = 1
        BY <1>1, <2>1 DEF Omitted, OutputLine
    <2>3. StandsFor(l) = count * RecordLines
        BY <2>2 DEF StandsFor
    <2>4. count * RecordLines \in Nat
        BY <1>1 DEF RecordLines
    <2>5. Calm(pos - 1)
        BY <1>1, <2>1 DEF InSuccess
    <2>6. \A k \in b + 1..pos - 1 : ~Guarded(clean[k])
        <3>1. b + 1 = pos - count * RecordLines
            BY <1>1, <2>4
        <3> QED BY <1>1, <3>1 DEF InSuccess
    <2>. HIDE DEF l, b
    <2>7. b + StandsFor(l) = pos - 1 /\ b \in Nat
        BY <1>1, <2>3 DEF b
    <2>8. Speaks(l, b)
        BY <2>2, <2>5, <2>6, <2>7 DEF Speaks
    <2>9. /\ Faithful(Flushed) /\ Len(Flushed) = Len(out) + 1
          /\ UpTo(Flushed, Len(out) + 1) = pos - 1
        BY <1>2, <2>1, <2>2, <2>7, <2>8, AppendFaithful DEF b
    <2>10. out # <<>> /\ out[Len(out)] = l => IsText(l)
        BY <1>1 DEF InSuccess
    <2>11. NoTwins(Flushed) /\ Singles(Flushed) /\ NoRules(Flushed)
        BY <1>1, <1>2, <2>1, <2>2, <2>10, AppendShape
    <2> QED BY <2>9, <2>11
<1> QED BY <1>3, <1>4

LEMMA KeepLedger ==
    ASSUME Ledger, Marked, Keep
    PROVE  Ledger'
<1>. DEFINE l == lines[pos]
<1>1. /\ pass = "success" /\ pos <= Len(lines) /\ diagnostic' = (diagnostic \/ Begins(pos))
      /\ out' = Append(Flushed, l) /\ count' = 0 /\ pos' = pos + 1
      /\ UNCHANGED <<input, context, pass, clean, lines>>
    BY DEF Keep
<1>2. /\ InReading /\ InSuccess /\ clean \in Seq(DOMAIN Line) /\ pos \in Nat \ {0}
      /\ Len(lines) = Len(clean) /\ Len(lines) \in Nat /\ pos - 1 \in 0..Len(lines)
      /\ \A p \in 0..Len(lines) : UpTo(lines, p) = p
      /\ \A p \in 1..Len(lines) : /\ lines[p] = Kept(clean[p]) /\ clean[p] \in DOMAIN Line
                                   /\ lines[p].text = clean[p]
    BY <1>1, SuccessLines
<1>3. l = Kept(clean[pos]) /\ clean[pos] \in DOMAIN Line /\ l.text = clean[pos] /\ pos \in 1..Len(lines)
    BY <1>1, <1>2
<1>4. /\ l \in OutputLine /\ IsText(l) /\ StandsFor(l) = 1
      /\ l.mark = "line" /\ l.n = 1 /\ l.times = 1
    BY <1>3, KeptIs
<1>5. /\ Faithful(Flushed) /\ UpTo(Flushed, Len(Flushed)) = pos - 1
      /\ NoTwins(Flushed) /\ Singles(Flushed) /\ NoRules(Flushed)
    BY <1>1, FlushedBooks
<1>6. SuccessReducer \notin {"none", "logs"}
    BY <1>2 DEF InSuccess
<1>7. ~diagnostic' => Calm(pos' - 1)
    <2> SUFFICES ASSUME ~diagnostic' PROVE Calm(pos' - 1)
        OBVIOUS
    <2>1. ~diagnostic /\ ~Begins(pos)
        BY <1>1, Zenon
    <2>2. Calm(pos - 1) /\ ~Alarm(clean[pos])
        BY <1>2, <1>3, <1>6, <2>1, NoAlarm DEF InSuccess
    <2>3. \A k \in 1..pos' - 1 : k \in 1..pos - 1 \/ k = pos
        BY <1>1, <1>2
    <2> QED BY <2>2, <2>3 DEF Calm
<1>8. Speaks(l, pos - 1)
    <2>1. \A k \in (pos - 1) + 1..(pos - 1) + 1 : k = pos
        BY <1>2
    <2> QED BY <1>3, <1>4, <2>1 DEF Speaks
<1>. HIDE DEF l
<1>9. /\ Faithful(out') /\ Len(out') = Len(Flushed) + 1
      /\ UpTo(out', Len(Flushed) + 1) = (pos - 1) + 1
    BY <1>1, <1>4, <1>5, <1>8, AppendFaithful
<1>10. /\ Singles(out') /\ NoRules(out') /\ NoTwins(out')
       /\ out' # <<>> /\ out'[Len(out')] = l
    <2>1. Flushed \in Seq(OutputLine)
        BY <1>5 DEF Faithful
    <2> QED BY <1>1, <1>4, <1>5, <2>1, AppendShape
<1>11. InReading'
    <2>1. UpTo(out, Len(out))' = UpTo(out', Len(out')) /\ UpTo(lines, pos - 1)' = UpTo(lines, pos' - 1)
          /\ RecordLines' = RecordLines
        BY <1>1, StillSaid
    <2>2. Handed(lines)' /\ Faithful(out)'
        BY <1>1, <1>2, <1>9, StillSaid DEF InReading
    <2>3. NoTwins(lines)' /\ Singles(lines)' /\ NoTwins(out)' /\ Singles(out)'
        BY <1>1, <1>2, <1>10 DEF InReading, NoTwins, Singles
    <2>4. count' * RecordLines = 0
        BY <1>1 DEF RecordLines
    <2>5. UpTo(lines, pos' - 1) = pos /\ (pos - 1) + 1 = pos /\ pos' \in 1..Len(lines) + 1
        BY <1>1, <1>2
    <2>6. UpTo(out, Len(out))' + count' * RecordLines' = UpTo(lines, pos - 1)'
        BY <1>2, <1>9, <2>1, <2>4, <2>5
    <2> QED BY <1>1, <2>2, <2>3, <2>5, <2>6 DEF InReading
<1>12. InSuccess'
    <2>1. Verbatim(lines)' /\ UNCHANGED <<SuccessReducer, RecordLines>>
          /\ (Calm(pos - 1)' <=> Calm(pos' - 1))
        BY <1>1, <1>2, StillSaid DEF InSuccess
    <2>2. NoRules(out)' /\ IsText(out'[Len(out')])
        BY <1>4, <1>10 DEF NoRules
    <2>3. (pos - count * RecordLines)'..pos' - 1 = {}
        <3>1. 0 * RecordLines' = 0
            BY DEF RecordLines
        <3>2. count' = 0 /\ pos' \in Int
            BY <1>1, <1>2
        <3>3. count' * RecordLines' = 0
            BY <3>1, <3>2
        <3>4. pos' - 0 = pos' /\ pos'..pos' - 1 = {}
            <4>1. \A p \in Int : p - 0 = p /\ p..p - 1 = {}
                OBVIOUS
            <4> QED BY <3>2, <4>1
        <3> QED BY <3>3, <3>4
    <2>4. IsText(out[Len(out)])'
        BY <2>2 DEF IsText
    <2> QED BY <1>1, <1>6, <1>7, <2>1, <2>2, <2>3, <2>4 DEF InSuccess
<1> QED BY <1>1, <1>2, <1>11, <1>12 DEF Ledger, Passes, Reading, ActiveRules

LEMMA ReducedLedger ==
    ASSUME Ledger, Reduced
    PROVE  Ledger'
<1>1. pass = "success" /\ pos > Len(lines) /\ Enter(After("success"), Flushed)
    BY DEF Reduced
<1>2. Faithful(Flushed) /\ NoTwins(Flushed) /\ Singles(Flushed) /\ NoRules(Flushed)
      /\ UpTo(Flushed, Len(Flushed)) = pos - 1
    BY <1>1, FlushedBooks
<1>3. pos - 1 = Len(clean) /\ clean \in Seq(DOMAIN Line)
    BY <1>1, SuccessLines
<1>4. Len(clean) = 1 => Len(input.original) = 1
    BY <1>1 DEF Ledger, Passes
<1>. DEFINE text == Flushed
<1>5. Handed(text) /\ NoTwins(text) /\ Singles(text) /\ NoRules(text) /\ Enter(After("success"), text)
    BY <1>1, <1>2, <1>3 DEF Handed
<1>. HIDE DEF text
<1> QED BY <1>3, <1>4, <1>5, EnterLedger

(* groupLogs joins lines with one key, and a critical line has none.       *)
LEMMA GroupLogsLedger ==
    ASSUME Ledger, Marked, GroupLogs
    PROVE  Ledger'
<1>. DEFINE alike == {x \in DOMAIN lines : LogKey(pos) # "" /\ LogKey(x) = LogKey(pos)}
            end   == RunEnd(pos, alike)
            n     == end - pos + 1
            l     == IF n = 1 THEN lines[pos] ELSE Group(lines[pos].text, lines[end].text, n)
<1>1. /\ pass = "logs" /\ pos <= Len(lines) /\ out' = Append(out, l) /\ pos' = end + 1
      /\ UNCHANGED <<input, context, pass, clean, lines, count>>
    BY DEF GroupLogs
<1>2. /\ InReading /\ clean \in Seq(DOMAIN Line) /\ out \in Seq(OutputLine)
      /\ Len(lines) = Len(clean) /\ Len(lines) \in Nat /\ pos \in Nat \ {0}
      /\ \A p \in 0..Len(lines) : UpTo(lines, p) = p
      /\ \A p \in 1..Len(lines) : /\ lines[p] = Kept(clean[p]) /\ clean[p] \in DOMAIN Line
                                   /\ lines[p].text = clean[p]
      /\ UpTo(out, Len(out)) + count * RecordLines = pos - 1 /\ UpTo(out, Len(out)) \in Nat
    BY <1>1, FirstPassLines
<1>3. InLogs /\ count = 0
    BY <1>1, <1>2 DEF Ledger, InReading
<1>4. UpTo(out, Len(out)) = pos - 1
    <2>1. 0 * RecordLines = 0
        BY DEF RecordLines
    <2> QED BY <1>2, <1>3, <2>1
<1>5. pos \in 1..Len(lines) /\ IsSeq(lines) /\ alike \in SUBSET (DOMAIN lines)
    <2>1. pos \in Nat \ {0} /\ Len(lines) \in Nat /\ pos <= Len(lines)
        BY <1>1, <1>2
    <2>2. pos \in 1..Len(lines)
        <3>. HIDE DEF alike, end, n, l
        <3> QED BY <2>1
    <2> QED BY <2>2 DEF Marked
<1>6. ASSUME NEW x \in alike PROVE LogKey(pos) # "" /\ LogKey(x) = LogKey(pos)
    OBVIOUS
<1>. HIDE DEF alike
<1>7. end \in pos..Len(lines) /\ pos + 1..end \subseteq alike
    BY <1>5, RunEnds
<1>. HIDE DEF end
<1>8. n \in Nat \ {0} /\ end = pos - 1 + n /\ pos' \in 1..Len(lines) + 1
    BY <1>1, <1>2, <1>7
<1>9. /\ lines[pos] = Kept(clean[pos]) /\ clean[pos] \in DOMAIN Line /\ lines[pos].text = clean[pos]
    BY <1>2, <1>5
<1>10. \A k \in DOMAIN lines : LogKey(k) # "" => ~Line[lines[k].text].critical
    BY DEF LogKey, Attributes
<1>11. /\ l \in OutputLine /\ IsText(l) /\ l.times = 1 /\ StandsFor(l) = n /\ Speaks(l, pos - 1)
    <2>1. CASE n = 1
        <3>1. l = Kept(clean[pos])
            BY <1>9, <2>1
        <3>2. /\ l \in OutputLine /\ IsText(l) /\ StandsFor(l) = 1
              /\ l.mark = "line" /\ l.n = 1 /\ l.times = 1 /\ l.text = clean[pos]
            BY <1>9, <3>1, KeptIs
        <3>. HIDE DEF l
        <3>3. \A k \in (pos - 1) + 1..(pos - 1) + 1 : k = pos
            BY <1>2
        <3> QED BY <2>1, <3>2, <3>3 DEF Speaks
    <2>2. CASE n # 1
        <3>0. end \in 1..Len(lines) /\ lines[end].text \in DOMAIN Line
            BY <1>2, <1>5, <1>7
        <3>1. l = Group(clean[pos], lines[end].text, n)
            BY <1>9, <2>2
        <3>2. /\ l \in OutputLine /\ IsText(l) /\ StandsFor(l) = n * 1
              /\ l.mark = "group" /\ l.times = 1
            BY <1>8, <1>9, <3>0, <3>1 DEF Group, OutputLine, IsText, StandsFor
        <3>. HIDE DEF l
        <3>3. LogKey(pos) # ""
            <4>1. pos + 1 \in pos + 1..end
                BY <1>2, <1>7, <1>8, <2>2
            <4> QED BY <1>6, <1>7, <4>1
        <3>4. ASSUME NEW k \in pos..end PROVE ~Guarded(clean[k])
            <4>1. k \in 1..Len(lines) /\ k \in DOMAIN lines
                BY <1>2, <1>7, SeqDomain, <1>5
            <4>2. LogKey(k) # ""
                <5>1. k = pos \/ k \in pos + 1..end
                    BY <1>2, <1>7
                <5> QED BY <1>6, <1>7, <3>3, <5>1
            <4>3. ~Line[clean[k]].critical
                BY <1>2, <1>10, <4>1, <4>2
            <4> QED BY <4>3 DEF Guarded
        <3>5. StandsFor(l) = n /\ (pos - 1) + 1 = pos /\ (pos - 1) + n = end
            BY <1>2, <1>8, <3>2
        <3> QED BY <1>3, <3>2, <3>4, <3>5 DEF Speaks, InLogs
    <2> QED BY <2>1, <2>2
<1>. HIDE DEF l, n
<1>12. /\ Faithful(out') /\ Len(out') = Len(out) + 1
       /\ UpTo(out', Len(out) + 1) = (pos - 1) + n
    <2>1. Faithful(out)
        BY <1>2 DEF InReading
    <2> QED BY <1>1, <1>4, <1>11, <2>1, AppendFaithful
<1>13. /\ Singles(out') /\ NoTwins(out') /\ out' # <<>>
       /\ \A p \in DOMAIN out' : IsText(out'[p])
    <2>1. Singles(out) /\ NoTwins(out) /\ \A p \in DOMAIN out : IsText(out[p])
        BY <1>1, <1>2, <1>3 DEF InReading, InLogs
    <2>2. Singles(out') /\ NoTwins(out')
        BY <1>1, <1>2, <1>11, <2>1, AppendShape
    <2>3. \A p \in DOMAIN out' : p = Len(out) + 1 \/ (p \in DOMAIN out /\ out'[p] = out[p])
        BY <1>1, <1>2, <1>11
    <2>4. out'[Len(out) + 1] = l
        BY <1>1, <1>2, <1>11
    <2> QED BY <1>1, <1>2, <1>11, <2>1, <2>2, <2>3, <2>4, AppendShape
<1>14. InReading'
    <2>1. UpTo(out, Len(out))' = UpTo(out', Len(out')) /\ UpTo(lines, pos - 1)' = UpTo(lines, pos' - 1)
          /\ RecordLines' = RecordLines
        BY <1>1, StillSaid
    <2>2. Handed(lines)' /\ Faithful(out)'
        BY <1>1, <1>2, <1>12, StillSaid DEF InReading
    <2>3. NoTwins(lines)' /\ Singles(lines)' /\ NoTwins(out)' /\ Singles(out)'
        BY <1>1, <1>2, <1>13 DEF InReading, NoTwins, Singles
    <2>4. count' * RecordLines = 0 /\ count' = 0
        BY <1>1, <1>3 DEF RecordLines
    <2>5. UpTo(lines, pos' - 1) = pos' - 1 /\ (pos - 1) + n = pos' - 1
        BY <1>1, <1>2, <1>7, <1>8
    <2>6. UpTo(out, Len(out))' + count' * RecordLines' = UpTo(lines, pos - 1)'
        <3>1. UpTo(out', Len(out')) = pos' - 1
            BY <1>12, <2>5
        <3>2. pos' - 1 \in Nat
            <4>1. \A z \in 1..Len(lines) + 1 : z - 1 \in Nat
                BY <1>2
            <4> QED BY <4>1, <1>8
        <3>3. UpTo(out', Len(out')) + 0 = UpTo(lines, pos' - 1)
            BY <2>5, <3>1, <3>2
        <3> QED BY <2>1, <2>4, <3>3
    <2> QED BY <1>1, <1>8, <2>2, <2>3, <2>4, <2>6 DEF InReading
<1>15. InLogs'
    <2>1. Verbatim(lines)' /\ UNCHANGED SuccessReducer
        BY <1>1, <1>3, StillSaid DEF InLogs
    <2>2. \A p \in DOMAIN out' : IsText(out[p])'
        BY <1>13 DEF IsText
    <2> QED BY <1>3, <2>1, <2>2 DEF InLogs
<1> QED BY <1>1, <1>2, <1>14, <1>15 DEF Ledger, Passes, Reading, ActiveRules

LEMMA LogsGroupedLedger ==
    ASSUME Ledger, LogsGrouped
    PROVE  Ledger'
<1>1. pass = "logs" /\ pos > Len(lines) /\ Enter(After("logs"), out)
    BY DEF LogsGrouped
<1>2. InReading /\ InLogs /\ count = 0
    BY <1>1 DEF Ledger, Reading, InReading
<1>3. pos - 1 = Len(clean) /\ clean \in Seq(DOMAIN Line) /\ UpTo(out, Len(out)) = pos - 1
    <2>1. 0 * RecordLines = 0
        BY DEF RecordLines
    <2>2. UpTo(out, Len(out)) + count * RecordLines = pos - 1 /\ UpTo(out, Len(out)) \in Nat
        BY <1>1, FirstPassLines
    <2> QED BY <1>1, <1>2, <2>1, <2>2, FirstPassLines
<1>4. Len(clean) = 1 => Len(input.original) = 1
    BY <1>1 DEF Ledger, Passes
<1>5. Handed(out) /\ NoTwins(out) /\ Singles(out) /\ NoRules(out)
    BY <1>1, <1>2, <1>3 DEF Handed, InReading, InLogs, NoRules, IsText
<1>. DEFINE text == out
<1>6. Handed(text) /\ NoTwins(text) /\ Singles(text) /\ NoRules(text) /\ Enter(After("logs"), text)
    BY <1>1, <1>5
<1>. HIDE DEF text
<1> QED BY <1>3, <1>4, <1>6, EnterLedger

-----------------------------------------------------------------------------
(* The lines that lines a to e of s stand for, one by one and together.    *)
LEMMA Stretch ==
    ASSUME NEW s, Faithful(s), NEW a \in 1..Len(s), NEW e \in a..Len(s),
           NEW k \in UpTo(s, a - 1) + 1..UpTo(s, e)
    PROVE  \E p \in a..e : /\ UpTo(s, p - 1) < k /\ k <= UpTo(s, p)
                            /\ k \in UpTo(s, p - 1) + 1..UpTo(s, p - 1) + StandsFor(s[p])
                            /\ Speaks(s[p], UpTo(s, p - 1))
<1>1. s \in Seq(OutputLine) /\ DOMAIN s = 1..Len(s) /\ Len(s) \in Nat
    BY DEF Faithful
<1>2. /\ \A p \in 0..Len(s) : UpTo(s, p) \in Nat
      /\ \A p \in 0..Len(s) : \A q \in p..Len(s) : UpTo(s, p) <= UpTo(s, q)
    BY <1>1, Tallied
<1>3. k \in 1..UpTo(s, Len(s))
    <2>1. UpTo(s, e) <= UpTo(s, Len(s)) /\ UpTo(s, e) \in Nat
          /\ UpTo(s, Len(s)) \in Nat /\ UpTo(s, a - 1) \in Nat
        BY <1>1, <1>2
    <2> QED BY <2>1
<1>4. PICK p \in 1..Len(s) : UpTo(s, p - 1) < k /\ k <= UpTo(s, p)
    BY <1>1, <1>3, Covered
<1>5. /\ UpTo(s, p - 1) \in Nat /\ UpTo(s, p) \in Nat /\ UpTo(s, a - 1) \in Nat /\ UpTo(s, e) \in Nat
    BY <1>1, <1>2
<1>6. p >= a
    <2>1. ASSUME p < a PROVE FALSE
        <3>1. UpTo(s, p) <= UpTo(s, a - 1)
            BY <1>1, <1>2, <2>1
        <3> QED BY <1>4, <1>5, <3>1
    <2> QED BY <2>1
<1>7. p <= e
    <2>1. ASSUME p > e PROVE FALSE
        <3>1. UpTo(s, e) <= UpTo(s, p - 1)
            BY <1>1, <1>2, <2>1
        <3> QED BY <1>4, <1>5, <3>1
    <2> QED BY <2>1
<1>8. UpTo(s, p) = UpTo(s, p - 1) + StandsFor(s[p]) /\ StandsFor(s[p]) \in Nat
    BY <1>1, Tallied
<1>9. k \in UpTo(s, p - 1) + 1..UpTo(s, p - 1) + StandsFor(s[p])
    BY <1>4, <1>5, <1>8
<1>10. Speaks(s[p], UpTo(s, p - 1))
    BY <1>1 DEF Faithful
<1> QED BY <1>4, <1>6, <1>7, <1>9, <1>10

(* Each line stands for one line of the text at least.                     *)
LEMMA AtLeast ==
    ASSUME NEW s \in Seq(OutputLine), NEW a \in 0..Len(s), NEW e \in a..Len(s)
    PROVE  UpTo(s, a) + (e - a) <= UpTo(s, e)
<1>1. /\ Len(s) \in Nat /\ \A p \in 0..Len(s) : UpTo(s, p) \in Nat
      /\ \A p \in 1..Len(s) : UpTo(s, p) = UpTo(s, p - 1) + StandsFor(s[p]) /\ StandsFor(s[p]) \in Nat \ {0}
    BY Tallied
<1>. DEFINE I == {d \in Nat : a + d <= Len(s) => UpTo(s, a) + d <= UpTo(s, a + d)}
<1>2. 0 \in I
    BY <1>1
<1>3. ASSUME NEW d \in I PROVE d + 1 \in I
    <2>1. ASSUME a + (d + 1) <= Len(s) PROVE UpTo(s, a) + (d + 1) <= UpTo(s, a + (d + 1))
        <3>. DEFINE p == a + (d + 1)
        <3>1. p \in 1..Len(s) /\ p - 1 = a + d /\ p \in 0..Len(s) /\ a + d \in 0..Len(s)
            BY <1>1, <2>1
        <3>2. UpTo(s, a) + d <= UpTo(s, a + d)
            BY <1>1, <2>1
        <3>. HIDE DEF p
        <3>3. /\ UpTo(s, p) = UpTo(s, a + d) + StandsFor(s[p]) /\ StandsFor(s[p]) \in Nat \ {0}
              /\ UpTo(s, a + d) \in Nat /\ UpTo(s, a) \in Nat
            BY <1>1, <3>1
        <3>4. UpTo(s, a) + (d + 1) <= UpTo(s, p)
            BY <3>2, <3>3
        <3> QED BY <3>4 DEF p
    <2> QED BY <2>1
<1>4. I = Nat
    <2>. HIDE DEF I
    <2>1. I \in SUBSET Nat
        BY DEF I
    <2> QED BY <1>2, <1>3, <2>1, Upwards
<1>5. e - a \in I /\ a + (e - a) = e /\ a + (e - a) <= Len(s)
    <2>1. e - a \in Nat /\ a + (e - a) = e /\ a + (e - a) <= Len(s)
        BY <1>1
    <2>. HIDE DEF I
    <2> QED BY <1>4, <2>1
<1> QED BY <1>1, <1>5

LEMMA Uniform ==
    ASSUME NEW s \in Seq(OutputLine), NEW a \in 1..Len(s), NEW e \in a..Len(s), NEW m \in Nat,
           \A x \in a..e : StandsFor(s[x]) = m
    PROVE  UpTo(s, e) = UpTo(s, a - 1) + m * (e - a + 1)
<1>1. Weight \in [OutputLine -> Nat] /\ \A x \in a..e : Weight[s[x]] = m
    BY Weighs
<1> QED BY <1>1, TallyUniform DEF UpTo

(* A pass that has written on for the lines it has read.                   *)
LEMMA WriteReading ==
    ASSUME Ledger, pass \in {"logs", "rules", "repeats"},
           UNCHANGED <<input, context, pass, clean, lines, count>>,
           pos' \in 1..Len(lines) + 1, Faithful(out'), UpTo(out', Len(out')) = UpTo(lines, pos' - 1),
           pass # "repeats" => NoTwins(out') /\ Singles(out')
    PROVE  InReading'
<1>1. InReading /\ count = 0 /\ lines \in Seq(OutputLine)
    BY DEF Ledger, Reading, InReading, Handed, Faithful
<1>2. UpTo(out, Len(out))' = UpTo(out', Len(out')) /\ UpTo(lines, pos - 1)' = UpTo(lines, pos' - 1)
    BY StillSaid
<1>3. Handed(lines)' /\ Faithful(out)'
    BY <1>1, StillSaid DEF InReading
<1>4. NoTwins(lines)' /\ Singles(lines)'
    BY <1>1 DEF InReading, NoTwins, Singles
<1>5. pass' # "repeats" => NoTwins(out)' /\ Singles(out)'
    BY DEF NoTwins, Singles
<1>6. count' * RecordLines' = 0 /\ count' = 0
    BY <1>1 DEF RecordLines
<1>7. UpTo(lines, pos' - 1) \in Nat
    <2>1. pos' - 1 \in 0..Len(lines) /\ Len(lines) \in Nat
        <3>1. Len(lines) \in Nat
            BY <1>1
        <3>2. \A z \in 1..Len(lines) + 1 : z - 1 \in 0..Len(lines)
            BY <3>1
        <3> QED BY <3>1, <3>2
    <2> QED BY <1>1, <2>1, Tallied
<1>8. UpTo(out, Len(out))' + count' * RecordLines' = UpTo(lines, pos - 1)'
    BY <1>2, <1>6, <1>7
<1> QED BY <1>3, <1>4, <1>5, <1>6, <1>8 DEF InReading

(* What the passes over output lines have read and written.                *)
LEMMA ReadingLines ==
    ASSUME Ledger, pass \in {"logs", "rules", "repeats"}
    PROVE  /\ InReading /\ clean \in Seq(DOMAIN Line)
           /\ Faithful(lines) /\ lines \in Seq(OutputLine) /\ NoTwins(lines) /\ Singles(lines)
           /\ Faithful(out) /\ out \in Seq(OutputLine)
           /\ Len(lines) \in Nat /\ count = 0 /\ pos \in Nat \ {0} /\ pos - 1 \in 0..Len(lines)
           /\ DOMAIN lines = 1..Len(lines)
           /\ \A p \in 0..Len(lines) : UpTo(lines, p) \in Nat
           /\ UpTo(lines, Len(lines)) = Len(clean)
           /\ UpTo(out, Len(out)) = UpTo(lines, pos - 1)
<1>1. InReading /\ clean \in Seq(DOMAIN Line) /\ count = 0
    BY DEF Ledger, Passes, Reading, InReading
<1>2. /\ Faithful(lines) /\ lines \in Seq(OutputLine) /\ NoTwins(lines) /\ Singles(lines)
      /\ Faithful(out) /\ out \in Seq(OutputLine) /\ UpTo(lines, Len(lines)) = Len(clean)
    BY <1>1 DEF InReading, Handed, Faithful
<1>3. Len(lines) \in Nat /\ pos \in Nat \ {0} /\ pos - 1 \in 0..Len(lines) /\ DOMAIN lines = 1..Len(lines)
    BY <1>1, <1>2 DEF InReading
<1>4. /\ \A p \in 0..Len(lines) : UpTo(lines, p) \in Nat
      /\ UpTo(out, Len(out)) \in Nat
    BY <1>2, Tallied
<1>5. UpTo(out, Len(out)) = UpTo(lines, pos - 1)
    <2>1. 0 * RecordLines = 0
        BY DEF RecordLines
    <2>2. UpTo(out, Len(out)) + 0 * RecordLines = UpTo(lines, pos - 1)
        BY <1>1 DEF InReading
    <2> QED BY <1>4, <2>1, <2>2
<1> QED BY <1>1, <1>2, <1>3, <1>4, <1>5

-----------------------------------------------------------------------------
(* A line that the rules leave alone.                                      *)
LEMMA PassByLedger ==
    ASSUME Ledger, PassBy
    PROVE  Ledger'
<1>. DEFINE l == lines[pos]  b == UpTo(lines, pos - 1)
<1>1. /\ pass = "rules" /\ pos <= Len(lines) /\ diagnostic' = (diagnostic \/ IsDiagnostic(l))
      /\ out' = Append(out, l) /\ pos' = pos + 1
      /\ UNCHANGED <<input, context, pass, clean, lines, count>>
    BY DEF PassBy
<1>2. /\ clean \in Seq(DOMAIN Line)
      /\ Faithful(lines) /\ lines \in Seq(OutputLine) /\ NoTwins(lines) /\ Singles(lines)
      /\ Faithful(out) /\ out \in Seq(OutputLine)
      /\ Len(lines) \in Nat /\ pos \in Nat \ {0} /\ DOMAIN lines = 1..Len(lines)
      /\ UpTo(out, Len(out)) = b
    BY <1>1, ReadingLines
<1>3. InReading /\ InRules
    BY <1>1 DEF Ledger, Reading
<1>4. NoTwins(out) /\ Singles(out)
    BY <1>1, <1>3 DEF InReading
<1>5. pos \in 1..Len(lines) /\ pos \in DOMAIN lines /\ pos' \in 1..Len(lines) + 1
    BY <1>1, <1>2
<1>6. /\ l \in OutputLine /\ l.times = 1 /\ l.mark # "rule" /\ Speaks(l, b)
      /\ UpTo(lines, pos) = b + StandsFor(l) /\ b \in Nat
    <2>1. UpTo(lines, pos) = b + StandsFor(l)
        BY <1>2, <1>5, Tallied
    <2>2. b \in Nat
        BY <1>1, ReadingLines
    <2> QED BY <1>2, <1>3, <1>5, <2>1, <2>2 DEF Faithful, Singles, InRules, NoRules
<1>7. out # <<>> /\ out[Len(out)] = l => IsText(l)
    <2> SUFFICES ASSUME out # <<>>, out[Len(out)] = l PROVE IsText(l)
        OBVIOUS
    <2>1. pos > 1 /\ l = lines[pos - 1]
        BY <1>3, <1>6 DEF InRules
    <2>2. pos - 1 \in DOMAIN lines /\ (pos - 1) + 1 = pos
        BY <1>2, <1>5, <2>1
    <2> QED BY <1>2, <1>5, <2>1, <2>2 DEF NoTwins
<1>8. ~diagnostic' /\ SuccessReducer # "logs" => Calm(UpTo(lines, pos))
    <2> SUFFICES ASSUME ~diagnostic', SuccessReducer # "logs" PROVE Calm(UpTo(lines, pos))
        OBVIOUS
    <2>1. ~diagnostic /\ ~IsDiagnostic(l)
        BY <1>1, Zenon
    <2>2. CASE l.mark # "line"
        BY <1>6, <2>2 DEF Speaks
    <2>3. CASE l.mark = "line"
        <3>1. l.n = 1 /\ StandsFor(l) = 1
            BY <1>6, <2>3 DEF Speaks, StandsFor
        <3>2. clean[b + 1] = l.text /\ l.text \in DOMAIN Line
            BY <1>6, <2>3, <3>1 DEF Speaks, OutputLine
        <3>3. ~Line[l.text].diagnostic
            BY <2>1, <2>3 DEF IsDiagnostic, IsText
        <3>4. ~Alarm(clean[b + 1])
            BY <3>2, <3>3, LineAssumption DEF Alarm, Guarded
        <3>5. Calm(b)
            BY <1>3, <2>1 DEF InRules
        <3>6. \A k \in 1..b + 1 : k \in 1..b \/ k = b + 1
            BY <1>6
        <3>7. UpTo(lines, pos) = b + 1
            BY <1>6, <3>1
        <3> QED BY <3>4, <3>5, <3>6, <3>7 DEF Calm
    <2> QED BY <2>2, <2>3
<1>. HIDE DEF l
<1>9. Faithful(out') /\ UpTo(out', Len(out')) = UpTo(lines, pos)
    BY <1>1, <1>2, <1>6, AppendFaithful
<1>10. Singles(out') /\ NoTwins(out') /\ out' # <<>> /\ out'[Len(out')] = l
    BY <1>1, <1>2, <1>4, <1>6, <1>7, AppendShape
<1>11. pos' - 1 = pos
    BY <1>1, <1>2
<1>12. InReading'
    BY <1>1, <1>5, <1>9, <1>10, <1>11, WriteReading
<1>13. InRules'
    <2>1. NoRules(lines)'
        BY <1>1, <1>3 DEF InRules, NoRules
    <2>2. (Calm(UpTo(lines, pos - 1))' <=> Calm(UpTo(lines, pos))) /\ UNCHANGED SuccessReducer
        BY <1>1, <1>11, StillSaid
    <2>3. pos' > 1 /\ out'[Len(out')] = lines'[pos' - 1]
        BY <1>1, <1>2, <1>10, <1>11 DEF l
    <2> QED BY <1>8, <2>1, <2>2, <2>3 DEF InRules
<1> QED BY <1>1, <1>2, <1>12, <1>13 DEF Ledger, Passes, Reading, ActiveRules

(* The owner of a line has a key for it.                                   *)
LEMMA OwnerIs ==
    ASSUME Ledger, NEW k, Owner(k) # 0
    PROVE  Owner(k) \in DOMAIN ActiveRules /\ KeyOf(ActiveRules[Owner(k)], lines[k]) # NoKey
           /\ ActiveRules[Owner(k)].name \in DOMAIN Match
<1>. DEFINE keyed == {r \in DOMAIN ActiveRules : KeyOf(ActiveRules[r], lines[k]) # NoKey}
<1>1. ActiveRules \in Seq(ToSet(input.specs))
    BY DEF Ledger
<1>2. keyed \in SUBSET Nat
    BY <1>1
<1>3. keyed # {} /\ Owner(k) = Min(keyed)
    BY DEF Owner
<1>4. Min(keyed) \in keyed
    <2>. HIDE DEF keyed
    <2> QED BY <1>2, <1>3, Least
<1>5. Owner(k) \in DOMAIN ActiveRules /\ KeyOf(ActiveRules[Owner(k)], lines[k]) # NoKey
    BY <1>3, <1>4
<1>6. \A r \in ToSet(input.specs) : r.name \in DOMAIN Match
    BY DEF Ledger, ToSet
<1> QED BY <1>1, <1>5, <1>6

(* The lines that a rule joins are lines of the text, each for itself, or  *)
(* groups of log lines, and none of them a diagnostic.                     *)
LEMMA GroupIs ==
    ASSUME Ledger, pass = "rules", pos <= Len(lines), Saves
    PROVE  /\ GroupEnd \in pos + 1..Len(lines) /\ pos \in 1..Len(lines)
           /\ ActiveRules[Owner(pos)].name \in DOMAIN Match
           /\ ~diagnostic
           /\ \A x \in pos..GroupEnd : /\ IsText(lines[x]) /\ ~IsDiagnostic(lines[x])
                                       /\ ~Protected(lines[x]) /\ ~IsBlank(lines[x])
                                       /\ KeyOf(ActiveRules[Owner(pos)], lines[x])
                                            = KeyOf(ActiveRules[Owner(pos)], lines[pos])
                                       /\ KeyOf(ActiveRules[Owner(pos)], lines[x]) # NoKey
                                       /\ lines[x].times = 1
                                       /\ SuccessReducer # "logs" => StandsFor(lines[x]) = 1
                                       /\ \A k \in UpTo(lines, x - 1) + 1
                                                    ..UpTo(lines, x - 1) + StandsFor(lines[x]) :
                                            ~Guarded(clean[k])
<1>. DEFINE r == ActiveRules[Owner(pos)]
            group == {x \in DOMAIN lines : /\ ~IsBlank(lines[x]) /\ ~Protected(lines[x])
                                            /\ KeyOf(r, lines[x]) = KeyOf(r, lines[pos])}
<1>1. /\ ~diagnostic /\ ~IsDiagnostic(lines[pos]) /\ ~IsBlank(lines[pos]) /\ ~IsTagged(lines[pos])
      /\ Owner(pos) # 0 /\ GroupEnd > pos
    BY Zenon DEF Saves, Untouched
<1>2. /\ Faithful(lines) /\ lines \in Seq(OutputLine) /\ Singles(lines)
      /\ Len(lines) \in Nat /\ pos \in Nat \ {0} /\ DOMAIN lines = 1..Len(lines)
    BY ReadingLines
<1>3. pos \in 1..Len(lines)
    <2>. HIDE DEF r, group
    <2> QED BY <1>2
<1>4. GroupEnd = RunEnd(pos, group)
    BY DEF GroupEnd
<1>5. group \in SUBSET (DOMAIN lines) /\ IsSeq(lines)
    <2>1. IsSeq(lines)
        BY <1>2 DEF IsSeq
    <2> QED BY <2>1
<1>6. \A x \in group : ~IsBlank(lines[x]) /\ ~Protected(lines[x]) /\ KeyOf(r, lines[x]) = KeyOf(r, lines[pos])
    OBVIOUS
<1>. HIDE DEF group
<1>7. GroupEnd \in pos..Len(lines) /\ pos + 1..GroupEnd \subseteq group
    BY <1>3, <1>4, <1>5, RunEnds
<1>8. KeyOf(r, lines[pos]) # NoKey /\ r.name \in DOMAIN Match
    BY <1>1, OwnerIs
<1>. HIDE DEF r
<1>9. GroupEnd \in pos + 1..Len(lines)
    BY <1>1, <1>2, <1>7
<1>10. ASSUME NEW x \in pos..GroupEnd
       PROVE  /\ IsText(lines[x]) /\ ~IsDiagnostic(lines[x])
              /\ ~Protected(lines[x]) /\ ~IsBlank(lines[x])
              /\ KeyOf(r, lines[x]) = KeyOf(r, lines[pos])
              /\ lines[x].times = 1
              /\ SuccessReducer # "logs" => StandsFor(lines[x]) = 1
              /\ \A k \in UpTo(lines, x - 1) + 1..UpTo(lines, x - 1) + StandsFor(lines[x]) :
                   ~Guarded(clean[k])
    <2>1. x \in 1..Len(lines) /\ (x = pos \/ x \in pos + 1..GroupEnd)
        BY <1>2, <1>7
    <2>2. KeyOf(r, lines[x]) = KeyOf(r, lines[pos]) /\ ~Protected(lines[x]) /\ ~IsBlank(lines[x])
        BY <1>1, <1>6, <1>7, <2>1 DEF Protected
    <2>3. IsText(lines[x])
        BY <1>8, <2>2 DEF KeyOf
    <2>4. lines[x] \in OutputLine /\ lines[x].times = 1 /\ Speaks(lines[x], UpTo(lines, x - 1))
        BY <1>2, <2>1 DEF Singles, Faithful
    <2>5. lines[x].mark = "line" => lines[x].n = 1 /\ StandsFor(lines[x]) = 1 /\ lines[x].text \in DOMAIN Line
        BY <2>4 DEF Speaks, StandsFor, OutputLine
    <2>6. ~Line[lines[x].text].diagnostic
        BY <2>2, <2>3 DEF Protected, IsDiagnostic
    <2>7. lines[x].mark = "line" => ~Guarded(lines[x].text)
        BY <2>5, <2>6, LineAssumption DEF Guarded
    <2>8. SuccessReducer # "logs" => lines[x].mark = "line"
        BY <2>3, <2>4 DEF IsText, Speaks
    <2>9. ASSUME NEW k \in UpTo(lines, x - 1) + 1..UpTo(lines, x - 1) + StandsFor(lines[x])
          PROVE  ~Guarded(clean[k])
        BY <2>4, <2>7 DEF Speaks
    <2> QED BY <2>2, <2>3, <2>4, <2>5, <2>8, <2>9 DEF Protected
<1> QED BY <1>1, <1>3, <1>8, <1>9, <1>10 DEF r

LEMMA AggregateLedger ==
    ASSUME Ledger, Aggregate
    PROVE  Ledger'
<1>. DEFINE end == GroupEnd  n == GroupEnd - pos + 1  name == ActiveRules[Owner(pos)].name
            behind == LinesOf(SubSeq(lines, 1, GroupEnd)) - LinesOf(SubSeq(lines, 1, pos))
            l == lines[pos]  m == RuleMark(name, n, behind)  b == UpTo(lines, pos - 1)
<1>1. /\ pass = "rules" /\ pos <= Len(lines) /\ Saves
      /\ out' = out \o <<l, m>> /\ pos' = end + 1
      /\ UNCHANGED <<input, context, pass, clean, lines, count, diagnostic>>
    BY DEF Aggregate
<1>2. /\ clean \in Seq(DOMAIN Line)
      /\ Faithful(lines) /\ lines \in Seq(OutputLine)
      /\ Faithful(out) /\ out \in Seq(OutputLine)
      /\ Len(lines) \in Nat /\ pos \in Nat \ {0} /\ DOMAIN lines = 1..Len(lines)
      /\ UpTo(out, Len(out)) = b
    BY <1>1, ReadingLines
<1>3. InReading /\ InRules /\ NoTwins(out) /\ Singles(out)
    BY <1>1 DEF Ledger, Reading, InReading
<1>4. /\ end \in pos + 1..Len(lines) /\ pos \in 1..Len(lines) /\ name \in DOMAIN Match /\ ~diagnostic
      /\ \A x \in pos..end : /\ IsText(lines[x]) /\ lines[x].times = 1
                             /\ SuccessReducer # "logs" => StandsFor(lines[x]) = 1
                             /\ \A k \in UpTo(lines, x - 1) + 1..UpTo(lines, x - 1) + StandsFor(lines[x]) :
                                  ~Guarded(clean[k])
    BY <1>1, GroupIs
<1>. HIDE DEF end, name, behind
<1>5. n \in Nat \ {0, 1} /\ pos' \in 1..Len(lines) + 1 /\ pos' - 1 = end
    <2>1. n = end - pos + 1
        BY DEF end
    <2> QED BY <1>1, <1>2, <1>4, <2>1
<1>6. /\ b \in Nat /\ UpTo(lines, pos) = b + StandsFor(l) /\ StandsFor(l) \in Nat \ {0}
      /\ UpTo(lines, end) \in Nat /\ UpTo(lines, pos) \in Nat
      /\ behind = UpTo(lines, end) - UpTo(lines, pos)
      /\ n - 1 <= behind /\ behind \in Nat \ {0}
      /\ SuccessReducer # "logs" => n - 1 = behind
    <2>1. b \in Nat
        BY <1>1, ReadingLines
    <2>2. end \in pos..Len(lines) /\ end \in 0..Len(lines) /\ pos \in 0..Len(lines)
        BY <1>2, <1>4
    <2>3. behind = UpTo(lines, end) - UpTo(lines, pos)
        BY <1>2, <2>2, LinesOfIs DEF behind, end
    <2>4. UpTo(lines, pos) = b + StandsFor(l) /\ StandsFor(l) \in Nat \ {0}
          /\ UpTo(lines, end) \in Nat /\ UpTo(lines, pos) \in Nat
        BY <1>2, <1>4, <2>2, Tallied
    <2>5. UpTo(lines, pos) + (end - pos) <= UpTo(lines, end)
        BY <1>2, <1>4, <2>2, AtLeast
    <2>6. n - 1 = end - pos /\ n - 1 \in Nat \ {0}
        BY <1>2, <1>4, <1>5 DEF end
    <2>7. n - 1 <= behind /\ behind \in Nat \ {0}
        <3>. DEFINE d == end - pos  v == UpTo(lines, pos)  w == UpTo(lines, end)
        <3>1. d \in Nat \ {0} /\ n - 1 = d
            BY <2>6
        <3>2. v \in Nat /\ w \in Nat /\ v + d <= w /\ behind = w - v
            BY <2>3, <2>4, <2>5
        <3>. HIDE DEF n, b, d, v, w
        <3> QED BY <3>1, <3>2
    <2>8. ASSUME SuccessReducer # "logs" PROVE n - 1 = behind
        <3>1. \A x \in pos..end : StandsFor(lines[x]) = 1
            BY <1>4, <2>8
        <3>2. UpTo(lines, end) = b + 1 * (end - pos + 1)
            BY <1>2, <1>4, <2>2, <3>1, Uniform
        <3>3. pos \in pos..end
            BY <1>2, <1>4
        <3>4. StandsFor(l) = 1
            BY <3>1, <3>3
        <3>. HIDE DEF n, b
        <3> QED BY <1>2, <1>4, <2>1, <2>3, <2>4, <2>6, <3>2, <3>4
    <2> QED BY <2>1, <2>3, <2>4, <2>7, <2>8
<1>. HIDE DEF n
<1>7. ASSUME NEW k \in b + 1..UpTo(lines, end) PROVE ~Guarded(clean[k])
    <2>1. end \in pos..Len(lines)
        BY <1>2, <1>4
    <2>2. PICK p \in pos..end : k \in UpTo(lines, p - 1) + 1..UpTo(lines, p - 1) + StandsFor(lines[p])
        BY <1>2, <1>4, <2>1, Stretch
    <2> QED BY <1>4, <2>2
<1>8. SuccessReducer # "logs" => Calm(UpTo(lines, end))
    <2>1. SuccessReducer # "logs" => Calm(b)
        BY <1>3, <1>4 DEF InRules
    <2>2. \A k \in 1..UpTo(lines, end) : k \in 1..b \/ k \in b + 1..UpTo(lines, end)
        BY <1>6
    <2> QED BY <1>7, <2>1, <2>2 DEF Calm, Alarm
<1>9. /\ l \in OutputLine /\ IsText(l) /\ l.mark # "rule" /\ l.times = 1 /\ Speaks(l, b)
    <2>1. pos \in pos..end
        BY <1>2, <1>4
    <2>2. IsText(l) /\ l.times = 1
        BY <1>4, <2>1
    <2>3. l \in OutputLine
        BY <1>2, <1>4
    <2>4. Speaks(l, b)
        <3>1. \A p \in 1..Len(lines) : Speaks(lines[p], UpTo(lines, p - 1))
            BY <1>2 DEF Faithful
        <3> QED BY <1>4, <3>1
    <2> QED BY <2>2, <2>3, <2>4 DEF IsText
<1>10. /\ m \in OutputLine /\ m.mark = "rule" /\ m.times = 1
       /\ m.n = n /\ m.behind = behind /\ StandsFor(m) = behind
    BY <1>4, <1>5, <1>6 DEF RuleMark, OutputLine, StandsFor
<1>. DEFINE v == UpTo(lines, pos)  w == UpTo(lines, end)
<1>. HIDE DEF l, m
<1>11. Speaks(m, v)
    <2>1. v + behind = w
        BY <1>6
    <2>2. \A k \in v + 1..w : k \in b + 1..w
        BY <1>6
    <2>. HIDE DEF v, w, b
    <2>3. \A k \in v + 1..w : ~Guarded(clean[k])
        BY <1>7, <2>2 DEF w
    <2>4. SuccessReducer # "logs" => Calm(w)
        BY <1>8 DEF w
    <2> QED BY <1>6, <1>10, <2>1, <2>3, <2>4 DEF Speaks
<1>. DEFINE t == Append(out, l)
<1>12. out' = Append(t, m)
    <2>1. IsSeq(out)
        BY <1>2 DEF IsSeq
    <2> QED BY <1>1, <2>1, TwoAppended
<1>13. /\ t \in Seq(OutputLine) /\ Faithful(t) /\ UpTo(t, Len(t)) = v
       /\ Singles(t) /\ NoTwins(t) /\ t[Len(t)] = l
    <2>1. /\ Faithful(t) /\ UpTo(t, Len(t)) = v
        BY <1>2, <1>6, <1>9, AppendFaithful
    <2> QED BY <1>2, <1>3, <1>9, <2>1, AppendShape DEF Faithful
<1>. HIDE DEF t
<1>14. Faithful(out') /\ UpTo(out', Len(out')) = UpTo(lines, pos' - 1)
    <2>1. Faithful(Append(t, m)) /\ UpTo(Append(t, m), Len(Append(t, m))) = v + behind
        BY <1>10, <1>11, <1>13, AppendFaithful
    <2>2. v + behind = w
        BY <1>6
    <2> QED BY <1>5, <1>6, <1>12, <2>1, <2>2
<1>15. Singles(out') /\ NoTwins(out') /\ out' # <<>> /\ out'[Len(out')] = m
    <2>1. t[Len(t)] # m
        BY <1>9, <1>10, <1>13
    <2> QED BY <1>10, <1>12, <1>13, <2>1, AppendShape
<1>16. InReading'
    BY <1>1, <1>5, <1>14, <1>15, WriteReading
<1>17. InRules'
    <2>1. NoRules(lines)'
        BY <1>1, <1>3 DEF InRules, NoRules
    <2>2. (Calm(UpTo(lines, pos - 1))' <=> Calm(UpTo(lines, end))) /\ UNCHANGED SuccessReducer
        BY <1>1, <1>5, StillSaid
    <2>3. out'[Len(out')].mark = "rule"
        BY <1>10, <1>15
    <2> QED BY <1>6, <1>8, <2>1, <2>2, <2>3 DEF InRules
<1> QED BY <1>1, <1>2, <1>16, <1>17 DEF Ledger, Passes, Reading, ActiveRules

LEMMA AggregatedLedger ==
    ASSUME Ledger, Aggregated
    PROVE  Ledger'
<1>1. pass = "rules" /\ pos > Len(lines) /\ Enter(After("rules"), out)
    BY DEF Aggregated
<1>2. /\ clean \in Seq(DOMAIN Line) /\ Faithful(out) /\ UpTo(out, Len(out)) = UpTo(lines, pos - 1)
      /\ UpTo(lines, Len(lines)) = Len(clean) /\ Len(lines) \in Nat
      /\ pos \in Nat /\ pos - 1 \in 0..Len(lines)
    BY <1>1, ReadingLines
<1>3. pos - 1 = Len(lines)
    BY <1>1, <1>2
<1>4. Len(clean) = 1 => Len(input.original) = 1
    BY <1>1 DEF Ledger, Passes
<1>5. NoTwins(out) /\ Singles(out)
    BY <1>1 DEF Ledger, Reading, InReading
<1>. DEFINE text == out
<1>6. Handed(text) /\ NoTwins(text) /\ Singles(text) /\ Enter(After("rules"), text)
    BY <1>1, <1>2, <1>3, <1>5 DEF Handed
<1>. HIDE DEF text
<1> QED BY <1>2, <1>4, <1>6, EnterLedger

-----------------------------------------------------------------------------
(* A run of equal lines becomes one, marked with their number; only lines  *)
(* of the text are ever joined.                                            *)
LEMMA RunIs ==
    ASSUME Ledger, Repeat
    PROVE  /\ pass = "repeats" /\ pos \in 1..Len(lines)
           /\ UNCHANGED <<input, context, pass, clean, lines, count, diagnostic, effects, cursor>>
           /\ \E end \in pos..Len(lines) : \E m \in OutputLine :
                /\ out' = Append(out, m) /\ pos' = end + 1
                /\ \A x \in pos..end : lines[x] = lines[pos]
                /\ end = pos \/ IsText(lines[pos])
                /\ m.mark = lines[pos].mark /\ m.text = lines[pos].text /\ m.n = lines[pos].n
                /\ m.mark = "rule" => m = lines[pos]
                /\ StandsFor(m) = StandsFor(lines[pos]) * (end - pos + 1)
<1>. DEFINE l == lines[pos]
            alike == {x \in DOMAIN lines : lines[x] = lines[pos] /\ ~IsBlank(lines[pos])}
            end == RunEnd(pos, alike)  n == end - pos + 1
            m == [l EXCEPT !.times = n]
<1>1. /\ pass = "repeats" /\ pos <= Len(lines)
      /\ out' = Append(out, m) /\ pos' = end + 1
      /\ UNCHANGED <<input, context, pass, clean, lines, count, diagnostic, effects, cursor>>
    BY DEF Repeat
<1>2. /\ lines \in Seq(OutputLine) /\ NoTwins(lines) /\ Singles(lines)
      /\ Len(lines) \in Nat /\ pos \in Nat \ {0} /\ DOMAIN lines = 1..Len(lines)
    BY <1>1, ReadingLines
<1>3. pos \in 1..Len(lines)
    <2>1. pos \in Nat \ {0} /\ Len(lines) \in Nat /\ pos <= Len(lines)
        BY <1>1, <1>2
    <2>. HIDE DEF alike, end, n, l, m
    <2> QED BY <2>1
<1>4. alike \in SUBSET (DOMAIN lines) /\ IsSeq(lines)
    <2>1. IsSeq(lines)
        BY <1>2 DEF IsSeq
    <2> QED BY <2>1
<1>5. \A x \in alike : lines[x] = l
    OBVIOUS
<1>. HIDE DEF alike
<1>6. end \in pos..Len(lines) /\ pos + 1..end \subseteq alike
    BY <1>3, <1>4, RunEnds
<1>. HIDE DEF end
<1>7. n \in Nat \ {0} /\ (n = 1 => end = pos)
    BY <1>2, <1>3, <1>6
<1>8. \A x \in pos..end : lines[x] = l
    <2>1. \A x \in pos..end : x = pos \/ x \in pos + 1..end
        BY <1>2, <1>6
    <2> QED BY <1>5, <1>6, <2>1
<1>9. l \in OutputLine /\ l.times = 1
    BY <1>2, <1>3 DEF Singles
<1>10. n # 1 => IsText(l)
    <2> SUFFICES ASSUME n # 1 PROVE IsText(l)
        OBVIOUS
    <2>1. pos + 1 \in 1..Len(lines) /\ pos + 1 \in pos..end
        BY <1>2, <1>3, <1>6, <1>7
    <2>2. lines[pos + 1] = l
        BY <1>8, <2>1
    <2> QED BY <1>2, <1>3, <2>1, <2>2 DEF NoTwins
<1>. HIDE DEF n
<1>11. m \in OutputLine /\ StandsFor(m) = StandsFor(l) * n /\ (m.mark = "rule" => m = l)
    <2>1. CASE n = 1
        <3>1. m = l
            BY <1>9, <2>1 DEF OutputLine
        <3>2. StandsFor(l) \in Nat
            BY <1>9, Weighs
        <3> QED BY <1>9, <2>1, <3>1, <3>2
    <2>2. CASE n # 1
        <3>1. IsText(l)
            BY <1>10, <2>2
        <3>2. \/ l \in [mark : {"line"}, text : DOMAIN Line, n : Nat \ {0}, times : Nat \ {0}]
              \/ l \in [mark : {"group"}, text : DOMAIN Line, last : DOMAIN Line,
                       n : Nat \ {0}, times : Nat \ {0}]
            BY <1>9, <3>1 DEF OutputLine, IsText
        <3>3. m \in OutputLine /\ m.times = n /\ m.n = l.n /\ m.mark = l.mark
            BY <1>7, <3>2 DEF OutputLine
        <3>4. StandsFor(m) = l.n * n /\ StandsFor(l) = l.n * 1 /\ l.n \in Nat
            BY <1>9, <3>1, <3>2, <3>3 DEF StandsFor, IsText
        <3>5. l.n * 1 = l.n
            BY <3>4
        <3> QED BY <3>1, <3>3, <3>4, <3>5 DEF IsText
    <2> QED BY <2>1, <2>2
<1>12. m.mark = l.mark /\ m.text = l.text /\ m.n = l.n
    BY <1>9 DEF OutputLine
<1>. HIDE DEF m, l
<1> QED BY <1>1, <1>3, <1>6, <1>7, <1>8, <1>10, <1>11, <1>12 DEF l, n

LEMMA RepeatLedger ==
    ASSUME Ledger, Repeat
    PROVE  Ledger'
<1>. DEFINE l == lines[pos]  b == UpTo(lines, pos - 1)
<1>1. /\ pass = "repeats" /\ pos \in 1..Len(lines)
      /\ UNCHANGED <<input, context, pass, clean, lines, count, diagnostic>>
    BY RunIs
<1>2. PICK end \in pos..Len(lines), m \in OutputLine :
                /\ out' = Append(out, m) /\ pos' = end + 1
                /\ \A x \in pos..end : lines[x] = l
                /\ m.mark = l.mark /\ m.text = l.text /\ m.n = l.n
                /\ m.mark = "rule" => m = l
                /\ StandsFor(m) = StandsFor(l) * (end - pos + 1)
    BY RunIs
<1>3. /\ clean \in Seq(DOMAIN Line)
      /\ Faithful(lines) /\ lines \in Seq(OutputLine)
      /\ Faithful(out) /\ out \in Seq(OutputLine)
      /\ Len(lines) \in Nat /\ pos \in Nat \ {0} /\ DOMAIN lines = 1..Len(lines)
      /\ UpTo(out, Len(out)) = b /\ b \in Nat
    BY <1>1, ReadingLines
<1>4. pos' \in 1..Len(lines) + 1 /\ pos' - 1 = end
    BY <1>1, <1>2, <1>3
<1>5. UpTo(lines, end) = b + StandsFor(m)
    <2>1. StandsFor(l) \in Nat
        BY <1>1, <1>3, Weighs
    <2>. HIDE DEF l
    <2>2. UpTo(lines, end) = b + StandsFor(l) * (end - pos + 1)
        BY <1>1, <1>2, <1>3, <2>1, Uniform
    <2> QED BY <1>2, <2>2
<1>6. Speaks(m, b)
    <2>1. ASSUME NEW k \in b + 1..UpTo(lines, end)
          PROVE  \E p \in pos..end :
                    /\ k \in UpTo(lines, p - 1) + 1..UpTo(lines, p - 1) + StandsFor(l)
                    /\ Speaks(l, UpTo(lines, p - 1))
        <3>1. \E p \in pos..end :
                 /\ k \in UpTo(lines, p - 1) + 1..UpTo(lines, p - 1) + StandsFor(lines[p])
                 /\ Speaks(lines[p], UpTo(lines, p - 1))
            BY <1>1, <1>3, Stretch
        <3> QED BY <1>2, <3>1
    <2>2. /\ Speaks(l, b) /\ Speaks(l, UpTo(lines, end - 1))
          /\ UpTo(lines, end) = UpTo(lines, end - 1) + StandsFor(l)
        <3>1. \A p \in 1..Len(lines) : /\ Speaks(lines[p], UpTo(lines, p - 1))
                                        /\ UpTo(lines, p) = UpTo(lines, p - 1) + StandsFor(lines[p])
            BY <1>3, Tallied DEF Faithful
        <3>2. end \in 1..Len(lines) /\ end \in pos..end
            BY <1>1, <1>3
        <3>3. lines[end] = l
            BY <1>2, <3>2
        <3> QED BY <1>1, <3>1, <3>2, <3>3
    <2>. HIDE DEF l, b
    <2>3. l.mark = "line" => \A k \in b + 1..UpTo(lines, end) : clean[k] = l.text
        BY <2>1 DEF Speaks
    <2>4. l.mark # "line" => \A k \in b + 1..UpTo(lines, end) : ~Guarded(clean[k])
        BY <2>1 DEF Speaks
    <2>5. l.mark # "line" /\ SuccessReducer # "logs" => Calm(UpTo(lines, end))
        BY <2>2 DEF Speaks
    <2>6. l.mark = "line" => l.n = 1
        BY <2>2 DEF Speaks
    <2>7. /\ l.mark = "group" => SuccessReducer = "logs"
          /\ l.mark = "rule" => /\ m = l /\ l.n - 1 <= l.behind
                                /\ SuccessReducer # "logs" => l.n - 1 = l.behind
        BY <1>2, <2>2 DEF Speaks
    <2> QED BY <1>2, <1>5, <2>3, <2>4, <2>5, <2>6, <2>7 DEF Speaks
<1>7. Faithful(out') /\ UpTo(out', Len(out')) = UpTo(lines, pos' - 1)
    <2>1. Faithful(Append(out, m)) /\ UpTo(Append(out, m), Len(Append(out, m))) = b + StandsFor(m)
        BY <1>3, <1>6, AppendFaithful
    <2> QED BY <1>2, <1>4, <1>5, <2>1
<1>8. InReading'
    BY <1>1, <1>4, <1>7, WriteReading
<1> QED BY <1>1, <1>3, <1>8 DEF Ledger, Passes, Reading, ActiveRules

LEMMA RepeatedLedger ==
    ASSUME Ledger, Repeated
    PROVE  Ledger'
<1>1. pass = "repeats" /\ pos > Len(lines) /\ Enter(After("repeats"), out)
    BY DEF Repeated
<1>2. /\ clean \in Seq(DOMAIN Line) /\ Faithful(out) /\ UpTo(out, Len(out)) = UpTo(lines, pos - 1)
      /\ UpTo(lines, Len(lines)) = Len(clean) /\ Len(lines) \in Nat
      /\ pos \in Nat /\ pos - 1 \in 0..Len(lines)
    BY <1>1, ReadingLines
<1>3. pos - 1 = Len(lines)
    BY <1>1, <1>2
<1>4. Len(clean) = 1 => Len(input.original) = 1
    BY <1>1 DEF Ledger, Passes
<1>. DEFINE text == out
<1>5. Handed(text) /\ Enter(After("repeats"), text)
    BY <1>1, <1>2, <1>3 DEF Handed
<1>. HIDE DEF text
<1> QED BY <1>2, <1>4, <1>5, EnterLedger

-----------------------------------------------------------------------------
(* A text that would be emptied is a single line, and is given back.       *)
LEMMA ReturnLedger ==
    ASSUME Ledger, Return
    PROVE  Ledger'
<1>1. /\ pass = "result" /\ pass' = "guard" /\ pos' = 1 /\ cursor' = 0
      /\ UNCHANGED <<input, context, clean, lines>>
    BY DEF Return
<1>2. /\ Handed(lines) /\ clean \in Seq(DOMAIN Line) /\ input.original \in Seq(DOMAIN Line)
      /\ Len(clean) = 1 => Len(input.original) = 1
    BY <1>1 DEF Ledger, Passes
<1>3. CASE lines = <<Kept(Blank)>> /\ input.original # <<Blank>>
    <2>1. out' = [k \in DOMAIN input.original |-> Kept(input.original[k])]
        BY <1>3 DEF Return
    <2>2. Len(lines) = 1 /\ lines[1] = Kept(Blank) /\ lines \in Seq(OutputLine) /\ DOMAIN lines = 1..1
        BY <1>2, <1>3 DEF Handed, Faithful
    <2>3. Blank \in DOMAIN Line
        BY LineAssumption
    <2>4. Kept(Blank).mark = "line" /\ Kept(Blank).text = Blank /\ StandsFor(Kept(Blank)) = 1
        BY <2>3, KeptIs
    <2>5. UpTo(lines, 0) = 0 /\ UpTo(lines, 1) = UpTo(lines, 0) + StandsFor(lines[1])
        BY <2>2, Tallied
    <2>6. Len(clean) = 1
        BY <1>2, <2>2, <2>4, <2>5 DEF Handed
    <2>7. clean[1] = Blank
        <3>1. Speaks(lines[1], UpTo(lines, 1 - 1))
            BY <1>2, <2>2 DEF Handed, Faithful
        <3>2. 1 - 1 = 0 /\ 1 \in 0 + 1..0 + 1
            OBVIOUS
        <3> QED BY <2>2, <2>4, <2>5, <3>1, <3>2 DEF Speaks
    <2>8. clean = <<Blank>> /\ Len(input.original) = 1
        BY <1>2, <2>6, <2>7
    <2>9. out' = <<Kept(input.original[1])>> /\ input.original = <<input.original[1]>>
        BY <1>2, <2>1, <2>8
    <2>10. ~Emptied'
        <3>1. Kept(input.original[1]) = Kept(Blank) => input.original[1] = Blank
            BY DEF Kept
        <3>2. <<Kept(input.original[1])>> = <<Kept(Blank)>> => Kept(input.original[1]) = Kept(Blank)
            OBVIOUS
        <3> QED BY <1>1, <1>3, <2>9, <3>1, <3>2 DEF Emptied
    <2>11. GivenBack' /\ Len(out') = 1 /\ Len(clean) = 1
        BY <1>1, <2>8, <2>9 DEF GivenBack
    <2>12. InGuard'
        BY <1>1, <2>10, <2>11 DEF InGuard
    <2> QED BY <1>1, <1>2, <2>12 DEF Ledger, Passes, Reading, ActiveRules
<1>4. CASE ~(lines = <<Kept(Blank)>> /\ input.original # <<Blank>>)
    <2>1. out' = lines
        BY <1>4, Zenon DEF Return
    <2>2. Handed(out)' /\ ~Emptied'
        <3>1. Handed(out') /\ ~(out' = <<Kept(Blank)>> /\ input'.original # <<Blank>>)
            BY <1>1, <1>2, <1>4, <2>1
        <3> QED BY <1>1, <3>1, StillSaid DEF Emptied
    <2>3. Len(out') \in Nat /\ Len(clean) \in Nat
        BY <1>2, <2>1 DEF Handed, Faithful
    <2>4. InGuard'
        BY <1>1, <2>2, <2>3 DEF InGuard
    <2> QED BY <1>1, <1>2, <2>4 DEF Ledger, Passes, Reading, ActiveRules
<1> QED BY <1>3, <1>4

(* A line that the guard looks for is written where its turn comes.        *)
LEMMA InItsPlace ==
    ASSUME NEW s, Handed(s), clean \in Seq(DOMAIN Line),
           NEW k \in 1..Len(clean), Guarded(clean[k]), k > 1 => clean[k - 1] # clean[k]
    PROVE  \E p \in 1..Len(s) : /\ UpTo(s, p - 1) + 1 = k /\ k <= UpTo(s, p)
                                 /\ s[p].mark = "line" /\ s[p].text = clean[k]
<1>1. /\ s \in Seq(OutputLine) /\ Faithful(s) /\ UpTo(s, Len(s)) = Len(clean) /\ Len(clean) \in Nat
      /\ DOMAIN s = 1..Len(s)
    BY DEF Handed, Faithful
<1>2. k \in 1..UpTo(s, Len(s))
    BY <1>1
<1>3. PICK p \in 1..Len(s) : UpTo(s, p - 1) < k /\ k <= UpTo(s, p)
    BY <1>1, <1>2, Covered
<1>. DEFINE b == UpTo(s, p - 1)
<1>4. /\ b \in Nat /\ UpTo(s, p) = b + StandsFor(s[p]) /\ StandsFor(s[p]) \in Nat \ {0}
      /\ Speaks(s[p], b)
    <2>1. p - 1 \in 0..Len(s) /\ p \in DOMAIN s
        BY <1>1
    <2> QED BY <1>1, <2>1, Tallied DEF Faithful
<1>. HIDE DEF b
<1>5. k \in b + 1..b + StandsFor(s[p]) /\ b < k
    BY <1>3, <1>4 DEF b
<1>6. s[p].mark = "line" /\ s[p].text = clean[k]
    BY <1>4, <1>5 DEF Speaks
<1>7. b + 1 = k
    <2>1. ASSUME b + 1 # k PROVE FALSE
        <3>1. k - 1 \in b + 1..b + StandsFor(s[p]) /\ k > 1
            BY <1>4, <1>5, <2>1
        <3>2. clean[k - 1] = s[p].text
            BY <1>4, <1>6, <3>1 DEF Speaks
        <3> QED BY <1>6, <3>1, <3>2
    <2> QED BY <2>1
<1> QED BY <1>3, <1>6, <1>7 DEF b

(* So the guard finds it, behind the place of the one before it.           *)
LEMMA Found ==
    ASSUME Ledger, pass = "guard", pos <= Len(clean), ~Exempt(pos)
    PROVE  /\ Handed(out) /\ cursor \in 0..Len(out) /\ pos \in 1..Len(clean)
           /\ \E p \in Places(pos) : UpTo(out, p - 1) = pos - 1
<1>1. InGuard /\ clean \in Seq(DOMAIN Line)
    BY DEF Ledger, Passes
<1>2. pos \in 1..Len(clean) /\ cursor \in 0..Len(out)
    BY <1>1 DEF InGuard
<1>3. Guarded(clean[pos]) /\ (pos > 1 => clean[pos - 1] # clean[pos])
    BY Zenon DEF Exempt, Guarded
<1>4. Handed(out)
    <2>1. ASSUME GivenBack PROVE FALSE
        <3>1. clean = <<Blank>>
            BY <2>1 DEF GivenBack
        <3>2. clean[pos] = Blank
            BY <1>2, <3>1
        <3> QED BY <1>3, <3>2, LineAssumption DEF Guarded
    <2> QED BY <1>1, <2>1 DEF InGuard
<1>5. PICK p \in 1..Len(out) : UpTo(out, p - 1) + 1 = pos /\ out[p].mark = "line" /\ out[p].text = clean[pos]
    BY <1>1, <1>2, <1>3, <1>4, InItsPlace
<1>6. out \in Seq(OutputLine) /\ Len(out) \in Nat
    BY <1>4 DEF Handed, Faithful
<1>7. UpTo(out, p - 1) \in Nat /\ UpTo(out, p - 1) = pos - 1
    <2>1. p - 1 \in 0..Len(out)
        BY <1>6
    <2>2. UpTo(out, p - 1) \in Nat
        BY <1>6, <2>1, Tallied
    <2> QED BY <1>2, <1>5, <2>2
<1>8. cursor < p
    <2>1. ASSUME cursor >= p PROVE FALSE
        <3>1. cursor > 0 /\ cursor - 1 \in 0..Len(out) /\ p - 1 \in 0..Len(out) /\ cursor - 1 \in p - 1..Len(out)
            BY <1>2, <1>6, <2>1
        <3>2. UpTo(out, p - 1) <= UpTo(out, cursor - 1) /\ UpTo(out, cursor - 1) \in Nat
            BY <1>6, <3>1, Tallied
        <3>3. UpTo(out, cursor - 1) < pos - 1
            BY <1>1, <1>4, <3>1 DEF InGuard
        <3> QED BY <1>2, <1>7, <3>2, <3>3
    <2> QED BY <1>2, <1>6, <2>1
<1>9. p \in Places(pos)
    <2>1. p \in cursor + 1..Len(out)
        BY <1>2, <1>6, <1>8
    <2> QED BY <1>5, <2>1 DEF Places, IsText
<1> QED BY <1>2, <1>4, <1>7, <1>9

LEMMA GuardLineLedger ==
    ASSUME Ledger, GuardLine
    PROVE  Ledger'
<1>1. /\ pass = "guard" /\ ~Emptied /\ pos <= Len(clean) /\ pos' = pos + 1
      /\ UNCHANGED <<input, context, pass, clean, lines, out>>
    BY DEF GuardLine
<1>2. InGuard /\ clean \in Seq(DOMAIN Line)
    BY <1>1 DEF Ledger, Passes
<1>3. /\ pos \in Nat \ {0} /\ Len(clean) \in Nat /\ cursor \in 0..Len(out)
      /\ pos' \in 1..Len(clean) + 1 /\ pos' - 1 = pos
    BY <1>1, <1>2 DEF InGuard
<1>4. cursor' \in 0..Len(out) /\ (Handed(out) /\ cursor' > 0 => UpTo(out, cursor' - 1) < pos)
    <2>1. CASE cursor' = cursor
        <3> SUFFICES ASSUME Handed(out), cursor > 0 PROVE UpTo(out, cursor - 1) < pos
            BY <1>3, <2>1
        <3>1. UpTo(out, cursor - 1) < pos - 1
            BY <1>2 DEF InGuard
        <3>2. UpTo(out, cursor - 1) \in Nat
            <4>1. cursor - 1 \in 0..Len(out) /\ out \in Seq(OutputLine)
                BY <1>3 DEF Handed, Faithful
            <4> QED BY <4>1, Tallied
        <3> QED BY <1>3, <3>1, <3>2
    <2>2. CASE ~Exempt(pos) /\ cursor' = Min(Places(pos))
        <3>1. /\ Handed(out) /\ \E p \in Places(pos) : UpTo(out, p - 1) = pos - 1
            BY <1>1, <2>2, Found
        <3>2. PICK p \in Places(pos) : UpTo(out, p - 1) = pos - 1
            BY <3>1
        <3>3. out \in Seq(OutputLine) /\ Len(out) \in Nat
            BY <3>1 DEF Handed, Faithful
        <3>4. Places(pos) \in SUBSET (1..Len(out)) /\ Places(pos) \in SUBSET Nat
            BY <1>3, <3>3 DEF Places
        <3>5. cursor' \in 1..Len(out) /\ cursor' <= p /\ p \in 1..Len(out)
            BY <2>2, <3>2, <3>4, Least
        <3>6. cursor' - 1 \in 0..Len(out) /\ p - 1 \in cursor' - 1..Len(out)
            <4>1. \A c \in 1..Len(out) : c <= p => c - 1 \in 0..Len(out) /\ p - 1 \in c - 1..Len(out)
                BY <3>3, <3>5
            <4> QED BY <3>5, <4>1
        <3>7. UpTo(out, cursor' - 1) <= UpTo(out, p - 1) /\ UpTo(out, cursor' - 1) \in Nat
            BY <3>3, <3>6, Tallied
        <3>8. UpTo(out, cursor' - 1) < pos
            BY <1>3, <3>2, <3>7
        <3> QED BY <3>5, <3>8
    <2> QED BY <2>1, <2>2 DEF GuardLine
<1>5. InGuard'
    <2>1. (Handed(out)' <=> Handed(out)) /\ UpTo(out, cursor - 1)' = UpTo(out, cursor' - 1)
        BY <1>1, StillSaid
    <2>2. GivenBack' <=> GivenBack
        BY <1>1 DEF GivenBack
    <2>3. ~Emptied'
        BY <1>1 DEF Emptied
    <2> QED BY <1>1, <1>2, <1>3, <1>4, <2>1, <2>2, <2>3 DEF InGuard
<1> QED BY <1>1, <1>2, <1>5 DEF Ledger, Passes, Reading, ActiveRules

LEMMA NeverRefused ==
    ASSUME Ledger, Refuse
    PROVE  FALSE
<1>1. pass = "guard" /\ ~Emptied
    BY DEF Refuse, Ledger, InGuard
<1>2. pos <= Len(clean) /\ ~Exempt(pos) /\ Places(pos) = {}
    BY <1>1 DEF Refuse
<1> QED BY <1>1, <1>2, Found

LEMMA AcceptLedger ==
    ASSUME Ledger, Accept
    PROVE  Ledger'
<1>1. /\ pass = "guard" /\ pass' = "accepted"
      /\ UNCHANGED <<input, context, clean, lines, pos, out, count, diagnostic, cursor>>
    BY DEF Accept, Judge
<1>2. InGuard /\ ~Emptied
    BY <1>1 DEF Ledger, InGuard
<1>3. InGuard'
    <2>1. (Handed(out)' <=> Handed(out)) /\ UpTo(out, cursor - 1)' = UpTo(out, cursor - 1)
        BY <1>1, StillSaid
    <2>2. (GivenBack' <=> GivenBack) /\ ~Emptied'
        BY <1>1, <1>2 DEF GivenBack, Emptied
    <2> QED BY <1>1, <1>2, <2>1, <2>2 DEF InGuard
<1> QED BY <1>1, <1>3 DEF Ledger, Passes, Reading, ActiveRules

LEMMA UnchangedLedger == Ledger /\ UNCHANGED reducerVars => Ledger'
<1> SUFFICES ASSUME Ledger, UNCHANGED reducerVars PROVE Ledger'
    OBVIOUS
<1>1. /\ UNCHANGED <<input, context, pass, clean, lines, pos, out, count, diagnostic, cursor>>
    BY DEF reducerVars
<1>2. /\ UNCHANGED <<SuccessReducer, ActiveRules, RecordLines>>
      /\ \A t : (Guarded(t)' <=> Guarded(t)) /\ (Alarm(t)' <=> Alarm(t))
      /\ (Calm(pos - 1)' <=> Calm(pos - 1)) /\ (Calm(UpTo(lines, pos - 1))' <=> Calm(UpTo(lines, pos - 1)))
      /\ (Handed(lines)' <=> Handed(lines)) /\ (Handed(out)' <=> Handed(out))
      /\ (Faithful(out)' <=> Faithful(out)) /\ (Verbatim(lines)' <=> Verbatim(lines))
      /\ UpTo(out, Len(out))' = UpTo(out, Len(out)) /\ UpTo(lines, pos - 1)' = UpTo(lines, pos - 1)
      /\ UpTo(out, cursor - 1)' = UpTo(out, cursor - 1)
    BY <1>1, StillSaid
<1>3. InSanitize' <=> InSanitize
    BY <1>1 DEF InSanitize
<1>4. InReading' <=> InReading
    BY <1>1, <1>2 DEF InReading, NoTwins, Singles, IsText
<1>5. InSuccess' <=> InSuccess
    BY <1>1, <1>2 DEF InSuccess, NoRules, IsText
<1>6. InLogs' <=> InLogs
    BY <1>1, <1>2 DEF InLogs, IsText
<1>7. InRules' <=> InRules
    BY <1>1, <1>2 DEF InRules, NoRules
<1>8. InGuard' <=> InGuard
    BY <1>1, <1>2 DEF InGuard, GivenBack, Emptied
<1> QED BY <1>1, <1>2, <1>3, <1>4, <1>5, <1>6, <1>7, <1>8 DEF Ledger

LEMMA InitLedger == ReducerInit => Ledger
<1> SUFFICES ASSUME ReducerInit PROVE Ledger
    OBVIOUS
<1>1. /\ context = NoContext /\ pass = "compile" /\ clean = <<>> /\ lines = <<>> /\ pos = 1
      /\ out = <<>> /\ count = 0 /\ diagnostic = FALSE
    BY DEF ReducerInit
<1>2. /\ input.original \in Seq(DOMAIN Line) /\ input.specs \in Seq(ToSet(input.specs))
      /\ \A k \in DOMAIN input.specs : input.specs[k].name \in DOMAIN Match
    <2>1. PICK c \in Calls : input.original \in c.original /\ input.specs \in c.specs
        BY DEF ReducerInit
    <2> QED BY <2>1, CallsAssumption
<1>3. ActiveRules \in Seq(ToSet(input.specs))
    <2>1. ActiveRules = <<>>
        BY <1>1 DEF ActiveRules, NoContext
    <2>2. <<>> \in Seq(ToSet(input.specs))
        OBVIOUS
    <2> QED BY <2>1, <2>2
<1>4. InSanitize
    <2>1. Len(input.original) \in Nat /\ <<>> \in Seq(DOMAIN Line) /\ Len(<<>>) = 0
        BY <1>2
    <2> QED BY <1>1, <2>1 DEF InSanitize
<1> QED BY <1>1, <1>2, <1>3, <1>4 DEF Ledger, Passes, Reading

-----------------------------------------------------------------------------
(* The books are kept in every reachable state.                            *)
LEMMA LedgerStep == Ledger /\ Marked /\ [ReducerNext]_reducerVars => Ledger'
<1> SUFFICES ASSUME Ledger, Marked, [ReducerNext]_reducerVars PROVE Ledger'
    OBVIOUS
<1>1. CASE Compile BY <1>1, CompileLedger
<1>2. CASE SanitizeLine BY <1>2, SanitizeLineLedger
<1>3. CASE Sanitized BY <1>3, SanitizedLedger
<1>4. CASE Omit BY <1>4, OmitLedger
<1>5. CASE Keep BY <1>5, KeepLedger
<1>6. CASE Reduced BY <1>6, ReducedLedger
<1>7. CASE GroupLogs BY <1>7, GroupLogsLedger
<1>8. CASE LogsGrouped BY <1>8, LogsGroupedLedger
<1>9. CASE PassBy BY <1>9, PassByLedger
<1>10. CASE Aggregate BY <1>10, AggregateLedger
<1>11. CASE Aggregated BY <1>11, AggregatedLedger
<1>12. CASE Repeat BY <1>12, RepeatLedger
<1>13. CASE Repeated BY <1>13, RepeatedLedger
<1>14. CASE Return BY <1>14, ReturnLedger
<1>15. CASE GuardLine BY <1>15, GuardLineLedger
<1>16. CASE Refuse BY <1>16, NeverRefused
<1>17. CASE Accept BY <1>17, AcceptLedger
<1>18. CASE UNCHANGED reducerVars BY <1>18, UnchangedLedger
<1> QED BY <1>1, <1>2, <1>3, <1>4, <1>5, <1>6, <1>7, <1>8, <1>9, <1>10, <1>11, <1>12,
           <1>13, <1>14, <1>15, <1>16, <1>17, <1>18 DEF ReducerNext

THEOREM LedgerInductive == ReducerSpec => []Ledger
<1>1. ReducerInit => Ledger /\ Marked
    BY InitLedger, InitMarked
<1> QED BY <1>1, LedgerStep, MarkedInductive, PTL DEF ReducerSpec

(* The reducers never make the engine throw their work away: what Compress *)
(* returns always passes the guard (engine.go:109).                        *)
THEOREM GuardAlwaysAccepts == ReducerSpec => []GuardAccepts
<1>1. Ledger => GuardAccepts
    BY DEF Ledger, GuardAccepts, Passes
<1> QED BY <1>1, LedgerInductive, PTL

(* The counts in the markers are true, at every step of every pass and in  *)
(* the result.                                                             *)
THEOREM EveryLineIsCounted == ReducerSpec => []EveryLineCounted
<1>1. Ledger => EveryLineCounted
    <2> SUFFICES ASSUME Ledger PROVE EveryLineCounted
        OBVIOUS
    <2>1. ASSUME pass \in Reading
          PROVE  /\ LinesOf(out) + count * RecordLines = LinesOf(SubSeq(lines, 1, pos - 1))
                 /\ LinesOf(lines) = Len(clean)
        <3>1. InReading
            BY <2>1 DEF Ledger
        <3>2. lines \in Seq(OutputLine) /\ out \in Seq(OutputLine) /\ UpTo(lines, Len(lines)) = Len(clean)
            BY <3>1 DEF InReading, Handed, Faithful
        <3>3. pos - 1 \in 0..Len(lines)
            <4>1. pos \in 1..Len(lines) + 1 /\ Len(lines) \in Nat
                BY <3>1, <3>2 DEF InReading
            <4> QED BY <4>1
        <3> QED BY <3>1, <3>2, <3>3, LinesOfIs DEF InReading
    <2>2. ASSUME Judged PROVE LinesOf(out) = Len(clean)
        <3>1. GivenBack \/ Handed(out)
            BY <2>2 DEF Judged, Ledger, Passes, InGuard
        <3>2. CASE Handed(out)
            BY <3>2, LinesOfIs DEF Handed, Faithful
        <3>3. CASE GivenBack
            <4>1. /\ clean = <<Blank>> /\ Len(input.original) = 1
                  /\ out = <<Kept(input.original[1])>> /\ input.original[1] \in DOMAIN Line
                BY <3>3 DEF GivenBack, Ledger
            <4>2. Kept(input.original[1]) \in OutputLine /\ StandsFor(Kept(input.original[1])) = 1
                BY <4>1, KeptIs
            <4>3. out \in Seq(OutputLine) /\ Len(out) = 1 /\ out[1] = Kept(input.original[1])
                BY <4>1, <4>2
            <4>4. UpTo(out, 1) = 1
                BY <4>2, <4>3, Tallied
            <4>5. LinesOf(out) = 1
                BY <4>3, <4>4, LinesOfIs
            <4> QED BY <4>1, <4>5
        <3> QED BY <3>1, <3>2, <3>3
    <2>3. Passes \ {"result", "guard"} = Reading
        BY DEF Passes, Reading
    <2>4. ASSUME NEW k \in DOMAIN out, out[k].mark = "rule"
          PROVE  out[k].n - 1 <= out[k].behind /\ (SuccessReducer # "logs" => out[k].n - 1 = out[k].behind)
        <3>1. CASE Faithful(out)
            BY <2>4, <3>1 DEF Faithful, Speaks
        <3>2. CASE out = <<>>
            BY <2>4, <3>2
        <3>3. CASE GivenBack
            <4>1. k = 1
                BY <2>4, <3>3 DEF GivenBack
            <4> QED BY <2>4, <3>3, <4>1 DEF GivenBack, Kept
        <3>4. CASE pass = "result"
            BY <2>4, <3>4 DEF Ledger
        <3> QED BY <3>1, <3>2, <3>3, <3>4
                DEF Ledger, Passes, Reading, InSanitize, InReading, InGuard, Handed
    <2> QED BY <2>1, <2>2, <2>3, <2>4 DEF EveryLineCounted
<1> QED BY <1>1, LedgerInductive, PTL

-----------------------------------------------------------------------------
(* Lines of the text that are only marked as repeated, unfolded.           *)
LEMMA UnfoldIs ==
    ASSUME NEW t \in Seq(OutputLine), Len(t) # 0,
           \A k \in 1..Len(t) : t[k].mark = "line" /\ t[k].n = 1
    PROVE  \E f : /\ f = Unfold(t) /\ Len(f) = UpTo(t, Len(t)) /\ f \in Seq(OutputLine)
                  /\ \A k \in 1..Len(t) : \A x \in UpTo(t, k - 1) + 1..UpTo(t, k) : f[x] = Kept(t[k].text)
<1>. DEFINE parts == [k \in DOMAIN t |-> [x \in 1..t[k].times |-> [t[k] EXCEPT !.times = 1]]]
<1>1. /\ Len(t) \in Nat \ {0} /\ DOMAIN t = 1..Len(t)
      /\ UpTo(t, 0) = 0 /\ \A k \in 0..Len(t) : UpTo(t, k) \in Nat
      /\ \A k \in 1..Len(t) : UpTo(t, k) = UpTo(t, k - 1) + StandsFor(t[k])
    BY Tallied
<1>2. ASSUME NEW k \in 1..Len(t)
      PROVE  /\ t[k].times \in Nat \ {0} /\ StandsFor(t[k]) = t[k].times
             /\ [t[k] EXCEPT !.times = 1] = Kept(t[k].text) /\ Kept(t[k].text) \in OutputLine
    <2>1. t[k] \in [mark : {"line"}, text : DOMAIN Line, n : Nat \ {0}, times : Nat \ {0}]
          /\ t[k].mark = "line" /\ t[k].n = 1
        BY DEF OutputLine
    <2>2. [t[k] EXCEPT !.times = 1] = Kept(t[k].text)
        BY <2>1 DEF Kept
    <2>3. StandsFor(t[k]) = 1 * t[k].times /\ t[k].times \in Nat \ {0}
        BY <2>1 DEF StandsFor
    <2>4. StandsFor(t[k]) = t[k].times
        BY <2>3
    <2>5. Kept(t[k].text) \in OutputLine
        BY <2>1, KeptIs
    <2> QED BY <2>2, <2>3, <2>4, <2>5
<1>3. parts = [k \in 1..Len(t) |-> [x \in 1..StandsFor(t[k]) |-> Kept(t[k].text)]]
    BY <1>1, <1>2
<1>4. Unfold(t) = FlattenSeq(parts)
    BY DEF Unfold
<1>. HIDE DEF parts
<1>5. parts \in Seq(Seq(OutputLine)) /\ Len(parts) = Len(t)
    <2>1. ASSUME NEW k \in 1..Len(t)
          PROVE  [x \in 1..StandsFor(t[k]) |-> Kept(t[k].text)] \in Seq(OutputLine)
        <3>1. StandsFor(t[k]) \in Nat /\ Kept(t[k].text) \in OutputLine
            BY <1>2
        <3> QED BY <3>1, Constantly
    <2>2. parts \in [1..Len(t) -> Seq(OutputLine)]
        BY <1>3, <2>1
    <2> QED BY <1>1, <2>2
<1>6. PICK g : Flattened(g, parts) /\ FlattenSeq(parts) = g[Len(parts)]
    BY <1>1, <1>5, FlattenIs
<1>7. g[1] = parts[1] /\ \A z \in 2..Len(t) : g[z] = g[z - 1] \o parts[z]
    <2>1. Len(parts) # 0 /\ Flattened(g, parts)
        BY <1>1, <1>5, <1>6
    <2>2. g[1] = parts[1] /\ \A z \in 2..Len(parts) : g[z] = g[z - 1] \o parts[z]
        BY <1>5, <2>1, FlattenedFrom
    <2> QED BY <1>5, <2>2
<1>8. \A k \in 1..Len(t) : /\ parts[k] \in Seq(OutputLine) /\ Len(parts[k]) = StandsFor(t[k])
                            /\ \A x \in 1..StandsFor(t[k]) : parts[k][x] = Kept(t[k].text)
    <2> SUFFICES ASSUME NEW k \in 1..Len(t)
                 PROVE  /\ parts[k] \in Seq(OutputLine) /\ Len(parts[k]) = StandsFor(t[k])
                        /\ \A x \in 1..StandsFor(t[k]) : parts[k][x] = Kept(t[k].text)
        OBVIOUS
    <2>1. StandsFor(t[k]) \in Nat /\ Kept(t[k].text) \in OutputLine
        BY <1>2
    <2>2. parts[k] = [x \in 1..StandsFor(t[k]) |-> Kept(t[k].text)]
        BY <1>3
    <2> QED BY <2>1, <2>2, Constantly
<1>. DEFINE Right(n) ==
        /\ g[n] \in Seq(OutputLine) /\ Len(g[n]) = UpTo(t, n)
        /\ \A k \in 1..n : \A x \in UpTo(t, k - 1) + 1..UpTo(t, k) : g[n][x] = Kept(t[k].text)
            I == {n \in Nat : n + 1 <= Len(t) => Right(n + 1)}
<1>9. 0 \in I
    <2>1. 1 \in 1..Len(t) /\ 1 - 1 = 0 /\ 0 + 1 = 1
        BY <1>1
    <2>2. UpTo(t, 1) = StandsFor(t[1])
        <3>1. UpTo(t, 1) = UpTo(t, 0) + StandsFor(t[1]) /\ StandsFor(t[1]) \in Nat
            BY <1>1, <1>2, <2>1
        <3> QED BY <1>1, <3>1
    <2>3. Right(1)
        <3>1. \A k \in 1..1 : k = 1
            OBVIOUS
        <3>2. \A x \in UpTo(t, 1 - 1) + 1..UpTo(t, 1) : g[1][x] = Kept(t[1].text)
            BY <1>1, <1>7, <1>8, <2>1, <2>2
        <3> QED BY <1>7, <1>8, <2>1, <2>2, <3>1, <3>2
    <2>. HIDE DEF Right
    <2> QED BY <2>1, <2>3
<1>10. ASSUME NEW n \in I PROVE n + 1 \in I
    <2>1. ASSUME (n + 1) + 1 <= Len(t) PROVE Right((n + 1) + 1)
        <3>. DEFINE m == n + 1  z == m + 1
        <3>1. n \in Nat /\ m \in 1..Len(t) /\ z \in 1..Len(t) /\ z - 1 = m
            BY <1>1, <2>1
        <3>0. z \in 2..Len(t) /\ m \in 0..Len(t) /\ z = m + 1
            BY <1>1, <2>1
        <3>2. Right(m)
            BY <1>1, <2>1
        <3>. HIDE DEF m, z
        <3>3. g[z] = g[m] \o parts[z] /\ parts[z] \in Seq(OutputLine) /\ Len(parts[z]) = StandsFor(t[z])
            BY <1>7, <1>8, <3>0, <3>1
        <3>4. UpTo(t, z) = UpTo(t, m) + StandsFor(t[z]) /\ UpTo(t, m) \in Nat /\ StandsFor(t[z]) \in Nat
            <4>1. StandsFor(t[z]) = t[z].times /\ t[z].times \in Nat
                BY <1>2, <3>1
            <4>2. UpTo(t, m) \in Nat
                BY <1>1, <3>0
            <4> QED BY <1>1, <3>1, <4>1, <4>2
        <3>5. /\ g[z] \in Seq(OutputLine) /\ Len(g[z]) = UpTo(t, z)
              /\ \A x \in 1..UpTo(t, m) : g[z][x] = g[m][x]
              /\ \A x \in 1..StandsFor(t[z]) : g[z][UpTo(t, m) + x] = parts[z][x]
            <4>1. g[m] \in Seq(OutputLine) /\ Len(g[m]) = UpTo(t, m)
                BY <3>2
            <4>2. /\ g[z] \in Seq(OutputLine) /\ Len(g[z]) = Len(g[m]) + Len(parts[z])
                  /\ \A x \in 1..Len(g[m]) : g[z][x] = g[m][x]
                  /\ \A x \in 1..Len(parts[z]) : g[z][Len(g[m]) + x] = parts[z][x]
                <5>. DEFINE a == g[m]  b == parts[z]
                <5>1. a \in Seq(OutputLine) /\ b \in Seq(OutputLine) /\ g[z] = a \o b
                    BY <3>3, <4>1
                <5>. HIDE DEF a, b
                <5>2. /\ a \o b \in Seq(OutputLine) /\ Len(a \o b) = Len(a) + Len(b)
                      /\ \A x \in 1..Len(a) : (a \o b)[x] = a[x]
                      /\ \A x \in 1..Len(b) : (a \o b)[Len(a) + x] = b[x]
                    BY <5>1
                <5> QED BY <5>1, <5>2, Zenon DEF a, b
            <4> QED BY <3>3, <3>4, <4>1, <4>2
        <3>6. ASSUME NEW k \in 1..z, NEW x \in UpTo(t, k - 1) + 1..UpTo(t, k)
              PROVE  g[z][x] = Kept(t[k].text)
            <4>1. CASE k = z
                <5>1. x \in UpTo(t, m) + 1..UpTo(t, m) + StandsFor(t[z])
                    BY <3>1, <3>4, <4>1
                <5>2. x - UpTo(t, m) \in 1..StandsFor(t[z]) /\ UpTo(t, m) + (x - UpTo(t, m)) = x
                    BY <3>4, <5>1
                <5>3. g[z][x] = parts[z][x - UpTo(t, m)]
                    BY <3>5, <5>2
                <5> QED BY <1>8, <3>1, <4>1, <5>2, <5>3
            <4>2. CASE k # z
                <5>1. k \in 1..m
                    BY <3>1, <4>2 DEF z
                <5>2. UpTo(t, k) <= UpTo(t, m) /\ UpTo(t, k - 1) \in Nat /\ UpTo(t, k) \in Nat
                    <6>1. k \in 0..Len(t) /\ k - 1 \in 0..Len(t) /\ m \in k..Len(t)
                        BY <3>1, <5>1
                    <6> QED BY <6>1, Tallied
                <5>3. x \in 1..UpTo(t, m)
                    BY <3>4, <5>2
                <5>4. g[m][x] = Kept(t[k].text)
                    BY <3>2, <5>1
                <5> QED BY <3>5, <5>3, <5>4
            <4> QED BY <4>1, <4>2
        <3>7. Right(z)
            BY <3>5, <3>6
        <3>. HIDE DEF Right
        <3> QED BY <3>7 DEF z, m
    <2>. HIDE DEF Right
    <2> QED BY <2>1
<1>. HIDE DEF Right
<1>11. I = Nat
    <2>. HIDE DEF I
    <2>1. I \in SUBSET Nat
        BY DEF I
    <2> QED BY <1>9, <1>10, <2>1, Upwards
<1>12. Len(t) - 1 \in Nat /\ (Len(t) - 1) + 1 = Len(t)
    BY <1>1
<1>13. Right(Len(t))
    <2>1. Len(t) - 1 \in I
        BY <1>11, <1>12
    <2>2. \A n \in I : n + 1 <= Len(t) => Right(n + 1)
        OBVIOUS
    <2>3. (Len(t) - 1) + 1 <= Len(t) => Right((Len(t) - 1) + 1)
        <3>. HIDE DEF I
        <3> QED BY <2>1, <2>2
    <2>4. Len(t) <= Len(t)
        BY <1>1
    <2> QED BY <1>12, <2>3, <2>4
<1>14. Unfold(t) = g[Len(t)]
    BY <1>4, <1>5, <1>6
<1> QED BY <1>13, <1>14 DEF Right

(* From the first alarm on every line of the text is in the result, in its *)
(* place, repeats only marked as such.                                     *)
LEMMA BodyKept ==
    ASSUME Ledger, pass = "accepted", Alarms # {}, SuccessReducer # "logs"
    PROVE  \E k \in DOMAIN out :
             Unfold(SubSeq(out, k, Len(out)))
               = [x \in 1..Len(clean) - Min(Alarms) + 1 |-> Kept(clean[Min(Alarms) + x - 1])]
<1>. DEFINE m == Min(Alarms)
<1>1. InGuard /\ clean \in Seq(DOMAIN Line)
    BY DEF Ledger
<1>2. \A k \in DOMAIN clean : k \in Alarms <=> Alarm(clean[k])
    BY DEF Alarms, Alarm, Guarded
<1>3. Alarms \in SUBSET (DOMAIN clean) /\ DOMAIN clean = 1..Len(clean) /\ Len(clean) \in Nat
    BY <1>1 DEF Alarms
<1>4. m \in Alarms /\ m \in 1..Len(clean) /\ \A x \in Alarms : m <= x
    BY <1>3, Least
<1>5. Handed(out)
    <2>1. ASSUME GivenBack PROVE FALSE
        <3>1. clean = <<Blank>>
            BY <2>1 DEF GivenBack
        <3>2. clean[m] = Blank
            BY <1>3, <1>4, <3>1
        <3> QED BY <1>2, <1>3, <1>4, <3>2, LineAssumption DEF Alarm, Guarded
    <2> QED BY <1>1, <2>1 DEF InGuard
<1>6. Guarded(clean[m]) /\ (m > 1 => clean[m - 1] # clean[m])
    <2>1. Alarm(clean[m])
        BY <1>2, <1>3, <1>4
    <2>2. ASSUME m > 1, clean[m - 1] = clean[m] PROVE FALSE
        <3>1. m - 1 \in DOMAIN clean /\ Alarm(clean[m - 1])
            BY <1>3, <1>4, <2>1, <2>2
        <3>2. m <= m - 1
            BY <1>2, <1>4, <3>1
        <3> QED BY <1>3, <1>4, <3>2
    <2> QED BY <2>1, <2>2 DEF Alarm
<1>. HIDE DEF m
<1>7. PICK p \in 1..Len(out) : UpTo(out, p - 1) + 1 = m /\ m <= UpTo(out, p)
    BY <1>1, <1>4, <1>5, <1>6, InItsPlace
<1>8. /\ out \in Seq(OutputLine) /\ Len(out) \in Nat /\ DOMAIN out = 1..Len(out)
      /\ UpTo(out, Len(out)) = Len(clean)
      /\ \A q \in 1..Len(out) : Speaks(out[q], UpTo(out, q - 1))
    BY <1>5 DEF Handed, Faithful
<1>9. /\ \A q \in 0..Len(out) : UpTo(out, q) \in Nat
      /\ \A q \in 1..Len(out) : UpTo(out, q) = UpTo(out, q - 1) + StandsFor(out[q])
      /\ \A q \in 0..Len(out) : \A r \in q..Len(out) : UpTo(out, q) <= UpTo(out, r)
    BY <1>8, Tallied
<1>10. ASSUME NEW q \in p..Len(out) PROVE out[q].mark = "line" /\ out[q].n = 1
    <2>1. q \in 1..Len(out) /\ p \in 0..Len(out) /\ q - 1 \in 0..Len(out)
        BY <1>8
    <2>2. m <= UpTo(out, q)
        <3>1. UpTo(out, p) <= UpTo(out, q) /\ UpTo(out, p) \in Nat /\ UpTo(out, q) \in Nat
            BY <1>9, <2>1
        <3> QED BY <1>4, <1>7, <3>1
    <2>3. Speaks(out[q], UpTo(out, q - 1)) /\ UpTo(out, q) = UpTo(out, q - 1) + StandsFor(out[q])
        BY <1>8, <1>9, <2>1
    <2>4. ~Calm(UpTo(out, q))
        <3>1. m \in 1..UpTo(out, q) /\ UpTo(out, q) \in Nat
            BY <1>4, <1>9, <2>1, <2>2
        <3>2. Alarm(clean[m])
            BY <1>2, <1>3, <1>4
        <3> QED BY <3>1, <3>2 DEF Calm
    <2> QED BY <2>3, <2>4 DEF Speaks
<1>. DEFINE t == SubSeq(out, p, Len(out))
<1>11. /\ t \in Seq(OutputLine) /\ Len(t) = Len(out) - p + 1 /\ Len(t) # 0
       /\ \A k \in 1..Len(t) : t[k] = out[p + k - 1]
    BY <1>8
<1>. HIDE DEF t
<1>12. \A k \in 1..Len(t) : t[k].mark = "line" /\ t[k].n = 1 /\ p + k - 1 \in p..Len(out)
    BY <1>8, <1>10, <1>11
<1>13. \A k \in 0..Len(t) : UpTo(t, k) = UpTo(out, p + k - 1) - (m - 1)
    <2>. DEFINE I == {k \in Nat : k <= Len(t) => UpTo(t, k) = UpTo(out, p + k - 1) - (m - 1)}
    <2>0. /\ UpTo(t, 0) = 0
          /\ \A k \in 1..Len(t) : UpTo(t, k) = UpTo(t, k - 1) + StandsFor(t[k])
        BY <1>11, Tallied
    <2>1. 0 \in I
        <3>1. UpTo(out, p - 1) = m - 1 /\ p + 0 - 1 = p - 1 /\ m - 1 \in Int
            <4>1. p - 1 \in 0..Len(out)
                BY <1>8
            <4>2. UpTo(out, p - 1) \in Nat
                BY <1>9, <4>1
            <4> QED BY <1>4, <1>7, <4>2
        <3> QED BY <2>0, <3>1
    <2>2. ASSUME NEW k \in I PROVE k + 1 \in I
        <3>1. ASSUME k + 1 <= Len(t) PROVE UpTo(t, k + 1) = UpTo(out, p + (k + 1) - 1) - (m - 1)
            <4>1. k \in Nat /\ k + 1 \in 1..Len(t) /\ (k + 1) - 1 = k /\ k <= Len(t)
                BY <1>8, <1>11, <3>1
            <4>2. p + (k + 1) - 1 \in 1..Len(out) /\ (p + (k + 1) - 1) - 1 = p + k - 1
                  /\ p + k - 1 \in 0..Len(out) /\ p + (k + 1) - 1 \in 0..Len(out)
                BY <1>8, <1>11, <4>1
            <4>3. t[k + 1] = out[p + (k + 1) - 1]
                BY <1>11, <4>1
            <4>4. UpTo(out, p + (k + 1) - 1) = UpTo(out, p + k - 1) + StandsFor(out[p + (k + 1) - 1])
                BY <1>9, <4>2
            <4>5. UpTo(t, k + 1) = UpTo(t, k) + StandsFor(t[k + 1]) /\ StandsFor(t[k + 1]) \in Nat
                BY <1>11, <2>0, <4>1, Weighs
            <4>6. UpTo(t, k) = UpTo(out, p + k - 1) - (m - 1)
                BY <4>1
            <4>7. UpTo(out, p + k - 1) \in Nat /\ m \in Nat
                BY <1>3, <1>4, <1>9, <4>2
            <4> QED BY <4>3, <4>4, <4>5, <4>6, <4>7
        <3> QED BY <3>1
    <2>3. I = Nat
        <3>. HIDE DEF I
        <3>1. I \in SUBSET Nat
            BY DEF I
        <3> QED BY <2>1, <2>2, <3>1, Upwards
    <2>4. Len(t) \in Nat
        BY <1>11
    <2> QED BY <2>3, <2>4
<1>14. PICK f : /\ f = Unfold(t) /\ Len(f) = UpTo(t, Len(t)) /\ f \in Seq(OutputLine)
                /\ \A k \in 1..Len(t) : \A x \in UpTo(t, k - 1) + 1..UpTo(t, k) : f[x] = Kept(t[k].text)
    BY <1>11, <1>12, UnfoldIs
<1>15. Len(f) = Len(clean) - m + 1
    <2>1. Len(t) \in 0..Len(t) /\ p + Len(t) - 1 = Len(out)
        BY <1>8, <1>11
    <2>2. UpTo(t, Len(t)) = Len(clean) - (m - 1)
        BY <1>8, <1>13, <2>1
    <2> QED BY <1>3, <1>4, <1>14, <2>2
<1>16. ASSUME NEW x \in 1..Len(clean) - m + 1 PROVE f[x] = Kept(clean[m + x - 1])
    <2>1. x \in 1..UpTo(t, Len(t))
        BY <1>14, <1>15
    <2>2. PICK k \in 1..Len(t) : UpTo(t, k - 1) < x /\ x <= UpTo(t, k)
        BY <1>11, <2>1, Covered
    <2>3. /\ k - 1 \in 0..Len(t) /\ k \in 0..Len(t) /\ p + k - 1 \in 1..Len(out)
          /\ p + (k - 1) - 1 = (p + k - 1) - 1 /\ (p + k - 1) - 1 \in 0..Len(out)
        BY <1>8, <1>11
    <2>. DEFINE q == p + k - 1
    <2>4. /\ UpTo(t, k - 1) = UpTo(out, q - 1) - (m - 1)
          /\ UpTo(t, k) = UpTo(out, q) - (m - 1)
        BY <1>13, <2>3
    <2>5. q \in 1..Len(out) /\ q - 1 \in 0..Len(out) /\ q \in 0..Len(out)
          /\ t[k] = out[q] /\ out[q].mark = "line"
        BY <1>10, <1>11, <1>12, <2>3
    <2>. HIDE DEF q
    <2>6. UpTo(out, q - 1) \in Nat /\ UpTo(out, q) \in Nat /\ UpTo(out, q) = UpTo(out, q - 1) + StandsFor(out[q])
        BY <1>9, <2>5
    <2>7. m + x - 1 \in UpTo(out, q - 1) + 1..UpTo(out, q - 1) + StandsFor(out[q])
          /\ x \in UpTo(t, k - 1) + 1..UpTo(t, k)
        <3>1. m \in Nat /\ x \in Nat
            BY <1>3, <1>4
        <3>2. StandsFor(out[q]) \in Nat
            BY <1>8, <2>5, Weighs
        <3>3. UpTo(out, q - 1) - (m - 1) < x /\ x <= UpTo(out, q - 1) + StandsFor(out[q]) - (m - 1)
            <4>1. UpTo(t, k - 1) = UpTo(out, q - 1) - (m - 1) /\ UpTo(t, k) = UpTo(out, q) - (m - 1)
                BY <2>4
            <4>2. UpTo(t, k - 1) < x /\ x <= UpTo(t, k)
                BY <2>2
            <4> QED BY <2>6, <3>1, <3>2, <4>1, <4>2
        <3>4. m + x - 1 \in UpTo(out, q - 1) + 1..UpTo(out, q - 1) + StandsFor(out[q])
            BY <2>6, <3>1, <3>2, <3>3
        <3>5. UpTo(t, k - 1) \in Int /\ UpTo(t, k) \in Int
            BY <2>4, <2>6, <3>1
        <3>6. x \in UpTo(t, k - 1) + 1..UpTo(t, k)
            BY <2>2, <3>1, <3>5
        <3> QED BY <3>4, <3>6
    <2>8. clean[m + x - 1] = out[q].text
        BY <1>8, <2>5, <2>7 DEF Speaks
    <2>9. f[x] = Kept(t[k].text)
        BY <1>14, <2>7
    <2> QED BY <2>5, <2>8, <2>9
<1>17. f = [x \in 1..Len(clean) - m + 1 |-> Kept(clean[m + x - 1])]
    BY <1>14, <1>15, <1>16
<1> QED BY <1>8, <1>14, <1>17 DEF t, m

(* Where a diagnostic has begun nothing is left out or joined any more     *)
(* (compressor.go:150), but by groupLogs.                                  *)
THEOREM BodyIsKept == ReducerSpec => []DiagnosticBodyKept
<1>1. Ledger => DiagnosticBodyKept
    BY BodyKept DEF DiagnosticBodyKept
<1> QED BY <1>1, LedgerInductive, PTL

-----------------------------------------------------------------------------
(***************************************************************************)
(* The effects of the rules: what is said of each rule is what the markers *)
(* say that have been written for it.                                      *)
(***************************************************************************)
Is(name)   == [l \in OutputLine |-> IF l.mark = "rule" /\ l.text = name THEN 1 ELSE 0]
Says(name) == [l \in OutputLine |-> IF l.mark = "rule" /\ l.text = name THEN l.n ELSE 0]

Recorded(name) ==
    IF name \in DOMAIN effects THEN effects[name] ELSE [groups |-> 0, lines |-> 0]

Told(name, s, p) == [groups |-> Tally(Is(name), s, p), lines |-> Tally(Says(name), s, p)]

Known(s) == \A k \in DOMAIN s : s[k].mark = "rule" => s[k].text \in DOMAIN effects
Books(s) == Known(s) /\ \A name \in DOMAIN Match : Recorded(name) = Told(name, s, Len(s))

Effects ==
    /\ lines \in Seq(OutputLine) /\ out \in Seq(OutputLine)
    /\ pos \in Nat \ {0} /\ count \in Nat /\ cursor \in Nat /\ diagnostic \in BOOLEAN
    /\ DOMAIN effects \subseteq DOMAIN Match
    /\ \A name \in DOMAIN effects : effects[name].lines >= 2 * effects[name].groups
    /\ pass \in {"compile", "invalid", "sanitize", "success", "logs"} => DOMAIN effects = {}
    /\ pass = "rules" => Books(out)
    /\ pass = "repeats" =>
         /\ Books(lines) /\ Known(out)
         /\ \A name \in DOMAIN Match : Told(name, out, Len(out)) = Told(name, lines, pos - 1)
    /\ pass = "result" => Books(lines)
    /\ pass \in {"guard", "accepted", "refused"} => Books(out)

-----------------------------------------------------------------------------
LEMMA Tells ==
    ASSUME NEW name
    PROVE  /\ Is(name) \in [OutputLine -> Nat] /\ Says(name) \in [OutputLine -> Nat]
           /\ \A l \in OutputLine : l.mark # "rule" \/ l.text # name =>
                Is(name)[l] = 0 /\ Says(name)[l] = 0
           /\ \A l \in OutputLine : l.mark = "rule" /\ l.text = name =>
                Is(name)[l] = 1 /\ Says(name)[l] = l.n
    BY DEF Is, Says, OutputLine

LEMMA ToldEmpty ==
    ASSUME NEW name
    PROVE  Told(name, <<>>, 0) = [groups |-> 0, lines |-> 0]
    BY TallyEmpty DEF Told

LEMMA ToldAppend ==
    ASSUME NEW name, NEW s \in Seq(OutputLine), NEW l \in OutputLine
    PROVE  Told(name, Append(s, l), Len(Append(s, l)))
             = [groups |-> Told(name, s, Len(s)).groups + Is(name)[l],
                lines  |-> Told(name, s, Len(s)).lines + Says(name)[l]]
<1>1. Len(Append(s, l)) = Len(s) + 1
    OBVIOUS
<1>2. Is(name) \in [OutputLine -> Nat] /\ Says(name) \in [OutputLine -> Nat]
    BY Tells
<1>3. /\ Tally(Is(name), Append(s, l), Len(s) + 1) = Tally(Is(name), s, Len(s)) + Is(name)[l]
      /\ Tally(Says(name), Append(s, l), Len(s) + 1) = Tally(Says(name), s, Len(s)) + Says(name)[l]
    BY <1>2, TallyAppend
<1> QED BY <1>1, <1>3 DEF Told

LEMMA ToldNat ==
    ASSUME NEW name, NEW s \in Seq(OutputLine)
    PROVE  \A p \in 0..Len(s) : Told(name, s, p).groups \in Nat /\ Told(name, s, p).lines \in Nat
    BY Tells, TallyNat DEF Told

LEMMA LinesRun ==
    ASSUME NEW s \in Seq(OutputLine), NEW w \in [OutputLine -> Nat]
    PROVE  \A a \in 1..Len(s) : \A e \in a..Len(s) : \A m \in Nat :
               (\A x \in a..e : w[s[x]] = m) /\ (m = 0 \/ e = a) =>
                    Tally(w, s, e) = Tally(w, s, a - 1) + m
<1>. DEFINE L == OutputLine
<1>1. w \in [L -> Nat] /\ s \in Seq(L)
    OBVIOUS
<1>. HIDE DEF L
<1>2. RunsAdd(w, s)
    BY <1>1, TallyRun
<1> QED BY <1>2 DEF RunsAdd

(* No marker of a rule, no line told of.                                   *)
LEMMA NoneTold ==
    ASSUME NEW name, NEW s \in Seq(OutputLine), NoRules(s)
    PROVE  Told(name, s, Len(s)) = [groups |-> 0, lines |-> 0]
<1>1. ASSUME NEW w \in [OutputLine -> Nat], \A k \in 1..Len(s) : w[s[k]] = 0
      PROVE  Tally(w, s, Len(s)) = 0
    <2>1. CASE Len(s) = 0
        BY <2>1, TallyEmpty
    <2>2. CASE Len(s) # 0
        <3>1. 1 \in 1..Len(s) /\ Len(s) \in 1..Len(s) /\ 1 - 1 = 0
            BY <2>2
        <3>2. \A x \in 1..Len(s) : w[s[x]] = 0
            BY <1>1
        <3>3. Tally(w, s, Len(s)) = Tally(w, s, 1 - 1) + 0
            BY <3>1, <3>2, LinesRun
        <3> QED BY <3>1, <3>3, TallyEmpty
    <2> QED BY <2>1, <2>2
<1>2. /\ Is(name) \in [OutputLine -> Nat] /\ Says(name) \in [OutputLine -> Nat]
      /\ \A k \in 1..Len(s) : Is(name)[s[k]] = 0 /\ Says(name)[s[k]] = 0
    BY Tells DEF NoRules
<1> QED BY <1>1, <1>2 DEF Told

LEMMA NoBooks ==
    ASSUME NEW s \in Seq(OutputLine), NoRules(s), DOMAIN effects = {}
    PROVE  Books(s)
<1>1. Known(s)
    BY DEF Known, NoRules
<1> QED BY <1>1, NoneTold DEF Books, Recorded

LEMMA StillBooks ==
    ASSUME UNCHANGED effects
    PROVE  \A s : (Known(s)' <=> Known(s)) /\ (Books(s)' <=> Books(s))
<1>1. \A name : Recorded(name)' = Recorded(name)
    BY DEF Recorded
<1> QED BY <1>1 DEF Known, Books

LEMMA AppendKnown ==
    ASSUME NEW s \in Seq(OutputLine), NEW l \in OutputLine, Known(s),
           l.mark = "rule" => l.text \in DOMAIN effects
    PROVE  Known(Append(s, l))
<1>1. /\ DOMAIN Append(s, l) = 1..Len(s) + 1 /\ Append(s, l)[Len(s) + 1] = l
      /\ \A k \in 1..Len(s) : k \in DOMAIN s /\ Append(s, l)[k] = s[k]
      /\ \A k \in 1..Len(s) + 1 : k = Len(s) + 1 \/ k \in 1..Len(s)
    OBVIOUS
<1> QED BY <1>1 DEF Known

(* The pass that follows takes over what has been written.                 *)
LEMMA EnterEffects ==
    ASSUME Effects, NEW p \in {"sanitize", "success", "logs", "rules", "repeats"}, NEW text,
           Enter(After(p), text), text \in Seq(OutputLine), Books(text),
           p \notin {"rules", "repeats"} => DOMAIN effects = {}
    PROVE  Effects'
<1>1. /\ pass' = After(p) /\ lines' = text /\ out' = <<>> /\ pos' = 1
      /\ count' = 0 /\ diagnostic' = FALSE /\ UNCHANGED <<effects, cursor>>
    BY DEF Enter
<1>2. After(p) \in Reading \cup {"result"} /\ (p \in {"rules", "repeats"} => After(p) \notin {"success", "logs", "rules"})
    BY NextReads
<1>3. Books(lines)' /\ Known(out)'
    BY <1>1, StillBooks DEF Known
<1>4. \A name : Told(name, <<>>, 0) = Told(name, text, 0)
    BY TallyEmpty DEF Told
<1>5. \A name : Told(name, out, Len(out))' = Told(name, lines, pos - 1)'
    <2>1. Len(<<>>) = 0 /\ 1 - 1 = 0
        OBVIOUS
    <2>2. \A name : Told(name, out, Len(out))' = Told(name, <<>>, 0) /\ Told(name, lines, pos - 1)' = Told(name, text, 0)
        BY <1>1, <2>1 DEF Told
    <2> QED BY <1>4, <2>2
<1>6. pass' = "rules" => Books(out)'
    <2> SUFFICES ASSUME pass' = "rules" PROVE Books(out)'
        OBVIOUS
    <2>1. DOMAIN effects = {}
        BY <1>1, <1>2
    <2>2. <<>> \in Seq(OutputLine) /\ NoRules(<<>>)
        BY DEF NoRules
    <2>3. Books(<<>>)
        BY <2>1, <2>2, NoBooks
    <2> QED BY <1>1, <2>3, StillBooks
<1>7. pass' \in {"success", "logs"} => DOMAIN effects' = {}
    BY <1>1, <1>2
<1>8. <<>> \in Seq(OutputLine) /\ DOMAIN effects' \subseteq DOMAIN Match
      /\ \A name \in DOMAIN effects' : effects'[name].lines >= 2 * effects'[name].groups
    BY <1>1 DEF Effects
<1>9. cursor' \in Nat /\ pos' \in Nat \ {0} /\ count' \in Nat /\ diagnostic' \in BOOLEAN
      /\ lines' \in Seq(OutputLine) /\ out' \in Seq(OutputLine)
    <2>1. cursor \in Nat /\ cursor' = cursor
        BY <1>1 DEF Effects
    <2>2. FALSE \in BOOLEAN /\ 0 \in Nat /\ 1 \in Nat \ {0}
        OBVIOUS
    <2> QED BY <1>1, <1>8, <2>1, <2>2
<1>10. pass' \in {"success", "logs", "rules", "repeats", "result"}
    BY <1>1, <1>2 DEF Reading
<1> QED BY <1>3, <1>5, <1>6, <1>7, <1>8, <1>9, <1>10 DEF Effects

(* Before the rules there are no effects.                                  *)
LEMMA EarlyEffects ==
    ASSUME Ledger, Ledger', Marked, Effects, Compile \/ SanitizeLine \/ Sanitized \/ Omit \/ Keep \/ Reduced
                                            \/ GroupLogs \/ LogsGrouped
    PROVE  Effects'
<1>1. pass \in {"compile", "sanitize", "success", "logs"} /\ DOMAIN effects = {}
    BY DEF Compile, SanitizeLine, Sanitized, Omit, Keep, Reduced, GroupLogs, LogsGrouped, Effects
<1>2. CASE Compile \/ SanitizeLine
    <2>1. UNCHANGED <<lines, out, diagnostic, effects, cursor>> /\ pass' \in {"invalid", "sanitize"}
        BY <1>2 DEF Compile, SanitizeLine
    <2>2. pos' \in Nat \ {0} /\ count' \in Nat
        BY <1>2 DEF Effects, Compile, SanitizeLine
    <2> QED BY <1>1, <2>1, <2>2 DEF Effects
<1>3. CASE Omit \/ Keep \/ GroupLogs
    <2>1. UNCHANGED <<pass, lines, effects, cursor>> /\ pass \in {"success", "logs"}
        BY <1>3 DEF Omit, Keep, GroupLogs
    <2>2. InReading'
        BY <2>1 DEF Ledger, Reading
    <2>3. out' \in Seq(OutputLine) /\ pos' \in Nat \ {0} /\ count' \in Nat
        BY <2>2 DEF InReading, Handed, Faithful
    <2>4. diagnostic' \in BOOLEAN
        <3>1. CASE Omit \/ GroupLogs
            BY <3>1 DEF Omit, GroupLogs, Effects
        <3>2. CASE Keep
            BY <3>2 DEF Keep
        <3> QED BY <1>3, <3>1, <3>2
    <2> QED BY <1>1, <2>1, <2>3, <2>4 DEF Effects
<1>4. CASE Sanitized
    <2>. DEFINE text == [k \in DOMAIN clean |-> Kept(clean[k])]
    <2>1. pass = "sanitize" /\ Enter(After("sanitize"), text)
        BY <1>4 DEF Sanitized
    <2>2. clean \in Seq(DOMAIN Line)
        BY <2>1 DEF Ledger, InSanitize
    <2>. HIDE DEF text
    <2>3. text \in Seq(OutputLine) /\ NoRules(text)
        BY <2>2, VerbatimHanded DEF Handed, Faithful, text
    <2> QED BY <1>1, <2>1, <2>3, NoBooks, EnterEffects
<1>5. CASE Reduced
    <2>. DEFINE text == Flushed
    <2>1. pass = "success" /\ Enter(After("success"), text)
        BY <1>5 DEF Reduced
    <2>2. text \in Seq(OutputLine) /\ NoRules(text)
        BY <2>1, FlushedBooks DEF Faithful
    <2>. HIDE DEF text
    <2> QED BY <1>1, <2>1, <2>2, NoBooks, EnterEffects
<1>6. CASE LogsGrouped
    <2>. DEFINE text == out
    <2>1. pass = "logs" /\ Enter(After("logs"), text)
        BY <1>6 DEF LogsGrouped
    <2>2. text \in Seq(OutputLine) /\ NoRules(text)
        BY <2>1 DEF Effects, Ledger, InLogs, NoRules, IsText
    <2>. HIDE DEF text
    <2> QED BY <1>1, <2>1, <2>2, NoBooks, EnterEffects
<1> QED BY <1>2, <1>3, <1>4, <1>5, <1>6

LEMMA PassByEffects ==
    ASSUME Ledger, Ledger', Effects, PassBy
    PROVE  Effects'
<1>. DEFINE l == lines[pos]
<1>1. /\ pass = "rules" /\ pos <= Len(lines) /\ diagnostic' = (diagnostic \/ IsDiagnostic(l))
      /\ out' = Append(out, l) /\ pos' = pos + 1
      /\ UNCHANGED <<pass, lines, count, effects, cursor>>
    BY DEF PassBy
<1>2. /\ lines \in Seq(OutputLine) /\ out \in Seq(OutputLine)
      /\ Len(lines) \in Nat /\ pos \in Nat \ {0} /\ DOMAIN lines = 1..Len(lines)
    BY <1>1, ReadingLines
<1>3. l \in OutputLine /\ l.mark # "rule"
    <2>1. pos \in DOMAIN lines
        BY <1>1, <1>2
    <2>2. NoRules(lines)
        BY <1>1 DEF Ledger, InRules
    <2> QED BY <1>2, <2>1, <2>2 DEF NoRules
<1>. HIDE DEF l
<1>4. Books(out)'
    <2>1. Books(out)
        BY <1>1 DEF Effects
    <2>2. Known(Append(out, l))
        BY <1>2, <1>3, <2>1, AppendKnown DEF Books
    <2>3. ASSUME NEW name \in DOMAIN Match
          PROVE  Recorded(name) = Told(name, Append(out, l), Len(Append(out, l)))
        <3>1. Is(name)[l] = 0 /\ Says(name)[l] = 0
            BY <1>3, Tells
        <3>2. Told(name, out, Len(out)).groups \in Nat /\ Told(name, out, Len(out)).lines \in Nat
            BY <1>2, ToldNat
        <3>3. Told(name, Append(out, l), Len(Append(out, l)))
                = [groups |-> Told(name, out, Len(out)).groups, lines |-> Told(name, out, Len(out)).lines]
            BY <1>2, <1>3, <3>1, <3>2, ToldAppend
        <3>4. Recorded(name) = Told(name, out, Len(out))
            BY <2>1 DEF Books
        <3> QED BY <3>3, <3>4 DEF Told
    <2>4. Books(out')
        BY <1>1, <2>2, <2>3 DEF Books
    <2> QED BY <1>1, <2>4, StillBooks
<1>5. diagnostic' \in BOOLEAN
    BY <1>1, Zenon
<1>6. out' \in Seq(OutputLine) /\ pos' \in Nat \ {0}
    BY <1>1, <1>2, <1>3
<1> QED BY <1>1, <1>4, <1>5, <1>6 DEF Effects

LEMMA AggregateEffects ==
    ASSUME Ledger, Effects, Aggregate
    PROVE  Effects'
<1>. DEFINE n == GroupEnd - pos + 1  name == ActiveRules[Owner(pos)].name
            behind == LinesOf(SubSeq(lines, 1, GroupEnd)) - LinesOf(SubSeq(lines, 1, pos))
            l == lines[pos]  m == RuleMark(name, n, behind)
            t == Append(out, l)
<1>1. /\ pass = "rules" /\ pos <= Len(lines) /\ Saves
      /\ out' = out \o <<l, m>> /\ pos' = GroupEnd + 1
      /\ effects' = [x \in DOMAIN effects \cup {name} |->
                       IF x = name THEN Counted(name, n) ELSE effects[x]]
      /\ UNCHANGED <<pass, lines, count, diagnostic, cursor>>
    BY DEF Aggregate
<1>2. /\ lines \in Seq(OutputLine) /\ out \in Seq(OutputLine)
      /\ Len(lines) \in Nat /\ pos \in Nat \ {0} /\ DOMAIN lines = 1..Len(lines)
    BY <1>1, ReadingLines
<1>3. /\ GroupEnd \in pos + 1..Len(lines) /\ pos \in 1..Len(lines) /\ name \in DOMAIN Match
      /\ \A x \in pos..GroupEnd : IsText(lines[x])
    BY <1>1, GroupIs
<1>4. n \in Nat \ {0, 1} /\ pos' \in Nat \ {0}
    BY <1>1, <1>2, <1>3
<1>5. l \in OutputLine /\ l.mark # "rule"
    <2>1. pos \in pos..GroupEnd
        BY <1>2, <1>3
    <2> QED BY <1>2, <1>3, <2>1 DEF IsText
<1>0. behind \in Nat \ {0}
    <2>. DEFINE v == UpTo(lines, pos)  w == UpTo(lines, GroupEnd)
    <2>1. GroupEnd \in pos..Len(lines) /\ GroupEnd \in 0..Len(lines) /\ pos \in 0..Len(lines)
        BY <1>2, <1>3
    <2>2. behind = w - v /\ w \in Nat /\ v \in Nat
        BY <1>2, <2>1, LinesOfIs, Tallied
    <2>3. v + (GroupEnd - pos) <= w /\ GroupEnd - pos \in Nat \ {0}
        BY <1>2, <1>3, <2>1, AtLeast
    <2>. HIDE DEF v, w, behind
    <2> QED BY <2>2, <2>3
<1>. HIDE DEF name, n, l, behind
<1>6. m \in OutputLine /\ m.mark = "rule" /\ m.text = name /\ m.n = n
    BY <1>0, <1>3, <1>4 DEF RuleMark, OutputLine
<1>. HIDE DEF m
<1>7. out' = Append(t, m)
    <2>1. IsSeq(out)
        BY <1>2 DEF IsSeq
    <2> QED BY <1>1, <2>1, TwoAppended
<1>8. t \in Seq(OutputLine) /\ out' \in Seq(OutputLine)
    BY <1>2, <1>5, <1>6, <1>7
<1>9. Books(out)
    BY <1>1 DEF Effects
<1>10. /\ DOMAIN effects' = DOMAIN effects \cup {name} /\ effects'[name] = Counted(name, n)
       /\ \A x \in DOMAIN effects : x # name => effects'[x] = effects[x]
    BY <1>1
<1>11. Counted(name, n) = [groups |-> Recorded(name).groups + 1, lines |-> Recorded(name).lines + n]
    BY <1>4 DEF Counted, Recorded
<1>12. \A x : Recorded(x)' = IF x = name THEN Counted(name, n) ELSE Recorded(x)
    BY <1>10 DEF Recorded
<1>13. Known(out)'
    <2>1. \A k \in DOMAIN t : t[k].mark = "rule" => t[k].text \in DOMAIN effects
        BY <1>2, <1>5, <1>9, AppendKnown DEF Books, Known
    <2>2. \A k \in DOMAIN out' : out'[k].mark = "rule" => out'[k].text \in DOMAIN effects \cup {name}
        <3>1. /\ DOMAIN out' = 1..Len(t) + 1 /\ out'[Len(t) + 1] = m /\ DOMAIN t = 1..Len(t)
              /\ \A k \in 1..Len(t) : out'[k] = t[k]
              /\ \A k \in 1..Len(t) + 1 : k = Len(t) + 1 \/ k \in 1..Len(t)
            <4>. HIDE DEF t
            <4> QED BY <1>6, <1>7, <1>8
        <3> QED BY <1>6, <2>1, <3>1
    <2> QED BY <1>10, <2>2 DEF Known
<1>14. ASSUME NEW x \in DOMAIN Match
       PROVE  Recorded(x)' = Told(x, out', Len(out'))
    <2>1. Told(x, t, Len(t)) = [groups |-> Told(x, out, Len(out)).groups + Is(x)[l],
                                 lines |-> Told(x, out, Len(out)).lines + Says(x)[l]]
        BY <1>2, <1>5, ToldAppend
    <2>2. Told(x, out', Len(out')) = [groups |-> Told(x, t, Len(t)).groups + Is(x)[m],
                                       lines |-> Told(x, t, Len(t)).lines + Says(x)[m]]
        BY <1>6, <1>7, <1>8, ToldAppend
    <2>3. Is(x)[l] = 0 /\ Says(x)[l] = 0
        BY <1>5, Tells
    <2>4. /\ x = name => Is(x)[m] = 1 /\ Says(x)[m] = n
          /\ x # name => Is(x)[m] = 0 /\ Says(x)[m] = 0
        BY <1>6, Tells
    <2>5. Told(x, out, Len(out)).groups \in Nat /\ Told(x, out, Len(out)).lines \in Nat
        BY <1>2, ToldNat
    <2>6. Recorded(x) = Told(x, out, Len(out))
        BY <1>9 DEF Books
    <2>7. Told(x, t, Len(t)).groups = Recorded(x).groups /\ Told(x, t, Len(t)).lines = Recorded(x).lines
        BY <2>1, <2>3, <2>5, <2>6
    <2>8. CASE x = name
        BY <1>11, <1>12, <2>2, <2>4, <2>7, <2>8
    <2>9. CASE x # name
        <3>1. Recorded(x)' = Recorded(x)
            BY <1>12, <2>9
        <3>2. Told(x, out', Len(out')) = [groups |-> Recorded(x).groups, lines |-> Recorded(x).lines]
            BY <2>2, <2>4, <2>5, <2>6, <2>7, <2>9
        <3>3. Recorded(x) = [groups |-> Recorded(x).groups, lines |-> Recorded(x).lines]
            BY <2>6 DEF Told
        <3> QED BY <3>1, <3>2, <3>3
    <2> QED BY <2>8, <2>9
<1>15. Books(out)'
    <2>1. \A x \in DOMAIN Match : Recorded(x)' = Told(x, out, Len(out))'
        BY <1>14 DEF Told
    <2> QED BY <1>13, <2>1 DEF Books
<1>16. DOMAIN effects' \subseteq DOMAIN Match
    BY <1>3, <1>10 DEF Effects
<1>17. ASSUME NEW x \in DOMAIN effects'
       PROVE  effects'[x].lines >= 2 * effects'[x].groups
    <2>1. CASE x # name
        BY <1>10, <2>1 DEF Effects
    <2>2. CASE x = name
        <3>1. effects'[name].lines = Recorded(name).lines + n /\ effects'[name].groups = Recorded(name).groups + 1
            BY <1>10, <1>11
        <3>2. Recorded(name).lines \in Nat /\ Recorded(name).groups \in Nat
            BY <1>2, <1>3, <1>9, ToldNat DEF Books, Told
        <3>3. Recorded(name).lines >= 2 * Recorded(name).groups
            <4>1. CASE name \in DOMAIN effects
                BY <4>1 DEF Effects, Recorded
            <4>2. CASE name \notin DOMAIN effects
                BY <4>2 DEF Recorded
            <4> QED BY <4>1, <4>2
        <3> QED BY <1>4, <2>2, <3>1, <3>2, <3>3
    <2> QED BY <2>1, <2>2
<1> QED BY <1>1, <1>4, <1>8, <1>15, <1>16, <1>17 DEF Effects

LEMMA AggregatedEffects ==
    ASSUME Effects, Aggregated
    PROVE  Effects'
<1>. DEFINE text == out
<1>1. pass = "rules" /\ Enter(After("rules"), text)
    BY DEF Aggregated
<1>2. text \in Seq(OutputLine) /\ Books(text)
    BY <1>1 DEF Effects
<1>. HIDE DEF text
<1> QED BY <1>1, <1>2, EnterEffects

(* Markers are never joined: each is told of once.                         *)
LEMMA RepeatEffects ==
    ASSUME Ledger, Effects, Repeat
    PROVE  Effects'
<1>. DEFINE l == lines[pos]
<1>1. /\ pass = "repeats" /\ pos \in 1..Len(lines)
      /\ UNCHANGED <<pass, lines, count, diagnostic, effects, cursor>>
    BY RunIs
<1>2. PICK end \in pos..Len(lines), m \in OutputLine :
                /\ out' = Append(out, m) /\ pos' = end + 1
                /\ \A x \in pos..end : lines[x] = l
                /\ end = pos \/ IsText(l)
                /\ m.mark = l.mark /\ m.text = l.text /\ m.n = l.n
    BY RunIs
<1>3. lines \in Seq(OutputLine) /\ out \in Seq(OutputLine) /\ Len(lines) \in Nat /\ l \in OutputLine
    BY <1>1, ReadingLines
<1>4. /\ Books(lines) /\ Known(out)
      /\ \A name \in DOMAIN Match : Told(name, out, Len(out)) = Told(name, lines, pos - 1)
    BY <1>1 DEF Effects
<1>5. pos' \in Nat \ {0} /\ pos' - 1 = end /\ out' \in Seq(OutputLine) /\ end \in 1..Len(lines)
    BY <1>1, <1>2, <1>3
<1>6. Known(out')
    <2>1. l.mark = "rule" => l.text \in DOMAIN effects
        BY <1>1, <1>3, <1>4 DEF Books, Known
    <2>2. Known(Append(out, m))
        BY <1>2, <1>3, <1>4, <2>1, AppendKnown
    <2> QED BY <1>2, <2>2
<1>7. ASSUME NEW name \in DOMAIN Match
      PROVE  Told(name, out', Len(out')) = Told(name, lines, pos' - 1)
    <2>. DEFINE z == Is(name)[l]  j == Says(name)[l]  a == Told(name, lines, pos - 1)
    <2>1. /\ Is(name)[m] = z /\ Says(name)[m] = j
          /\ Is(name) \in [OutputLine -> Nat] /\ Says(name) \in [OutputLine -> Nat]
          /\ (IsText(l) => z = 0 /\ j = 0)
        BY <1>2, <1>3, Tells DEF IsText, Is, Says
    <2>2. z \in Nat /\ j \in Nat
        BY <1>3, <2>1
    <2>. HIDE DEF l
    <2>3. /\ Tally(Is(name), lines, end) = Tally(Is(name), lines, pos - 1) + z
          /\ Tally(Says(name), lines, end) = Tally(Says(name), lines, pos - 1) + j
        <3>1. \A x \in pos..end : Is(name)[lines[x]] = z /\ Says(name)[lines[x]] = j
            BY <1>2
        <3>2. pos \in 1..Len(lines) /\ end \in pos..Len(lines)
            BY <1>1
        <3>3. (z = 0 \/ end = pos) /\ (j = 0 \/ end = pos)
            BY <1>2, <2>1
        <3>. HIDE DEF z, j
        <3>4. ASSUME NEW w \in [OutputLine -> Nat], NEW u \in Nat,
                     \A x \in pos..end : w[lines[x]] = u, u = 0 \/ end = pos
              PROVE  Tally(w, lines, end) = Tally(w, lines, pos - 1) + u
            <4>0. lines \in Seq(OutputLine)
                BY <1>3
            <4> QED BY <3>2, <3>4, <4>0, LinesRun
        <3>5. Tally(Is(name), lines, end) = Tally(Is(name), lines, pos - 1) + z
            BY <2>1, <2>2, <3>1, <3>3, <3>4
        <3>6. Tally(Says(name), lines, end) = Tally(Says(name), lines, pos - 1) + j
            BY <2>1, <2>2, <3>1, <3>3, <3>4
        <3> QED BY <3>5, <3>6
    <2>. HIDE DEF z, j
    <2>5. Told(name, lines, end) = [groups |-> a.groups + z, lines |-> a.lines + j]
        BY <2>3 DEF Told
    <2>6. Told(name, Append(out, m), Len(Append(out, m)))
            = [groups |-> Told(name, out, Len(out)).groups + z, lines |-> Told(name, out, Len(out)).lines + j]
        BY <1>3, <2>1, ToldAppend
    <2>7. Told(name, out, Len(out)) = a
        BY <1>4
    <2>. HIDE DEF a
    <2> QED BY <1>2, <1>5, <2>5, <2>6, <2>7
<1>8. Books(lines)' /\ Known(out)'
    BY <1>1, <1>4, <1>6, StillBooks
<1>9. \A name \in DOMAIN Match : Told(name, out, Len(out))' = Told(name, lines, pos - 1)'
    BY <1>1, <1>7 DEF Told
<1> QED BY <1>1, <1>5, <1>8, <1>9 DEF Effects

LEMMA RepeatedEffects ==
    ASSUME Ledger, Effects, Repeated
    PROVE  Effects'
<1>. DEFINE text == out
<1>1. pass = "repeats" /\ pos > Len(lines) /\ Enter(After("repeats"), text)
    BY DEF Repeated
<1>2. text \in Seq(OutputLine) /\ Books(lines) /\ Known(text)
      /\ \A name \in DOMAIN Match : Told(name, text, Len(text)) = Told(name, lines, pos - 1)
    BY <1>1 DEF Effects
<1>3. pos - 1 = Len(lines)
    <2>1. Len(lines) \in Nat /\ pos \in Nat /\ pos - 1 \in 0..Len(lines)
        BY <1>1, ReadingLines
    <2> QED BY <1>1, <2>1
<1>4. Books(text)
    BY <1>2, <1>3 DEF Books
<1>. HIDE DEF text
<1> QED BY <1>1, <1>2, <1>4, EnterEffects

LEMMA ReturnEffects ==
    ASSUME Ledger, Effects, Return
    PROVE  Effects'
<1>1. /\ pass = "result" /\ pass' = "guard" /\ pos' = 1 /\ cursor' = 0
      /\ UNCHANGED <<lines, count, diagnostic>>
    BY DEF Return
<1>2. CASE lines = <<Kept(Blank)>> /\ input.original # <<Blank>>
    <2>1. out' = [k \in DOMAIN input.original |-> Kept(input.original[k])] /\ effects' = <<>>
        BY <1>2 DEF Return
    <2>2. input.original \in Seq(DOMAIN Line)
        BY DEF Ledger
    <2>3. out' \in Seq(OutputLine) /\ NoRules(out')
        <3>1. \A k \in DOMAIN input.original : /\ Kept(input.original[k]) \in OutputLine
                                                /\ Kept(input.original[k]).mark = "line"
            BY <2>2, KeptIs
        <3> QED BY <2>1, <2>2, <3>1 DEF NoRules
    <2>4. DOMAIN effects' = {}
        BY <2>1
    <2>5. Known(out)'
        BY <2>3 DEF Known, NoRules
    <2>6. \A name \in DOMAIN Match : Recorded(name)' = [groups |-> 0, lines |-> 0]
        BY <2>4 DEF Recorded
    <2>7. \A name \in DOMAIN Match : Told(name, out, Len(out))' = [groups |-> 0, lines |-> 0]
        BY <2>3, NoneTold DEF Told
    <2>8. Books(out)'
        BY <2>5, <2>6, <2>7 DEF Books
    <2> QED BY <1>1, <2>3, <2>4, <2>8 DEF Effects
<1>3. CASE ~(lines = <<Kept(Blank)>> /\ input.original # <<Blank>>)
    <2>1. out' = lines /\ UNCHANGED effects
        BY <1>3, Zenon DEF Return
    <2>2. Books(lines) /\ lines \in Seq(OutputLine)
        BY <1>1 DEF Effects
    <2>3. Books(out)'
        BY <2>1, <2>2, StillBooks
    <2> QED BY <1>1, <2>1, <2>2, <2>3 DEF Effects
<1> QED BY <1>2, <1>3

LEMMA GuardEffects ==
    ASSUME Ledger, Ledger', Effects, GuardLine \/ Refuse \/ Accept \/ UNCHANGED reducerVars
    PROVE  Effects'
<1>1. UNCHANGED <<lines, out, count, diagnostic, effects>>
    BY DEF GuardLine, Refuse, Accept, Judge, reducerVars
<1>2. Books(lines)' <=> Books(lines)
    BY <1>1, StillBooks
<1>3. (Books(out)' <=> Books(out)) /\ (Known(out)' <=> Known(out))
    BY <1>1, StillBooks
<1>4. CASE GuardLine \/ Refuse \/ Accept
    <2>1. pass = "guard" /\ pass' \in {"guard", "accepted", "refused"} /\ pos' \in Nat \ {0}
        BY <1>4 DEF GuardLine, Refuse, Accept, Judge, Effects
    <2>2. cursor' \in Nat
        <3>1. pass' # "refused" => InGuard'
            BY <2>1 DEF Ledger
        <3>2. pass' = "refused" => cursor' = cursor
            BY <1>4, <2>1 DEF GuardLine, Refuse, Accept, Judge
        <3>3. InGuard' => cursor' \in Nat
            BY <1>1 DEF InGuard, Effects
        <3> QED BY <3>1, <3>2, <3>3 DEF Effects
    <2> QED BY <1>1, <1>3, <2>1, <2>2 DEF Effects
<1>5. CASE UNCHANGED reducerVars
    <2>1. UNCHANGED <<pass, pos, cursor>>
        BY <1>5 DEF reducerVars
    <2>2. \A name : UNCHANGED <<Told(name, out, Len(out)), Told(name, lines, pos - 1)>>
        BY <1>1, <2>1 DEF Told
    <2> QED BY <1>1, <1>2, <1>3, <2>1, <2>2 DEF Effects
<1> QED BY <1>4, <1>5

LEMMA InitEffects == ReducerInit => Effects
<1> SUFFICES ASSUME ReducerInit PROVE Effects
    OBVIOUS
<1>1. /\ pass = "compile" /\ lines = <<>> /\ out = <<>> /\ pos = 1 /\ count = 0 /\ diagnostic = FALSE
      /\ effects = <<>> /\ cursor = 0
    BY DEF ReducerInit
<1>2. DOMAIN effects = {} /\ <<>> \in Seq(OutputLine)
    BY <1>1
<1>3. lines \in Seq(OutputLine) /\ out \in Seq(OutputLine)
    BY <1>1, <1>2
<1>4. pos \in Nat \ {0} /\ count \in Nat /\ cursor \in Nat /\ diagnostic \in BOOLEAN
    <2>1. 1 \in Nat \ {0} /\ 0 \in Nat
        OBVIOUS
    <2>2. FALSE \in BOOLEAN
        OBVIOUS
    <2>3. diagnostic \in BOOLEAN
        BY <1>1, <2>2, Zenon
    <2> QED BY <1>1, <2>1, <2>3
<1>5. DOMAIN effects \subseteq DOMAIN Match /\ \A name \in DOMAIN effects : effects[name].lines >= 2 * effects[name].groups
    BY <1>2
<1>6. pass \notin {"rules", "repeats", "result", "guard", "accepted", "refused"}
    BY <1>1
<1> QED BY <1>2, <1>3, <1>4, <1>5, <1>6 DEF Effects

LEMMA EffectsInductive == Ledger /\ Ledger' /\ Marked /\ Effects /\ [ReducerNext]_reducerVars => Effects'
<1> SUFFICES ASSUME Ledger, Ledger', Marked, Effects, [ReducerNext]_reducerVars PROVE Effects'
    OBVIOUS
<1>1. CASE Compile \/ SanitizeLine \/ Sanitized \/ Omit \/ Keep \/ Reduced \/ GroupLogs \/ LogsGrouped
    BY <1>1, EarlyEffects
<1>2. CASE PassBy BY <1>2, PassByEffects
<1>3. CASE Aggregate BY <1>3, AggregateEffects
<1>4. CASE Aggregated BY <1>4, AggregatedEffects
<1>5. CASE Repeat BY <1>5, RepeatEffects
<1>6. CASE Repeated BY <1>6, RepeatedEffects
<1>7. CASE Return BY <1>7, ReturnEffects
<1>8. CASE GuardLine \/ Refuse \/ Accept \/ UNCHANGED reducerVars
    BY <1>8, GuardEffects
<1> QED BY <1>1, <1>2, <1>3, <1>4, <1>5, <1>6, <1>7, <1>8 DEF ReducerNext

LEMMA ReducerInvariant == ReducerSpec => [](Ledger /\ Marked /\ Effects)
<1>1. ReducerInit => Ledger /\ Marked /\ Effects
    BY InitLedger, InitEffects, InitMarked
<1> QED BY <1>1, LedgerStep, MarkedInductive, EffectsInductive, PTL DEF ReducerSpec

(* Every variable has its type in every reachable state.                   *)
THEOREM ReducerTyped == ReducerSpec => []ReducerTypeOK
<1>1. Ledger /\ Marked /\ Effects => ReducerTypeOK
    <2> SUFFICES ASSUME Ledger, Marked, Effects PROVE ReducerTypeOK
        OBVIOUS
    <2>1. context.reducer \in BuildKinds \cup PhpKinds \cup {"maven", "node-test", "logs", "none"}
        <3>1. FromCommand
            BY DEF Marked, Derived
        <3>2. CASE context = NoContext
            BY <3>2 DEF NoContext
        <3>3. CASE context # NoContext
            <4>1. context.reducer = SuccessReducerOf(Kind)
                BY <3>1, <3>3 DEF FromCommand, SuccessReducer
            <4>2. PHPReduction(input.command) \in {NoWord, "php-test", "composer"}
                BY DEF PHPReduction, PhpProducer
            <4> QED BY <4>1, <4>2 DEF SuccessReducerOf, BuildKinds, PhpKinds
        <3> QED BY <3>2, <3>3
    <2>2. \A k \in DOMAIN context.rules : context.rules[k].name \in DOMAIN Match
        <3>1. context.rules \in Seq(ToSet(input.specs)) /\ \A r \in ToSet(input.specs) : r.name \in DOMAIN Match
            BY DEF Ledger, ActiveRules, ToSet
        <3> QED BY <3>1
    <2>3. clean \in Seq(DOMAIN Line) /\ input.original \in Seq(DOMAIN Line)
        BY DEF Ledger, InSanitize, Passes
    <2>4. pass \in Passes \cup {"idle", "compile", "sanitize", "invalid", "accepted", "refused"}
        BY DEF Ledger
    <2> QED BY <2>1, <2>2, <2>3, <2>4 DEF ReducerTypeOK, Effects
<1> QED BY <1>1, ReducerInvariant, PTL

-----------------------------------------------------------------------------
(* The markers of a rule, counted and summed.                              *)
Marks1(s, name, p) == {k \in 1..p : s[k].mark = "rule" /\ s[k].text = name}

LEMMA MarksTold ==
    ASSUME NEW name, NEW s \in Seq(OutputLine), NEW f, \A k \in 1..Len(s) : f[k] = s[k].n
    PROVE  \A p \in 0..Len(s) : /\ IsFiniteSet(Marks1(s, name, p))
                                 /\ Told(name, s, p).groups = Cardinality(Marks1(s, name, p))
                                 /\ Told(name, s, p).lines = SumOver(f, Marks1(s, name, p))
<1>. DEFINE M(p) == Marks1(s, name, p)
            Right(p) == /\ IsFiniteSet(M(p))
                        /\ Told(name, s, p).groups = Cardinality(M(p))
                        /\ Told(name, s, p).lines = SumOver(f, M(p))
            I == {p \in Nat : p <= Len(s) => Right(p)}
<1>0. Len(s) \in Nat /\ \A k \in 1..Len(s) : s[k] \in OutputLine /\ s[k].n \in Nat
    BY DEF OutputLine
<1>1. Right(0)
    <2>1. M(0) = {}
        BY DEF Marks1
    <2>2. IsFiniteSet({}) /\ Cardinality({}) = 0
        BY FS_EmptySet
    <2>3. Told(name, s, 0).groups = 0 /\ Told(name, s, 0).lines = 0
        BY TallyEmpty DEF Told
    <2> QED BY <2>1, <2>2, <2>3, SumEmpty
<1>2. ASSUME NEW p \in Nat, p + 1 <= Len(s), Right(p) PROVE Right(p + 1)
    <2>. DEFINE q == p + 1
    <2>1. q \in 1..Len(s) /\ q - 1 = p /\ s[q] \in OutputLine /\ f[q] = s[q].n
        BY <1>0, <1>2
    <2>2. M(q) = IF s[q].mark = "rule" /\ s[q].text = name THEN M(p) \cup {q} ELSE M(p)
        <3>1. \A k : k \in 1..q <=> k = q \/ k \in 1..p
            BY <2>1
        <3> QED BY <3>1 DEF Marks1
    <2>3. q \notin M(p) /\ M(p) \in SUBSET (1..Len(s))
        BY <1>0, <2>1 DEF Marks1
    <2>4. /\ Told(name, s, q).groups = Told(name, s, p).groups + Is(name)[s[q]]
          /\ Told(name, s, q).lines = Told(name, s, p).lines + Says(name)[s[q]]
        <3>1. Is(name) \in [OutputLine -> Nat] /\ Says(name) \in [OutputLine -> Nat]
            BY Tells
        <3>. HIDE DEF q
        <3>2. Tally(Is(name), s, q) = Tally(Is(name), s, q - 1) + Is(name)[s[q]]
            BY <2>1, <3>1, TallyStep
        <3>3. Tally(Says(name), s, q) = Tally(Says(name), s, q - 1) + Says(name)[s[q]]
            BY <2>1, <3>1, TallyStep
        <3> QED BY <2>1, <3>2, <3>3 DEF Told
    <2>5. Told(name, s, p).groups \in Nat /\ Told(name, s, p).lines \in Nat
        <3>1. p \in 0..Len(s)
            BY <1>0, <1>2
        <3> QED BY <3>1, ToldNat
    <2>9. /\ IsFiniteSet(M(p))
          /\ Told(name, s, p).groups = Cardinality(M(p))
          /\ Told(name, s, p).lines = SumOver(f, M(p))
        BY <1>2
    <2>10. \A y \in M(p) : f[y] \in Int
        BY <1>0, <2>3
    <2>. HIDE DEF q, M, Right
    <2>6. ASSUME s[q].mark = "rule" /\ s[q].text = name
          PROVE  /\ IsFiniteSet(M(q))
                 /\ Told(name, s, q).groups = Cardinality(M(q))
                 /\ Told(name, s, q).lines = SumOver(f, M(q))
        <3>1. M(q) = M(p) \cup {q}
            BY <2>2, <2>6
        <3>2. Is(name)[s[q]] = 1 /\ Says(name)[s[q]] = s[q].n
            BY <2>1, <2>6, Tells
        <3>3. IsFiniteSet(M(q)) /\ Cardinality(M(q)) = Cardinality(M(p)) + 1
            BY <2>9, <2>3, <3>1, FS_AddElement
        <3>4. \A y \in M(p) \cup {q} : f[y] \in Int
            BY <1>0, <2>1, <2>10
        <3>5. SumOver(f, M(p) \cup {q}) = SumOver(f, M(p)) + f[q]
            <4>1. IsFiniteSet(M(p)) /\ q \notin M(p)
                BY <2>9, <2>3
            <4> QED BY <4>1, <3>4, SumAdd, Zenon
        <3> QED BY <2>9, <2>1, <2>4, <3>1, <3>2, <3>3, <3>5
    <2>7. ASSUME ~(s[q].mark = "rule" /\ s[q].text = name)
          PROVE  /\ IsFiniteSet(M(q))
                 /\ Told(name, s, q).groups = Cardinality(M(q))
                 /\ Told(name, s, q).lines = SumOver(f, M(q))
        <3>1. M(q) = M(p)
            BY <2>2, <2>7
        <3>2. Is(name)[s[q]] = 0 /\ Says(name)[s[q]] = 0
            BY <2>1, <2>7, Tells
        <3>3. Told(name, s, q).groups = Told(name, s, p).groups /\ Told(name, s, q).lines = Told(name, s, p).lines
            BY <2>4, <2>5, <3>2
        <3> QED BY <2>9, <3>1, <3>3
    <2>8. Right(q)
        BY <2>6, <2>7 DEF Right
    <2> QED BY <2>8 DEF q
<1>. HIDE DEF Right
<1>3. I = Nat
    <2>1. 0 \in I /\ \A p \in I : p + 1 \in I
        BY <1>0, <1>1, <1>2
    <2>. HIDE DEF I
    <2>2. I \in SUBSET Nat
        BY DEF I
    <2> QED BY <2>1, <2>2, Upwards
<1>4. \A p \in 0..Len(s) : Right(p)
    BY <1>0, <1>3
<1> QED BY <1>4 DEF Right

LEMMA SumOfMarks ==
    ASSUME NEW s, NEW M, IsFiniteSet(M)
    PROVE  \A f : (\A k \in M : f[k] = s[k].n /\ f[k] \in Int) =>
                MapThenSumSet(LAMBDA k : s[k].n, M) = SumOver(f, M)
<1> SUFFICES ASSUME NEW f, \A k \in M : f[k] = s[k].n /\ f[k] \in Int
             PROVE  MapThenSumSet(LAMBDA k : s[k].n, M) = SumOver(f, M)
    OBVIOUS
<1>. DEFINE Choice(t) == CHOOSE x \in t : TRUE
            Fits(g) == g = [t \in SUBSET M |-> IF t = {} THEN 0 ELSE s[Choice(t)].n + g[t \ {Choice(t)}]]
            iter == CHOOSE g : Fits(g)
            c == Picking(M)
<1>1. Picks(c, M) /\ \E g : Summed(g, f, c, M) /\ SumOver(f, M) = g[M]
    BY SumOverIs
<1>2. \A t \in SUBSET M : c[t] = Choice(t)
    BY DEF Picking
<1>3. ASSUME NEW g PROVE Fits(g) <=> Summed(g, f, c, M)
    <2>. HIDE DEF c, Choice
    <2>1. ASSUME NEW t \in SUBSET M, t # {}
          PROVE  f[c[t]] = s[Choice(t)].n /\ c[t] = Choice(t)
        <3>1. c[t] \in t
            BY <1>1, <2>1 DEF Picks
        <3> QED BY <1>2, <3>1
    <2> QED BY <2>1 DEF Summed
<1>4. MapThenSumSet(LAMBDA k : s[k].n, M) = iter[M]
    BY DEF MapThenSumSet, MapThenFoldSet
<1>. HIDE DEF c, Fits, Choice
<1>5. PICK g : Summed(g, f, c, M) /\ SumOver(f, M) = g[M]
    BY <1>1
<1>6. Summed(iter, f, c, M)
    BY <1>3, <1>5
<1>7. iter[M] = g[M]
    BY <1>1, <1>5, <1>6, SumUnique
<1> QED BY <1>4, <1>5, <1>7

(* RuleEffectsMatch: whatever the text and the rules, the effects say what *)
(* the markers in the output say.                                          *)
THEOREM EffectsAreTheMarkers == ReducerSpec => []RuleEffectsMatch
<1>1. Effects => RuleEffectsMatch
    <2> SUFFICES ASSUME Effects, Judged PROVE RuleEffectsMatch
        BY DEF RuleEffectsMatch
    <2>. DEFINE marks(name) == {k \in DOMAIN out : out[k].mark = "rule" /\ out[k].text = name}
                f == [k \in 1..Len(out) |-> out[k].n]
    <2>1. Books(out) /\ out \in Seq(OutputLine) /\ DOMAIN effects \subseteq DOMAIN Match
        BY DEF Judged, Effects
    <2>2. DOMAIN out = 1..Len(out) /\ Len(out) \in 0..Len(out) /\ \A k \in DOMAIN out : out[k].n \in Nat
        BY <2>1 DEF OutputLine
    <2>3. ASSUME NEW name \in DOMAIN effects
          PROVE  /\ effects[name].groups = Cardinality(marks(name))
                 /\ effects[name].lines = MapThenSumSet(LAMBDA k : out[k].n, marks(name))
        <3>1. marks(name) = Marks1(out, name, Len(out))
            BY <2>2 DEF Marks1
        <3>2. \A k \in 1..Len(out) : f[k] = out[k].n
            OBVIOUS
        <3>3. \A k \in marks(name) : f[k] = out[k].n /\ f[k] \in Int
            BY <2>2
        <3>. HIDE DEF marks, f
        <3>4. /\ IsFiniteSet(marks(name))
              /\ Told(name, out, Len(out)).groups = Cardinality(marks(name))
              /\ Told(name, out, Len(out)).lines = SumOver(f, marks(name))
            BY <2>1, <2>2, <3>1, <3>2, MarksTold
        <3>5. MapThenSumSet(LAMBDA k : out[k].n, marks(name)) = SumOver(f, marks(name))
            BY <3>3, <3>4, SumOfMarks
        <3>6. effects[name] = Told(name, out, Len(out))
            BY <2>1 DEF Books, Recorded
        <3> QED BY <3>4, <3>5, <3>6
    <2>4. \A k \in DOMAIN out : out[k].mark = "rule" => out[k].text \in DOMAIN effects
        BY <2>1 DEF Books, Known
    <2> QED BY <2>3, <2>4 DEF RuleEffectsMatch
<1> QED BY <1>1, ReducerInvariant, PTL

-----------------------------------------------------------------------------
(* How a key is read: how many separators it has, and which bytes stand    *)
(* behind the k-th of them.                                                *)
Separators(w, p) == {q \in 1..p : w[q] = Nul}
Nuls(w, p) == Cardinality(Separators(w, p))

BytesBehind(w, k) == [p \in 1..Len(w) |-> IF w[p] # Nul /\ Nuls(w, p) = k THEN <<w[p]>> ELSE <<>>]

Behind(w, k) == Joined(BytesBehind(w, k), Len(w))

LEMMA NulsAre ==
    ASSUME NEW w, NEW p \in Nat
    PROVE  IsFiniteSet(Separators(w, p)) /\ Nuls(w, p) \in Nat
<1>1. IsFiniteSet(1..p) /\ Separators(w, p) \in SUBSET (1..p)
    BY Interval DEF Separators
<1>2. IsFiniteSet(Separators(w, p))
    BY <1>1, FS_Subset
<1> QED BY <1>2, FS_CardinalityType DEF Nuls

(* One byte more.                                                          *)
LEMMA ReadMore ==
    ASSUME NEW X, NEW w \in Seq(X), NEW b \in X
    PROVE  /\ Nuls(Append(w, b), Len(Append(w, b))) = Nuls(w, Len(w)) + (IF b = Nul THEN 1 ELSE 0)
           /\ \A k : Behind(Append(w, b), k) =
                       IF b # Nul /\ Nuls(w, Len(w)) = k THEN Behind(w, k) \o <<b>> ELSE Behind(w, k)
<1>. DEFINE t == Append(w, b)  n == Len(w)
<1>1. /\ t \in Seq(X) /\ Len(t) = n + 1 /\ n \in Nat /\ t[n + 1] = b
      /\ \A z \in 1..n : t[z] = w[z] /\ t[z] \in X /\ z \in 1..n + 1
    OBVIOUS
<1>. HIDE DEF t, n
<1>2. \A p \in 0..n : Separators(t, p) = Separators(w, p)
    <2>1. \A p \in 0..n : \A q \in 1..p : q \in 1..n
        BY <1>1
    <2> QED BY <1>1, <2>1 DEF Separators
<1>3. \A p \in 0..n : Nuls(t, p) = Nuls(w, p)
    BY <1>2 DEF Nuls
<1>4. Nuls(t, n + 1) = Nuls(w, n) + (IF b = Nul THEN 1 ELSE 0)
    <2>1. n \in 0..n /\ IsFiniteSet(Separators(t, n)) /\ Nuls(t, n) \in Nat
        BY <1>1, NulsAre
    <2>2. CASE b = Nul
        <3>1. Separators(t, n + 1) = Separators(t, n) \cup {n + 1} /\ n + 1 \notin Separators(t, n)
            BY <1>1, <2>2 DEF Separators
        <3>2. Nuls(t, n + 1) = Nuls(t, n) + 1
            BY <2>1, <3>1, FS_AddElement DEF Nuls
        <3> QED BY <1>3, <2>1, <2>2, <3>2
    <2>3. CASE b # Nul
        <3>1. Separators(t, n + 1) = Separators(t, n)
            BY <1>1, <2>3 DEF Separators
        <3>2. Nuls(t, n + 1) = Nuls(t, n)
            BY <3>1 DEF Nuls
        <3> QED BY <1>3, <2>1, <2>3, <3>2
    <2> QED BY <2>2, <2>3
<1>5. ASSUME NEW k
      PROVE  Behind(t, k) = IF b # Nul /\ Nuls(w, n) = k THEN Behind(w, k) \o <<b>> ELSE Behind(w, k)
    <2>. DEFINE g == BytesBehind(t, k)  f == BytesBehind(w, k)
    <2>1. \A z \in 1..n : g[z] = f[z]
        <3>1. \A z \in 1..n : z \in 0..n
            BY <1>1
        <3>2. \A z \in 1..n : w[z] = t[z] /\ Nuls(w, z) = Nuls(t, z) /\ z \in 1..Len(t) /\ z \in 1..Len(w)
            BY <1>1, <1>3, <3>1 DEF n
        <3> QED BY <3>2 DEF BytesBehind
    <2>2. g[n + 1] = IF b # Nul /\ Nuls(t, n + 1) = k THEN <<b>> ELSE <<>>
        <3>1. n + 1 \in 1..Len(t)
            BY <1>1
        <3> QED BY <1>1, <3>1 DEF BytesBehind
    <2>3. \A z \in 1..n + 1 : g[z] \in Seq(X)
        <3>1. \A z \in 1..n + 1 : z \in 1..Len(t) /\ t[z] \in X
            BY <1>1
        <3>2. \A z \in 1..n + 1 : g[z] = <<t[z]>> \/ g[z] = <<>>
            BY <3>1 DEF BytesBehind
        <3>3. <<>> \in Seq(X) /\ \A x \in X : <<x>> \in Seq(X)
            OBVIOUS
        <3> QED BY <3>1, <3>2, <3>3
    <2>. HIDE DEF g, f
    <2>4. Joined(g, n) \in Seq(X) /\ Joined(g, n + 1) = Joined(g, n) \o g[n + 1]
        <3>. DEFINE m == n + 1
        <3>1. m \in Nat /\ n \in Nat /\ n + 1 <= m /\ \A z \in 1..m : g[z] \in Seq(X)
            BY <1>1, <2>3
        <3>. HIDE DEF m
        <3> QED BY <3>1, JoinedStep
    <2>5. Joined(g, n) = Joined(f, n)
        BY <2>1 DEF Joined
    <2>6. Behind(t, k) = Joined(g, n + 1) /\ Behind(w, k) = Joined(f, n)
        BY <1>1 DEF Behind, g, f, n
    <2>7. b # Nul => (Nuls(t, n + 1) = Nuls(w, n))
        <3>1. n \in 0..n /\ Nuls(w, n) \in Nat
            BY <1>1, NulsAre
        <3> QED BY <1>4, <3>1
    <2>8. CASE b # Nul /\ Nuls(w, n) = k
        <3>1. g[n + 1] = <<b>>
            BY <2>2, <2>7, <2>8
        <3> QED BY <2>4, <2>5, <2>6, <2>8, <3>1
    <2>9. CASE ~(b # Nul /\ Nuls(w, n) = k)
        <3>1. g[n + 1] = <<>>
            BY <2>2, <2>7, <2>9
        <3>2. Joined(g, n) \o <<>> = Joined(g, n)
            BY <2>4
        <3> QED BY <2>4, <2>5, <2>6, <2>9, <3>1, <3>2
    <2> QED BY <2>8, <2>9
<1> QED BY <1>1, <1>4, <1>5 DEF t, n

(* Some separators more.                                                   *)
LEMMA ReadNuls ==
    ASSUME NEW X, Nul \in X, NEW w \in Seq(X), NEW m \in Nat
    PROVE  LET v == w \o [k \in 1..m |-> Nul]
           IN  /\ v \in Seq(X)
               /\ Nuls(v, Len(v)) = Nuls(w, Len(w)) + m
               /\ \A k : Behind(v, k) = Behind(w, k)
<1>. DEFINE More(n) == w \o [k \in 1..n |-> Nul]
            Read(n) == /\ More(n) \in Seq(X)
                       /\ Nuls(More(n), Len(More(n))) = Nuls(w, Len(w)) + n
                       /\ \A k : Behind(More(n), k) = Behind(w, k)
            I == {n \in Nat : Read(n)}
<1>1. Nuls(w, Len(w)) \in Nat
    BY NulsAre
<1>2. 0 \in I
    <2>1. More(0) = w
        BY NothingBehind
    <2>. DEFINE c == Nuls(w, Len(w))
    <2>2. c + 0 = c
        <3>1. c \in Nat
            BY <1>1
        <3>. HIDE DEF c
        <3> QED BY <3>1
    <2> QED BY <2>1, <2>2
<1>3. ASSUME NEW n \in I PROVE n + 1 \in I
    <2>1. n \in Nat /\ n + 1 \in Nat /\ Read(n)
        <3>. HIDE DEF Read
        <3> QED OBVIOUS
    <2>2. More(n + 1) = Append(More(n), Nul)
        <3>1. n \in Nat
            BY <2>1
        <3> QED BY <3>1, OneBehind
    <2>3. More(n) \in Seq(X) /\ Nuls(More(n), Len(More(n))) = Nuls(w, Len(w)) + n
        BY <2>1
    <2>4. \A k : Behind(More(n), k) = Behind(w, k)
        BY <2>1
    <2>. DEFINE v == More(n)  u == More(n + 1)
    <2>5. v \in Seq(X) /\ u = Append(v, Nul) /\ (\A k : Behind(v, k) = Behind(w, k))
          /\ Nuls(v, Len(v)) = Nuls(w, Len(w)) + n
        BY <2>2, <2>3, <2>4
    <2>. HIDE DEF More, v, u
    <2>6. Nuls(u, Len(u)) = Nuls(v, Len(v)) + 1 /\ \A k : Behind(u, k) = Behind(v, k)
        BY <2>5, ReadMore
    <2>7. u \in Seq(X)
        BY <2>5
    <2>8. Nuls(u, Len(u)) = Nuls(w, Len(w)) + (n + 1)
        <3>. DEFINE c == Nuls(w, Len(w))
        <3>1. c \in Nat /\ n \in Nat /\ Nuls(u, Len(u)) = (c + n) + 1
            BY <1>1, <2>1, <2>5, <2>6
        <3>. HIDE DEF c
        <3>2. Nuls(u, Len(u)) = c + (n + 1)
            BY <3>1
        <3> QED BY <3>2 DEF c
    <2>9. Read(n + 1)
        BY <2>5, <2>6, <2>7, <2>8 DEF u
    <2> QED BY <2>1, <2>9
<1>4. I = Nat
    <2>. HIDE DEF I
    <2>1. I \in SUBSET Nat
        BY DEF I
    <2> QED BY <1>2, <1>3, <2>1, Upwards
<1>5. m \in I
    <2>. HIDE DEF I
    <2> QED BY <1>4
<1> QED BY <1>5

(* What a key says.                                                        *)
Left(rule, t, k) ==
    [z \in 1..Len(Bytes[t]) + 1 |->
       IF z \in DOMAIN Bytes[t] \ Cut(rule, t) /\ CutsBefore(rule, t, z) = k THEN <<Bytes[t][z]>> ELSE <<>>]

Opened(rule, t, z) == {c \in Ignored(rule, t) : Match[rule.name][t][c].from = z}

Parts(rule, t) ==
    [z \in 1..Len(Bytes[t]) + 1 |->
       [k \in 1..Cardinality(Opened(rule, t, z)) |-> Nul]
         \o (IF z \in DOMAIN Bytes[t] \ Cut(rule, t) THEN <<Bytes[t][z]>> ELSE <<>>)]

Keyed(rule, t) ==
    /\ rule.name \in DOMAIN Match /\ t \in DOMAIN Match[rule.name]
    /\ \A z \in DOMAIN Bytes[t] : Bytes[t][z] # Nul

LEMMA KeyIs ==
    ASSUME NEW rule, rule.name \in DOMAIN Match, NEW t, Key(rule, t) # NoKey
    PROVE  Keyed(rule, t) /\ Key(rule, t) = Joined(Parts(rule, t), Len(Bytes[t]) + 1)
<1>. DEFINE span     == Match[rule.name][t]
            opens(z) == Cardinality({c \in Ignored(rule, t) : span[c].from = z})
            kept(z)  == /\ z <= Len(Bytes[t])
                        /\ \A c \in Ignored(rule, t) : z \notin span[c].from..span[c].to - 1
            part(z)  == [k \in 1..opens(z) |-> Nul] \o IF kept(z) THEN <<Bytes[t][z]>> ELSE <<>>
            L        == Len(Bytes[t])
<1>1. Keyed(rule, t) /\ Key(rule, t) = FlattenSeq([z \in 1..L + 1 |-> part(z)])
    BY DEF Key, Keyed
<1>2. Bytes[t] \in Seq(ToSet(Bytes[t]))
    BY <1>1, RulesAssumption DEF Keyed
<1>3. L \in Nat /\ DOMAIN Bytes[t] = 1..L
    BY <1>2
<1>4. ASSUME NEW z \in 1..L + 1 PROVE kept(z) <=> z \in DOMAIN Bytes[t] \ Cut(rule, t)
    <2>1. z \in Cut(rule, t) <=> \E c \in Ignored(rule, t) : z \in span[c].from..span[c].to - 1
        BY DEF Cut
    <2>2. z <= L <=> z \in DOMAIN Bytes[t]
        BY <1>3
    <2> QED BY <2>1, <2>2
<1>5. ASSUME NEW z \in 1..L + 1 PROVE Parts(rule, t)[z] = part(z)
    <2>1. opens(z) = Cardinality(Opened(rule, t, z))
        BY DEF Opened
    <2>. HIDE DEF opens, kept
    <2> QED BY <1>4, <2>1 DEF Parts
<1>6. [z \in 1..L + 1 |-> part(z)] = [z \in 1..L + 1 |-> Parts(rule, t)[z]]
    <2>. HIDE DEF part
    <2> QED BY <1>5
<1>. HIDE DEF part, L
<1> QED BY <1>1, <1>6 DEF Joined, L

LEMMA CutsAre ==
    ASSUME NEW rule, NEW t, Keyed(rule, t)
    PROVE  /\ IsFiniteSet(Ignored(rule, t))
           /\ CutsBefore(rule, t, 0) = 0
           /\ CutsBefore(rule, t, Len(Bytes[t]) + 1) = Cardinality(Ignored(rule, t))
           /\ \A z \in Nat : /\ CutsBefore(rule, t, z) \in Nat /\ Cardinality(Opened(rule, t, z)) \in Nat
                             /\ CutsBefore(rule, t, z + 1)
                                  = CutsBefore(rule, t, z) + Cardinality(Opened(rule, t, z + 1))
<1>. DEFINE D == DOMAIN Match[rule.name][t]
            From(c) == Match[rule.name][t][c].from
            S(z) == {c \in Ignored(rule, t) : From(c) <= z}
<1>1. IsFiniteSet(D) /\ Ignored(rule, t) \in SUBSET D
    BY RulesAssumption DEF Keyed, Ignored
<1>2. \A c \in D : From(c) \in 1..Len(Bytes[t]) + 1
    BY RulesAssumption DEF Keyed
<1>3. Len(Bytes[t]) \in Nat
    <2>1. Bytes[t] \in Seq(ToSet(Bytes[t]))
        BY RulesAssumption DEF Keyed
    <2> QED BY <2>1
<1>4. \A c \in Ignored(rule, t) : From(c) \in Nat /\ From(c) >= 1 /\ From(c) <= Len(Bytes[t]) + 1
    BY <1>1, <1>2, <1>3
<1>5. \A z : CutsBefore(rule, t, z) = Cardinality(S(z))
    BY DEF CutsBefore
<1>6. IsFiniteSet(Ignored(rule, t))
    <2>. HIDE DEF D
    <2> QED BY <1>1, FS_Subset
<1>7. S(0) = {} /\ S(Len(Bytes[t]) + 1) = Ignored(rule, t)
    BY <1>4
<1>8. \A z \in Nat : S(z + 1) = S(z) \cup Opened(rule, t, z + 1) /\ S(z) \cap Opened(rule, t, z + 1) = {}
    BY <1>4 DEF Opened
<1>9. \A z : S(z) \in SUBSET Ignored(rule, t) /\ Opened(rule, t, z) \in SUBSET Ignored(rule, t)
    BY DEF Opened
<1>. HIDE DEF S, From, D
<1>10. \A z : IsFiniteSet(S(z)) /\ IsFiniteSet(Opened(rule, t, z))
    BY <1>6, <1>9, FS_Subset
<1>11. \A z : Cardinality(S(z)) \in Nat /\ Cardinality(Opened(rule, t, z)) \in Nat
    BY <1>10, FS_CardinalityType
<1>12. ASSUME NEW z \in Nat
       PROVE  Cardinality(S(z + 1)) = Cardinality(S(z)) + Cardinality(Opened(rule, t, z + 1))
    <2>. DEFINE A == S(z)  O == Opened(rule, t, z + 1)
    <2>1. IsFiniteSet(A) /\ IsFiniteSet(O) /\ A \cap O = {} /\ S(z + 1) = A \cup O
        BY <1>8, <1>10
    <2>. HIDE DEF A, O
    <2>2. Cardinality(A \cup O) = Cardinality(A) + Cardinality(O) - Cardinality(A \cap O)
        BY <2>1, FS_Union
    <2>3. Cardinality(A \cap O) = 0 /\ Cardinality(A) \in Nat /\ Cardinality(O) \in Nat
        BY <2>1, FS_EmptySet, FS_CardinalityType
    <2>4. Cardinality(A \cup O) = Cardinality(A) + Cardinality(O)
        BY <2>2, <2>3
    <2>5. Cardinality(S(z + 1)) = Cardinality(A) + Cardinality(O)
        BY <2>1, <2>4
    <2> QED BY <2>5 DEF A, O
<1>13. Cardinality(S(0)) = 0
    BY <1>7, FS_EmptySet
<1> QED BY <1>5, <1>6, <1>7, <1>11, <1>12, <1>13

(* Reading as far as the parts of the first n bytes.                       *)
ReadTo(rule, t, n) ==
    LET w == Joined(Parts(rule, t), n)
    IN  /\ w \in Seq(ToSet(Bytes[t]) \cup {Nul})
        /\ Nuls(w, Len(w)) = CutsBefore(rule, t, n)
        /\ \A k : Behind(w, k) = Joined(Left(rule, t, k), n)

LEMMA ReadsOn ==
    ASSUME NEW rule, NEW t, Keyed(rule, t), NEW n \in 0..Len(Bytes[t]), ReadTo(rule, t, n)
    PROVE  ReadTo(rule, t, n + 1)
<1>. DEFINE X == ToSet(Bytes[t]) \cup {Nul}  L == Len(Bytes[t])
            m == Cardinality(Opened(rule, t, n + 1))
            nuls == [k \in 1..m |-> Nul]
            kept == n + 1 \in DOMAIN Bytes[t] \ Cut(rule, t)
            b == Bytes[t][n + 1]
            last == IF kept THEN <<b>> ELSE <<>>
            w == Joined(Parts(rule, t), n)
            u == w \o nuls
            v == Joined(Parts(rule, t), n + 1)
            before == CutsBefore(rule, t, n + 1)
<1>1. Bytes[t] \in Seq(ToSet(Bytes[t])) /\ L \in Nat /\ DOMAIN Bytes[t] = 1..L
    BY RulesAssumption DEF Keyed
<1>2. n \in Nat /\ n + 1 \in 1..L + 1 /\ L + 1 \in Nat /\ n + 1 <= L + 1
    BY <1>1
<1>3. m \in Nat /\ before = CutsBefore(rule, t, n) + m /\ CutsBefore(rule, t, n) \in Nat
    <2>1. Cardinality(Opened(rule, t, n + 1)) \in Nat
        BY <1>2, CutsAre
    <2> QED BY <1>2, <2>1, CutsAre
<1>4. kept => b \in ToSet(Bytes[t]) /\ b # Nul
    BY <1>1 DEF Keyed, ToSet
<1>5. w \in Seq(X) /\ Nuls(w, Len(w)) = CutsBefore(rule, t, n) /\ \A k : Behind(w, k) = Joined(Left(rule, t, k), n)
    BY DEF ReadTo
<1>6. \A z \in 1..L + 1 : Parts(rule, t)[z] \in Seq(X)
    <2> SUFFICES ASSUME NEW z \in 1..L + 1 PROVE Parts(rule, t)[z] \in Seq(X)
        OBVIOUS
    <2>. DEFINE ns == [k \in 1..Cardinality(Opened(rule, t, z)) |-> Nul]
                bs == IF z \in DOMAIN Bytes[t] \ Cut(rule, t) THEN <<Bytes[t][z]>> ELSE <<>>
    <2>1. Parts(rule, t)[z] = ns \o bs
        BY DEF Parts
    <2>2. ns \in Seq(X)
        <3>1. Cardinality(Opened(rule, t, z)) \in Nat
            <4>1. z \in Nat
                BY <1>1
            <4> QED BY <4>1, CutsAre
        <3>2. Nul \in X
            OBVIOUS
        <3> QED BY <3>1, <3>2
    <2>3. bs \in Seq(X)
        <3>1. CASE z \in DOMAIN Bytes[t] \ Cut(rule, t)
            <4>1. Bytes[t][z] \in X
                BY <1>1, <3>1
            <4> QED BY <3>1, <4>1
        <3>2. CASE z \notin DOMAIN Bytes[t] \ Cut(rule, t)
            BY <3>2
        <3> QED BY <3>1, <3>2
    <2>. HIDE DEF ns, bs, X
    <2> QED BY <2>1, <2>2, <2>3
<1>7. v = w \o (nuls \o last)
    <2>1. Parts(rule, t)[n + 1] = nuls \o last
        BY <1>2 DEF Parts
    <2>. HIDE DEF nuls, last, X, L
    <2>. DEFINE most == L + 1
    <2>2. v = w \o Parts(rule, t)[n + 1]
        <3>1. /\ most \in Nat /\ n \in Nat /\ n + 1 <= most
              /\ \A z \in 1..most : Parts(rule, t)[z] \in Seq(X)
            BY <1>2, <1>6
        <3>. HIDE DEF most
        <3> QED BY <3>1, JoinedStep DEF v, w
    <2> QED BY <2>1, <2>2
<1>8. nuls \in Seq(X) /\ last \in Seq(X)
    <2>1. Nul \in X /\ (kept => b \in X)
        BY <1>4
    <2>. HIDE DEF X, b, kept, m
    <2> QED BY <1>3, <2>1
<1>9. v = u \o last
    <2>. HIDE DEF nuls, last, w, v, X
    <2>1. w \o (nuls \o last) = (w \o nuls) \o last
        BY <1>5, <1>8, JoinAnyhow
    <2> QED BY <1>7, <2>1
<1>10. u \in Seq(X) /\ Nuls(u, Len(u)) = before /\ \A k : Behind(u, k) = Joined(Left(rule, t, k), n)
    <2>1. Nul \in X
        OBVIOUS
    <2>. HIDE DEF X, w, m
    <2>2. /\ u \in Seq(X) /\ Nuls(u, Len(u)) = Nuls(w, Len(w)) + m
          /\ \A k : Behind(u, k) = Behind(w, k)
        BY <1>3, <1>5, <2>1, ReadNuls
    <2> QED BY <1>3, <1>5, <2>2
<1>11. ASSUME NEW k
       PROVE  Joined(Left(rule, t, k), n + 1)
                = IF kept /\ before = k THEN Joined(Left(rule, t, k), n) \o <<b>> ELSE Joined(Left(rule, t, k), n)
    <2>. DEFINE f == Left(rule, t, k)
    <2>1. \A z \in 1..L + 1 : f[z] \in Seq(X)
        <3> SUFFICES ASSUME NEW z \in 1..L + 1 PROVE f[z] \in Seq(X)
            OBVIOUS
        <3>1. z \in DOMAIN Bytes[t] => Bytes[t][z] \in X
            BY <1>1
        <3>2. f[z] = <<>> \/ (z \in DOMAIN Bytes[t] /\ f[z] = <<Bytes[t][z]>>)
            BY DEF Left
        <3>. HIDE DEF X, f
        <3>3. CASE f[z] = <<>>
            <4>1. <<>> \in Seq(X)
                OBVIOUS
            <4> QED BY <3>3, <4>1
        <3>4. CASE z \in DOMAIN Bytes[t] /\ f[z] = <<Bytes[t][z]>>
            <4>1. Bytes[t][z] \in X /\ f[z] = <<Bytes[t][z]>>
                BY <3>1, <3>4
            <4> QED BY <4>1
        <3> QED BY <3>2, <3>3, <3>4
    <2>2. f[n + 1] = IF kept /\ before = k THEN <<b>> ELSE <<>>
        BY <1>2 DEF Left
    <2>. DEFINE most == L + 1
    <2>. HIDE DEF f, X, L, kept, before, b
    <2>3. Joined(f, n) \in Seq(X) /\ Joined(f, n + 1) = Joined(f, n) \o f[n + 1]
        <3>1. most \in Nat /\ n \in Nat /\ n + 1 <= most /\ \A z \in 1..most : f[z] \in Seq(X)
            BY <1>2, <2>1
        <3>. HIDE DEF most
        <3> QED BY <3>1, JoinedStep
    <2>4. Joined(f, n) \o <<>> = Joined(f, n)
        BY <2>3
    <2> QED BY <2>2, <2>3, <2>4 DEF f
<1>12. CASE kept
    <2>1. last = <<b>> /\ b \in X /\ b # Nul
        BY <1>4, <1>12
    <2>. HIDE DEF X, u, v, b, last, kept, before, L
    <2>2. v = Append(u, b) /\ v \in Seq(X)
        BY <1>9, <1>10, <2>1
    <2>3. /\ Nuls(v, Len(v)) = Nuls(u, Len(u)) + (IF b = Nul THEN 1 ELSE 0)
          /\ \A k : Behind(v, k) =
                IF b # Nul /\ Nuls(u, Len(u)) = k THEN Behind(u, k) \o <<b>> ELSE Behind(u, k)
        BY <1>10, <2>1, <2>2, ReadMore
    <2>4. before \in Nat
        BY <1>3
    <2>5. Nuls(v, Len(v)) = before
        BY <1>10, <2>1, <2>3, <2>4
    <2>6. \A k : Behind(v, k) = Joined(Left(rule, t, k), n + 1)
        BY <1>10, <1>11, <1>12, <2>1, <2>3
    <2> QED BY <2>2, <2>5, <2>6 DEF ReadTo, v, X, before
<1>13. CASE ~kept
    <2>1. v = u
        <3>1. last = <<>>
            BY <1>13
        <3>. HIDE DEF last, u, v, X
        <3> QED BY <1>9, <1>10, <3>1
    <2>. HIDE DEF X, u, b, last, kept, before, L
    <2>2. \A k : Behind(v, k) = Joined(Left(rule, t, k), n + 1)
        BY <1>10, <1>11, <1>13, <2>1
    <2> QED BY <1>10, <2>1, <2>2 DEF ReadTo, X, before
<1> QED BY <1>12, <1>13

(* A key has a separator for each ignored capture, and between them the    *)
(* pieces that cutting the captures out leaves.                            *)
LEMMA KeyReads ==
    ASSUME NEW rule, rule.name \in DOMAIN Match, NEW t, Key(rule, t) # NoKey
    PROVE  /\ t \in DOMAIN Match[rule.name]
           /\ Nuls(Key(rule, t), Len(Key(rule, t))) = Cardinality(Ignored(rule, t))
           /\ Pieces(rule, t) = [k \in 0..Cardinality(Ignored(rule, t)) |-> Behind(Key(rule, t), k)]
<1>. DEFINE L == Len(Bytes[t])
            I == {n \in Nat : n <= L + 1 => ReadTo(rule, t, n)}
<1>1. Keyed(rule, t) /\ Key(rule, t) = Joined(Parts(rule, t), L + 1)
    BY KeyIs
<1>2. Bytes[t] \in Seq(ToSet(Bytes[t])) /\ L \in Nat /\ DOMAIN Bytes[t] = 1..L
    BY <1>1, RulesAssumption DEF Keyed
<1>3. 0 \in I
    <2>1. Joined(Parts(rule, t), 0) = <<>> /\ \A k : Joined(Left(rule, t, k), 0) = <<>>
        BY JoinedNone
    <2>2. Nuls(<<>>, 0) = 0
        <3>1. Separators(<<>>, 0) = {}
            BY DEF Separators
        <3> QED BY <3>1, FS_EmptySet DEF Nuls
    <2>3. \A k : Behind(<<>>, k) = <<>>
        BY JoinedNone DEF Behind
    <2>4. CutsBefore(rule, t, 0) = 0
        BY <1>1, CutsAre
    <2>5. <<>> \in Seq(ToSet(Bytes[t]) \cup {Nul}) /\ Len(<<>>) = 0
        OBVIOUS
    <2>6. ReadTo(rule, t, 0)
        BY <2>1, <2>2, <2>3, <2>4, <2>5 DEF ReadTo
    <2> QED BY <2>6
<1>4. ASSUME NEW n \in I PROVE n + 1 \in I
    <2>1. n \in Nat /\ n + 1 \in Nat /\ (n <= L + 1 => ReadTo(rule, t, n))
        OBVIOUS
    <2>2. ASSUME n + 1 <= L + 1 PROVE ReadTo(rule, t, n + 1)
        <3>1. n \in 0..L /\ n <= L + 1
            BY <1>2, <2>1, <2>2
        <3>. HIDE DEF I
        <3> QED BY <1>1, <2>1, <3>1, ReadsOn
    <2> QED BY <2>1, <2>2
<1>5. I = Nat
    <2>. HIDE DEF I
    <2>1. I \in SUBSET Nat
        BY DEF I
    <2> QED BY <1>3, <1>4, <2>1, Upwards
<1>6. ReadTo(rule, t, L + 1)
    <2>1. L + 1 \in Nat /\ L + 1 <= L + 1
        BY <1>2
    <2>2. L + 1 \in I
        <3>. HIDE DEF I
        <3> QED BY <1>5, <2>1
    <2> QED BY <2>1, <2>2
<1>. HIDE DEF I
<1>7. Nuls(Key(rule, t), Len(Key(rule, t))) = Cardinality(Ignored(rule, t))
    BY <1>1, <1>6, CutsAre DEF ReadTo, L
<1>8. ASSUME NEW k
      PROVE  Behind(Key(rule, t), k) = Those(Bytes[t], {z \in DOMAIN Bytes[t] \ Cut(rule, t) : CutsBefore(rule, t, z) = k})
    <2>. DEFINE f == Left(rule, t, k)
                at == {z \in DOMAIN Bytes[t] \ Cut(rule, t) : CutsBefore(rule, t, z) = k}
                X == ToSet(Bytes[t])
                g == [z \in DOMAIN Bytes[t] |-> IF z \in at THEN <<Bytes[t][z]>> ELSE <<>>]
    <2>1. Behind(Key(rule, t), k) = Joined(f, L + 1)
        BY <1>1, <1>6 DEF ReadTo
    <2>2. \A z \in 1..L + 1 : f[z] = IF z \in at THEN <<Bytes[t][z]>> ELSE <<>>
        BY DEF Left
    <2>3. L + 1 \in 1..L + 1 /\ L + 1 \notin at
        BY <1>2
    <2>4. \A z \in 1..L + 1 : f[z] \in Seq(X)
        <3> SUFFICES ASSUME NEW z \in 1..L + 1 PROVE f[z] \in Seq(X)
            OBVIOUS
        <3>1. z \in at => Bytes[t][z] \in X
            BY <1>2
        <3>2. f[z] = IF z \in at THEN <<Bytes[t][z]>> ELSE <<>>
            BY <2>2
        <3>. HIDE DEF X, f, at
        <3>3. CASE z \in at
            <4>1. f[z] = <<Bytes[t][z]>> /\ Bytes[t][z] \in X
                BY <3>1, <3>2, <3>3
            <4> QED BY <4>1
        <3>4. CASE z \notin at
            <4>1. f[z] = <<>>
                BY <3>2, <3>4
            <4> QED BY <4>1
        <3> QED BY <3>3, <3>4
    <2>5. Joined(f, L) = FlattenSeq(g)
        <3>1. \A z \in 1..L : z \in 1..L + 1
            BY <1>2
        <3>2. [z \in 1..L |-> f[z]] = g
            <4>1. \A z \in 1..L : f[z] = IF z \in at THEN <<Bytes[t][z]>> ELSE <<>>
                BY <2>2, <3>1
            <4>. HIDE DEF f, at, L
            <4> QED BY <1>2, <4>1
        <3>. HIDE DEF f, g
        <3> QED BY <3>2 DEF Joined
    <2>6. FlattenSeq(g) = Those(Bytes[t], at)
        BY DEF Those
    <2>7. f[L + 1] = <<>>
        BY <2>2, <2>3
    <2>. HIDE DEF f, g, X, at
    <2>8. Joined(f, L) \in Seq(X) /\ Joined(f, L + 1) = Joined(f, L) \o f[L + 1]
        <3>. DEFINE most == L + 1
        <3>1. most \in Nat /\ L \in Nat /\ L + 1 <= most /\ \A z \in 1..most : f[z] \in Seq(X)
            BY <1>2, <2>4
        <3>. HIDE DEF most, L
        <3> QED BY <3>1, JoinedStep
    <2>9. Joined(f, L) \o <<>> = Joined(f, L)
        BY <2>8
    <2> QED BY <2>1, <2>5, <2>6, <2>7, <2>8, <2>9 DEF at
<1>9. Pieces(rule, t) = [k \in 0..Cardinality(Ignored(rule, t)) |-> Behind(Key(rule, t), k)]
    BY <1>8 DEF Pieces
<1> QED BY <1>1, <1>7, <1>9 DEF Keyed

(* So equal keys tell lines that are alike.                                *)
LEMMA KeysTell ==
    ASSUME NEW rule, rule.name \in DOMAIN Match, NEW s, NEW t,
           Key(rule, s) = Key(rule, t), Key(rule, s) # NoKey
    PROVE  Alike(rule, s, t)
<1>1. /\ s \in DOMAIN Match[rule.name]
      /\ Nuls(Key(rule, s), Len(Key(rule, s))) = Cardinality(Ignored(rule, s))
      /\ Pieces(rule, s) = [k \in 0..Cardinality(Ignored(rule, s)) |-> Behind(Key(rule, s), k)]
    BY KeyReads
<1>2. /\ t \in DOMAIN Match[rule.name]
      /\ Nuls(Key(rule, t), Len(Key(rule, t))) = Cardinality(Ignored(rule, t))
      /\ Pieces(rule, t) = [k \in 0..Cardinality(Ignored(rule, t)) |-> Behind(Key(rule, t), k)]
    BY KeyReads
<1>3. Pieces(rule, s) = Pieces(rule, t)
    BY <1>1, <1>2
<1> QED BY <1>1, <1>2, <1>3 DEF Alike

-----------------------------------------------------------------------------
(* No two rules have one name: Accepted asks for it, and picking some of a *)
(* list keeps it.                                                          *)
Named(s) == \A h, j \in DOMAIN s : s[h].name = s[j].name => h = j

LEMMA ThoseNamed ==
    ASSUME NEW S, NEW s \in Seq(S), Named(s), NEW at
    PROVE  Named(Those(s, at))
<1>. DEFINE parts == [z \in DOMAIN s |-> IF z \in at THEN <<s[z]>> ELSE <<>>]
            From(w, n) == /\ w \in Seq(S) /\ Named(w)
                          /\ \A h \in 1..Len(w) : \E z \in 1..n : w[h] = s[z]
            I == {n \in Nat : n <= Len(s) => From(Joined(parts, n), n)}
<1>1. Len(s) \in Nat /\ DOMAIN s = 1..Len(s) /\ \A z \in 1..Len(s) : s[z] \in S
    OBVIOUS
<1>2. \A z \in 1..Len(s) : parts[z] \in Seq(S)
    <2> SUFFICES ASSUME NEW z \in 1..Len(s) PROVE parts[z] \in Seq(S)
        OBVIOUS
    <2>1. s[z] \in S /\ (parts[z] = <<s[z]>> \/ parts[z] = <<>>)
        OBVIOUS
    <2>. HIDE DEF parts
    <2>2. <<s[z]>> \in Seq(S) /\ <<>> \in Seq(S)
        BY <2>1
    <2> QED BY <2>1, <2>2
<1>3. 0 \in I
    <2>1. Joined(parts, 0) = <<>>
        <3>. HIDE DEF parts
        <3> QED BY JoinedNone
    <2>2. From(<<>>, 0)
        BY DEF Named
    <2>. HIDE DEF From
    <2> QED BY <2>1, <2>2
<1>4. ASSUME NEW n \in I PROVE n + 1 \in I
    <2>1. n \in Nat /\ n + 1 \in Nat /\ (n <= Len(s) => From(Joined(parts, n), n))
        <3>. HIDE DEF From, parts
        <3> QED OBVIOUS
    <2>2. ASSUME n + 1 <= Len(s) PROVE From(Joined(parts, n + 1), n + 1)
        <3>. DEFINE w == Joined(parts, n)  v == Joined(parts, n + 1)  e == s[n + 1]
        <3>1. n <= Len(s) /\ n + 1 \in 1..Len(s) /\ e \in S
            BY <1>1, <2>1, <2>2
        <3>2. w \in Seq(S) /\ Named(w) /\ \A h \in 1..Len(w) : \E z \in 1..n : w[h] = s[z]
            BY <2>1, <3>1
        <3>3. v = w \o parts[n + 1]
            <4>. HIDE DEF parts, w, v, I, From
            <4>. DEFINE most == Len(s)
            <4>0. most \in Nat /\ n \in Nat /\ n + 1 <= most /\ \A z \in 1..most : parts[z] \in Seq(S)
                BY <1>1, <1>2, <2>1, <2>2
            <4>. HIDE DEF most
            <4>1. Joined(parts, n + 1) = Joined(parts, n) \o parts[n + 1]
                BY <4>0, JoinedStep
            <4> QED BY <4>1 DEF w, v
        <3>4. parts[n + 1] = IF n + 1 \in at THEN <<e>> ELSE <<>>
            BY <1>1, <3>1
        <3>5. \A z \in 1..n : z \in 1..n + 1 /\ z \in 1..Len(s) /\ z # n + 1
            BY <1>1, <2>1, <3>1
        <3>. HIDE DEF parts, w, v, I, e
        <3>6. CASE n + 1 \in at
            <4>1. v = Append(w, e)
                BY <3>2, <3>3, <3>4, <3>6
            <4>2. /\ v \in Seq(S) /\ Len(v) = Len(w) + 1 /\ v[Len(w) + 1] = e /\ Len(w) \in Nat
                  /\ \A h \in 1..Len(w) : v[h] = w[h]
                BY <3>1, <3>2, <4>1
            <4>3. \A h \in 1..Len(w) : v[h].name # e.name
                <5> SUFFICES ASSUME NEW h \in 1..Len(w) PROVE v[h].name # e.name
                    OBVIOUS
                <5>1. PICK z \in 1..n : w[h] = s[z]
                    BY <3>2
                <5>2. v[h] = s[z] /\ z \in DOMAIN s /\ n + 1 \in DOMAIN s /\ z # n + 1
                    BY <1>1, <3>1, <3>5, <4>2, <5>1
                <5> QED BY <5>2 DEF Named, e
            <4>4. Named(v)
                <5>1. DOMAIN v = 1..Len(w) + 1 /\ DOMAIN w = 1..Len(w)
                    BY <3>2, <4>2
                <5> SUFFICES ASSUME NEW h \in 1..Len(w) + 1, NEW j \in 1..Len(w) + 1, v[h].name = v[j].name
                             PROVE  h = j
                    BY <5>1 DEF Named
                <5>2. CASE h \in 1..Len(w) /\ j \in 1..Len(w)
                    BY <3>2, <4>2, <5>1, <5>2 DEF Named
                <5>3. CASE h \notin 1..Len(w) \/ j \notin 1..Len(w)
                    <6>1. (h = Len(w) + 1 \/ h \in 1..Len(w)) /\ (j = Len(w) + 1 \/ j \in 1..Len(w))
                        BY <4>2
                    <6> QED BY <4>2, <4>3, <5>3, <6>1
                <5> QED BY <5>2, <5>3
            <4>5. \A h \in 1..Len(v) : \E z \in 1..n + 1 : v[h] = s[z]
                <5> SUFFICES ASSUME NEW h \in 1..Len(v) PROVE \E z \in 1..n + 1 : v[h] = s[z]
                    OBVIOUS
                <5>1. CASE h \in 1..Len(w)
                    BY <3>2, <3>5, <4>2, <5>1
                <5>2. CASE h \notin 1..Len(w)
                    <6>1. h = Len(w) + 1 /\ n + 1 \in 1..n + 1
                        BY <2>1, <4>2, <5>2
                    <6> QED BY <4>2, <6>1 DEF e
                <5> QED BY <5>1, <5>2
            <4> QED BY <4>2, <4>4, <4>5 DEF v
        <3>7. CASE n + 1 \notin at
            <4>1. v = w
                BY <3>2, <3>3, <3>4, <3>7
            <4>2. \A h \in 1..Len(v) : \E z \in 1..n + 1 : v[h] = s[z]
                BY <3>2, <3>5, <4>1
            <4> QED BY <3>2, <4>1, <4>2 DEF v
        <3> QED BY <3>6, <3>7
    <2>. HIDE DEF From, parts
    <2> QED BY <2>1, <2>2
<1>5. I = Nat
    <2>. HIDE DEF I
    <2>1. I \in SUBSET Nat
        BY DEF I
    <2> QED BY <1>3, <1>4, <2>1, Upwards
<1>6. Named(Joined(parts, Len(s)))
    <2>1. Len(s) \in I /\ Len(s) <= Len(s)
        <3>. HIDE DEF I
        <3> QED BY <1>1, <1>5
    <2> QED BY <2>1
<1>7. Joined(parts, Len(s)) = Those(s, at)
    <2>1. [z \in 1..Len(s) |-> parts[z]] = parts
        BY <1>1
    <2>. HIDE DEF parts
    <2>2. Joined(parts, Len(s)) = FlattenSeq(parts)
        BY <2>1 DEF Joined
    <2> QED BY <2>2 DEF Those, parts
<1> QED BY <1>6, <1>7

LEMMA CompileNamed ==
    ASSUME Ledger, Compile, Named(ActiveRules)
    PROVE  Named(ActiveRules)'
<1>1. CASE IsSmart /\ ~Accepted(input.specs)
    BY <1>1 DEF Compile, ActiveRules
<1>2. CASE ~IsSmart
    <2>1. ActiveRules' = <<>>
        BY <1>2 DEF Compile, ActiveRules
    <2>2. Named(<<>>)
        BY DEF Named
    <2>3. Named(ActiveRules')
        BY <2>1, <2>2
    <2> QED BY <2>3 DEF Named
<1>3. CASE IsSmart /\ Accepted(input.specs)
    <2>1. ActiveRules' = RulesFor(input.command)
        BY <1>3 DEF Compile, ActiveRules
    <2>2. input.specs \in Seq(ToSet(input.specs))
        BY DEF Ledger
    <2>3. Named(input.specs)
        BY <1>3 DEF Accepted, IsInjective, Named
    <2>4. Compiled(input.specs) \in Seq(ToSet(input.specs)) /\ Named(Compiled(input.specs))
        BY <2>2, <2>3, ThoseAre, ThoseNamed DEF Compiled
    <2>5. Named(RulesFor(input.command))
        BY <2>4, ThoseNamed DEF RulesFor
    <2>6. Named(ActiveRules')
        BY <2>1, <2>5
    <2> QED BY <2>6 DEF Named
<1> QED BY <1>1, <1>2, <1>3

(* The context is made by Compile only.                                    *)
LEMMA OthersNamed ==
    ASSUME [ReducerNext]_reducerVars, ~Compile, Named(ActiveRules)
    PROVE  Named(ActiveRules)'
<1>1. context' = context
    <2>1. CASE SanitizeLine \/ Sanitized \/ Omit \/ Keep \/ Reduced
        BY <2>1 DEF SanitizeLine, Sanitized, Omit, Keep, Reduced, Enter
    <2>2. CASE GroupLogs \/ LogsGrouped \/ PassBy \/ Aggregate \/ Aggregated
        BY <2>2 DEF GroupLogs, LogsGrouped, PassBy, Aggregate, Aggregated, Enter
    <2>3. CASE Repeat \/ Repeated \/ Return
        BY <2>3 DEF Repeat, Repeated, Return, Enter
    <2>4. CASE GuardLine \/ Refuse \/ Accept
        BY <2>4 DEF GuardLine, Refuse, Accept, Judge
    <2>5. CASE UNCHANGED reducerVars
        BY <2>5 DEF reducerVars
    <2> QED BY <2>1, <2>2, <2>3, <2>4, <2>5 DEF ReducerNext
<1> QED BY <1>1 DEF ActiveRules, Named

(* A step that joins nothing leaves no group just joined.                  *)
LEMMA NothingJoined ==
    ASSUME pass' # "rules" \/ out' = <<>> \/ Last(out)'.mark # "rule"
    PROVE  AggregatedAlike'
<1>1. JustAggregated' = <<>>
    BY DEF JustAggregated
<1> QED BY <1>1 DEF AggregatedAlike

LEMMA AggregateAlike ==
    ASSUME Ledger, Aggregate, Named(ActiveRules)
    PROVE  AggregatedAlike'
<1>. DEFINE end == GroupEnd  n == GroupEnd - pos + 1  o == Owner(pos)  r == ActiveRules[Owner(pos)]
            m == RuleMark(r.name, n, LinesOf(SubSeq(lines, 1, GroupEnd)) - LinesOf(SubSeq(lines, 1, pos)))
            l == lines[pos]
<1>1. /\ pass = "rules" /\ pos <= Len(lines) /\ Saves
      /\ out' = out \o <<l, m>> /\ pos' = end + 1
      /\ UNCHANGED <<input, context, pass, lines>>
    BY DEF Aggregate
<1>2. /\ end \in pos + 1..Len(lines) /\ pos \in 1..Len(lines) /\ r.name \in DOMAIN Match
      /\ \A x \in pos..end : /\ IsText(lines[x]) /\ ~Protected(lines[x]) /\ ~IsBlank(lines[x])
                             /\ KeyOf(r, lines[x]) = KeyOf(r, l) /\ KeyOf(r, lines[x]) # NoKey
    BY <1>1, GroupIs
<1>3. lines \in Seq(OutputLine) /\ out \in Seq(OutputLine) /\ Len(lines) \in Nat /\ pos \in Nat
    BY <1>1, ReadingLines
<1>4. o \in DOMAIN ActiveRules
    <2>1. o # 0
        BY <1>1, Zenon DEF Saves, Untouched
    <2> QED BY <2>1, OwnerIs
<1>5. (CHOOSE x \in DOMAIN ActiveRules : ActiveRules[x].name = r.name) = o
    BY <1>4 DEF Named
<1>6. ASSUME NEW x \in pos..end PROVE Alike(r, Written(l), Written(lines[x]))
    <2>1. pos \in pos..end
        BY <1>2, <1>3
    <2>2. IsText(lines[x]) /\ IsText(l) /\ KeyOf(r, lines[x]) = KeyOf(r, l) /\ KeyOf(r, l) # NoKey
        BY <1>2, <2>1
    <2>. HIDE DEF r, l, end
    <2>3. Key(r, Written(l)) = Key(r, Written(lines[x])) /\ Key(r, Written(l)) # NoKey
        BY <2>2 DEF KeyOf
    <2> QED BY <1>2, <2>3, KeysTell
<1>. HIDE DEF end, o, r
<1>7. out' # <<>> /\ Last(out)' = m
    <2>. HIDE DEF l, m
    <2>1. Len(out \o <<l, m>>) = Len(out) + 2 /\ (out \o <<l, m>>)[Len(out) + 2] = m /\ Len(out) \in Nat
        BY <1>3
    <2> QED BY <1>1, <2>1 DEF Last
<1>8. m.mark = "rule" /\ m.text = r.name /\ m.n = n
    BY DEF RuleMark
<1>9. n = end - pos + 1 /\ end \in Nat
    <2>1. n = end - pos + 1
        BY DEF end
    <2> QED BY <1>2, <1>3, <2>1
<1>. HIDE DEF n, m
<1>10. JustAggregated' = SubSeq(lines, pos, end)
    <2>1. pos' - n = pos /\ pos' - 1 = end
        BY <1>1, <1>3, <1>9
    <2>2. pass' = "rules" /\ lines' = lines
        BY <1>1
    <2> QED BY <1>7, <1>8, <2>1, <2>2 DEF JustAggregated
<1>. DEFINE group == SubSeq(lines, pos, end)
<1>11. /\ DOMAIN group = 1..end - pos + 1 /\ group[1] = l
       /\ \A k \in DOMAIN group : pos + k - 1 \in pos..end /\ group[k] = lines[pos + k - 1]
    <2>1. end \in pos..Len(lines)
        BY <1>2, <1>3
    <2>2. /\ DOMAIN group = 1..end - pos + 1
          /\ \A k \in 1..end - pos + 1 : pos + k - 1 \in pos..end /\ group[k] = lines[pos + k - 1]
        BY <1>2, <1>3, <2>1, StretchIs
    <2>. HIDE DEF group
    <2>3. 1 \in 1..end - pos + 1 /\ pos + 1 - 1 = pos
        BY <1>3, <1>9, <2>1
    <2> QED BY <2>2, <2>3 DEF l
<1>12. ASSUME NEW k \in DOMAIN group
       PROVE  /\ IsText(group[k]) /\ Alike(r, Written(group[1]), Written(group[k]))
              /\ ~Protected(group[k]) /\ ~IsBlank(group[k])
    <2>. DEFINE x == pos + k - 1
    <2>1. x \in pos..end /\ group[k] = lines[x]
        BY <1>11
    <2>. HIDE DEF x, group
    <2>2. IsText(lines[x]) /\ ~Protected(lines[x]) /\ ~IsBlank(lines[x])
        BY <1>2, <2>1
    <2> QED BY <1>6, <1>11, <2>1, <2>2
<1>. DEFINE joined == JustAggregated'
            rule   == ActiveRules'[CHOOSE x \in DOMAIN ActiveRules' : ActiveRules'[x].name = Last(out)'.text]
<1>13. joined = group /\ rule = r
    <2>1. Last(out)'.text = r.name /\ ActiveRules' = ActiveRules
        BY <1>1, <1>7, <1>8 DEF ActiveRules
    <2>. HIDE DEF group
    <2> QED BY <1>5, <1>10, <2>1 DEF r, o, group
<1>14. ASSUME NEW v PROVE (Protected(v) <=> Protected(v)') /\ (IsBlank(v) <=> IsBlank(v)')
    BY <1>1 DEF Protected, IsDiagnostic, IsTagged, Kind, IsBlank
<1>. HIDE DEF group
<1>15. ASSUME NEW v, NEW k \in DOMAIN joined, v = joined[k]
       PROVE  /\ IsText(v) /\ Alike(rule, Written(joined[1]), Written(v))
              /\ ~Protected(v)' /\ ~IsBlank(v)'
    <2>. HIDE DEF joined, rule
    <2>1. k \in DOMAIN group /\ v = group[k]
        BY <1>13, <1>15
    <2>2. ~Protected(v) /\ ~IsBlank(v) /\ IsText(v) /\ Alike(r, Written(group[1]), Written(v))
        BY <1>12, <2>1
    <2> QED BY <1>13, <1>14, <2>2
<1> QED BY <1>15 DEF AggregatedAlike, Protected, IsDiagnostic, IsTagged, Kind, IsBlank

LEMMA PassByAlike ==
    ASSUME Ledger, PassBy
    PROVE  AggregatedAlike'
<1>1. pass = "rules" /\ pos <= Len(lines) /\ out' = Append(out, lines[pos])
    BY DEF PassBy
<1>2. lines \in Seq(OutputLine) /\ out \in Seq(OutputLine) /\ Len(lines) \in Nat /\ pos \in Nat \ {0}
    BY <1>1, ReadingLines
<1>3. NoRules(lines)
    BY <1>1 DEF Ledger, Reading, InRules
<1>4. pos \in DOMAIN lines
    BY <1>1, <1>2
<1>5. lines[pos] \in OutputLine /\ lines[pos].mark # "rule"
    BY <1>2, <1>3, <1>4 DEF NoRules
<1>. DEFINE l == lines[pos]
<1>. HIDE DEF l
<1>6. Len(Append(out, l)) = Len(out) + 1 /\ Append(out, l)[Len(out) + 1] = l
    BY <1>2
<1>7. Last(out)' = l
    BY <1>1, <1>6 DEF Last, l
<1>8. Last(out)'.mark # "rule"
    BY <1>5, <1>7 DEF l
<1> QED BY <1>8, NothingJoined

LEMMA AlikeInductive ==
    Ledger /\ Named(ActiveRules) /\ AggregatedAlike /\ [ReducerNext]_reducerVars =>
        Named(ActiveRules)' /\ AggregatedAlike'
<1> SUFFICES ASSUME Ledger, Named(ActiveRules), AggregatedAlike, [ReducerNext]_reducerVars
             PROVE  Named(ActiveRules)' /\ AggregatedAlike'
    OBVIOUS
<1>1. Named(ActiveRules)'
    BY CompileNamed, OthersNamed
<1>2. CASE Compile \/ SanitizeLine
    <2>1. pass' # "rules"
        BY <1>2 DEF Compile, SanitizeLine
    <2> QED BY <1>1, <2>1, NothingJoined
<1>3. CASE Omit \/ Keep \/ GroupLogs \/ Repeat
    <2>1. pass' = pass /\ pass \in {"success", "logs", "repeats"}
        <3>1. CASE Omit BY <3>1 DEF Omit
        <3>2. CASE Keep BY <3>2 DEF Keep
        <3>3. CASE GroupLogs BY <3>3 DEF GroupLogs
        <3>4. CASE Repeat BY <3>4 DEF Repeat
        <3> QED BY <1>3, <3>1, <3>2, <3>3, <3>4
    <2> QED BY <1>1, <2>1, NothingJoined
<1>4. CASE Sanitized \/ Reduced \/ LogsGrouped \/ Aggregated \/ Repeated
    <2>1. out' = <<>>
        BY <1>4 DEF Sanitized, Reduced, LogsGrouped, Aggregated, Repeated, Enter
    <2> QED BY <1>1, <2>1, NothingJoined
<1>5. CASE Return \/ GuardLine \/ Refuse \/ Accept
    <2>1. pass' # "rules"
        BY <1>5 DEF Return, GuardLine, Refuse, Accept, Judge
    <2> QED BY <1>1, <2>1, NothingJoined
<1>6. CASE PassBy BY <1>1, <1>6, PassByAlike
<1>7. CASE Aggregate BY <1>1, <1>7, AggregateAlike
<1>8. CASE UNCHANGED reducerVars
    BY <1>1, <1>8 DEF reducerVars, AggregatedAlike, JustAggregated, ActiveRules, Protected, IsDiagnostic, IsTagged, Kind, IsBlank
<1> QED BY <1>1, <1>2, <1>3, <1>4, <1>5, <1>6, <1>7, <1>8 DEF ReducerNext

(* Lines that a rule joins differ in nothing but what it ignores           *)
(* (custom-rules.md: "every other byte participates in the comparison"),   *)
(* and none of them is blank, a diagnostic or a marker.                    *)
THEOREM JoinedLinesAreAlike == ReducerSpec => []AggregatedAlike
<1>1. ReducerInit => Named(ActiveRules) /\ AggregatedAlike
    <2> SUFFICES ASSUME ReducerInit PROVE Named(ActiveRules) /\ AggregatedAlike
        OBVIOUS
    <2>0. context = NoContext /\ pass = "compile"
        BY Zenon DEF ReducerInit
    <2>1. ActiveRules = <<>> /\ pass = "compile"
        BY <2>0 DEF ActiveRules, NoContext
    <2>2. JustAggregated = <<>>
        BY <2>1 DEF JustAggregated
    <2> QED BY <2>1, <2>2 DEF Named, AggregatedAlike
<1> QED BY <1>1, AlikeInductive, ReducerInvariant, PTL DEF ReducerSpec
===============================================================================
