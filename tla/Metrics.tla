------------------------------- MODULE Metrics -------------------------------
(***************************************************************************)
(* internal/metrics/metrics.go: invocations commit one JSON record each by *)
(* renaming ".tmp-N" to ".tmp-N.json" in one directory, while `stats` and  *)
(* `report` list it and add up what they read.  N is drawn at random by    *)
(* os.CreateTemp, which draws again only while ".tmp-N" itself exists.     *)
(***************************************************************************)
EXTENDS Naturals, FiniteSets, FiniteSetsExt, SequencesExt

CONSTANTS
    Writers,            \* processes that run Write
    Summaries,          \* processes that run Read
    Numbers,           \* the numbers N, in ReadDir's order
    Sessions, Families, \* session ids and compressor names
    Rules,              \* names of custom rules
    Outcomes,           \* what an invocation may come to
    All,                \* the empty session filter
    MaxRecords,         \* bound: how many invocations there are
    MayRepeat,          \* whether a number can be drawn again once it was used
    NoFile,
    Faults              \* which of "io" and "crash" may happen

ASSUME MetricsAssumption ==
    /\ Writers \cap Summaries = {} /\ Numbers \subseteq Nat
    /\ MaxRecords \in Nat /\ MayRepeat \in BOOLEAN /\ All \notin Sessions
    /\ \A o \in Outcomes :
         /\ o.reason \in STRING /\ o.changed \in BOOLEAN
         /\ o.original \in Nat /\ o.optimized \in 0..o.original
         /\ \A n \in DOMAIN o.rules : n \in Rules /\ o.rules[n] \in [groups : Nat, lines : Nat]
         /\ ~o.changed => o.optimized = o.original /\ o.rules = <<>>

(* How the engine ends: a reason, the sizes and, when it compressed, the   *)
(* effects of the custom rules.                                            *)
Record == [id : 1..MaxRecords, session : Sessions, family : Families, outcome : Outcomes]
NoRecord == [id |-> 0]
Reasons  == {o.reason : o \in Outcomes}
Procs  == Writers \cup Summaries

VARIABLES
    temp,     \* .tmp-N: whose record it is for, and whether all of it is there
    json,     \* .tmp-N.json
    drawn,    \* drawn[i]: the number of the i-th invocation
    pc,
    rec,      \* the record each writer commits
    names,    \* what each summary has still to read
    filter,   \* its session filter
    sums,     \* its totals
    counted,  \* history: the records it read and did not filter out
    kept,     \* history: records whose Write returned nil
    atStart   \* history: what was kept when each summary listed the directory

reading == <<names, filter, sums, counted, atStart>>
vars    == <<temp, json, drawn, pc, rec, kept, reading>>

NoTotal == [processed |-> 0, changed |-> 0, original |-> 0, optimized |-> 0]
Zero == [total  |-> NoTotal,
         family |-> [f \in Families |-> NoTotal],
         rule   |-> [n \in Rules |-> [records |-> 0, groups |-> 0, lines |-> 0]],
         reason |-> [x \in Reasons |-> 0]]

Goto(p, label) == pc' = [pc EXCEPT ![p] = label]
Number(w)      == drawn[rec[w].id]

Init ==
    /\ temp = [n \in Numbers |-> NoFile] /\ json = [n \in Numbers |-> NoFile]
    /\ drawn = <<>> /\ kept = {}
    /\ pc = [p \in Procs |-> "idle"] /\ rec = [w \in Writers |-> NoRecord]
    /\ names = [s \in Summaries |-> {}] /\ filter = [s \in Summaries |-> All]
    /\ sums = [s \in Summaries |-> Zero]
    /\ counted = [s \in Summaries |-> {}] /\ atStart = [s \in Summaries |-> {}]

-----------------------------------------------------------------------------
(* Write.                                                                  *)
Create(w, r, n) ==
    /\ pc[w] = "idle" /\ r.id = Len(drawn) + 1
    /\ temp[n] = NoFile
    /\ MayRepeat \/ n \notin ToSet(drawn)
    /\ temp'  = [temp EXCEPT ![n] = [rec |-> r, whole |-> FALSE]]
    /\ rec'   = [rec EXCEPT ![w] = r]
    /\ drawn' = Append(drawn, n)
    /\ Goto(w, "write")
    /\ UNCHANGED <<json, kept, reading>>

(* Mutant: the record is renamed before it has been written.               *)
FillAfterCommit(w) ==
    /\ pc[w] = "write" /\ Goto(w, "rename")
    /\ UNCHANGED <<temp, json, drawn, rec, kept, reading>>

(* The bytes go to the file this writer created, which may have lost its   *)
(* name since.                                                             *)
Fill(w) ==
    /\ pc[w] = "write"
    /\ temp' = IF temp[Number(w)] # NoFile /\ temp[Number(w)].rec = rec[w]
                 THEN [temp EXCEPT ![Number(w)].whole = TRUE] ELSE temp
    /\ Goto(w, "rename")
    /\ UNCHANGED <<json, drawn, rec, kept, reading>>

(* Rename takes whatever bears the temporary name, and replaces.           *)
Commit(w) ==
    /\ pc[w] = "rename"
    /\ IF temp[Number(w)] = NoFile
         THEN UNCHANGED <<temp, json, kept>>
         ELSE /\ json' = [json EXCEPT ![Number(w)] = temp[Number(w)]]
              /\ temp' = [temp EXCEPT ![Number(w)] = NoFile]
              /\ kept' = kept \cup {rec[w]}
    /\ Goto(w, "unlink")
    /\ UNCHANGED <<drawn, rec, reading>>

WriteFail(w) ==
    /\ "io" \in Faults
    /\ pc[w] \in {"write", "rename"}
    /\ Goto(w, "unlink")
    /\ UNCHANGED <<temp, json, drawn, rec, kept, reading>>

(* The deferred os.Remove(tmp), by name.                                   *)
Unlink(w) ==
    /\ pc[w] = "unlink"
    /\ temp' = [temp EXCEPT ![Number(w)] = NoFile]
    /\ rec'  = [rec EXCEPT ![w] = NoRecord]
    /\ Goto(w, "idle")
    /\ UNCHANGED <<json, drawn, kept, reading>>

Crash(w) ==
    /\ "crash" \in Faults
    /\ pc[w] # "idle"
    /\ rec' = [rec EXCEPT ![w] = NoRecord]
    /\ Goto(w, "idle")
    /\ UNCHANGED <<temp, json, drawn, kept, reading>>

-----------------------------------------------------------------------------
(* Read, for one session or for all of them.                               *)
List(s, session) ==
    /\ pc[s] = "idle"
    /\ names'   = [names EXCEPT ![s] = {n \in Numbers : json[n] # NoFile}]
    /\ filter'  = [filter EXCEPT ![s] = session]
    /\ sums'    = [sums EXCEPT ![s] = Zero]
    /\ counted' = [counted EXCEPT ![s] = {}]
    /\ atStart' = [atStart EXCEPT ![s] = kept]
    /\ Goto(s, "read")
    /\ UNCHANGED <<temp, json, drawn, rec, kept>>

(* Total.add.                                                              *)
Add(t, o) ==
    [processed |-> t.processed + 1,
     changed   |-> t.changed + IF o.changed THEN 1 ELSE 0,
     original  |-> t.original + o.original,
     optimized |-> t.optimized + o.optimized]

AddRule(t, effect) ==
    [records |-> t.records + 1,
     groups  |-> t.groups + effect.groups,
     lines   |-> t.lines + effect.lines]

(* Mutant: an unchanged record is left out of its family.                  *)
AddToChanged(t, r) ==
    [t EXCEPT !.total = Add(@, r.outcome),
              !.family[r.family] = IF r.outcome.changed THEN Add(@, r.outcome) ELSE @,
              !.reason[r.outcome.reason] = @ + 1]

AddTo(t, r) ==
    [t EXCEPT !.total = Add(@, r.outcome),
              !.family[r.family] = Add(@, r.outcome),
              !.reason[r.outcome.reason] = @ + 1,
              !.rule = [n \in Rules |-> IF r.outcome.changed /\ n \in DOMAIN r.outcome.rules
                                          THEN AddRule(@[n], r.outcome.rules[n]) ELSE @[n]]]

Wanted(s, r) == filter[s] \in {All, r.session}

(* The directory, or the next record, cannot be read.                      *)
ReadFail(s) ==
    /\ "io" \in Faults
    /\ pc[s] = "idle" \/ (pc[s] = "read" /\ names[s] # {})
    /\ Goto(s, "failed")
    /\ UNCHANGED <<temp, json, drawn, rec, kept, reading>>

(* Mutant: another session's record ends the loop.                         *)
ReadOneBreaks(s, n) ==
    /\ pc[s] = "read" /\ n = Min(names[s]) /\ json[n].whole
    /\ LET r == json[n].rec IN
         /\ names'   = [names EXCEPT ![s] = IF Wanted(s, r) THEN @ \ {n} ELSE {}]
         /\ sums'    = [sums EXCEPT ![s] = IF Wanted(s, r) THEN AddTo(@, r) ELSE @]
         /\ counted' = [counted EXCEPT ![s] = @ \cup {x \in {r} : Wanted(s, x)}]
    /\ UNCHANGED <<pc, temp, json, drawn, rec, kept, filter, atStart>>

ReadOne(s, n) ==
    /\ pc[s] = "read" /\ n = Min(names[s])
    /\ names' = [names EXCEPT ![s] = @ \ {n}]
    /\ IF ~json[n].whole
         THEN Goto(s, "garbled") /\ UNCHANGED <<sums, counted>>
         ELSE IF Wanted(s, json[n].rec)
         THEN /\ sums'    = [sums EXCEPT ![s] = AddTo(@, json[n].rec)]
              /\ counted' = [counted EXCEPT ![s] = @ \cup {json[n].rec}]
              /\ UNCHANGED pc
         ELSE UNCHANGED <<sums, counted, pc>>
    /\ UNCHANGED <<temp, json, drawn, rec, kept, filter, atStart>>

ReadEnd(s) ==
    /\ pc[s] = "read" /\ names[s] = {}
    /\ Goto(s, "done")
    /\ UNCHANGED <<temp, json, drawn, rec, kept, reading>>

Again(s) ==
    /\ pc[s] \in {"done", "failed", "garbled"}
    /\ Goto(s, "idle")
    /\ UNCHANGED <<temp, json, drawn, rec, kept, reading>>

-----------------------------------------------------------------------------
Next ==
    \/ \E w \in Writers :
         \/ Fill(w) \/ Commit(w) \/ WriteFail(w) \/ Unlink(w) \/ Crash(w)
         \/ \E r \in Record, n \in Numbers : Create(w, r, n)
    \/ \E s \in Summaries :
         \/ ReadEnd(s) \/ ReadFail(s) \/ Again(s)
         \/ \E session \in Sessions \cup {All} : List(s, session)
         \/ \E n \in names[s] : ReadOne(s, n)

Spec == Init /\ [][Next]_vars

-----------------------------------------------------------------------------
(* Each invocation counts: a record whose Write succeeded stays readable.  *)
Committed == {json[n].rec : n \in {n \in Numbers : json[n] # NoFile}}

EachInvocationCounts == kept \subseteq Committed

(* A summary never meets a half-written record: it fails only when a       *)
(* system call does.                                                       *)
NoneIsGarbled == \A s \in Summaries : pc[s] # "garbled"

(* report.Build: the rows of a report and their savings.                   *)
Saved(t) == t.original - t.optimized

Build(t) ==
    [saved   |-> Saved(t.total),
     tools   |-> [f \in {f \in Families : t.family[f].processed > 0} |-> Saved(t.family[f])],
     rules   |-> {n \in Rules : t.rule[n].records > 0},
     reasons |-> [x \in {x \in Reasons : t.reason[x] > 0} |-> t.reason[x]]]

(* A finished summary has added up, once each, all the records of its      *)
(* session that were kept before it began, and only records that were      *)
(* kept.                                                                   *)
SummaryIsExact ==
    \A s \in Summaries : pc[s] = "done" =>
        /\ {r \in atStart[s] : Wanted(s, r)} \subseteq counted[s]
        /\ counted[s] \subseteq {r \in kept : Wanted(s, r)}
        /\ sums[s].total.processed = Cardinality(counted[s])
        /\ sums[s].total.changed = Cardinality({r \in counted[s] : r.outcome.changed})

(* A report made of it is consistent: the savings by tool add up to the    *)
(* savings of exactly the outputs the host had reduced, every output has   *)
(* one reason and one tool, and a rule has a row, with all its lines, if   *)
(* and only if it took part in a reduced output.                           *)
ReportAddsUp ==
    \A s \in Summaries : pc[s] = "done" =>
        LET report  == Build(sums[s])
            reduced == {r \in counted[s] : r.outcome.changed}
            Of(n)   == {r \in reduced : n \in DOMAIN r.outcome.rules}
        IN  /\ report.saved = SumFunction(report.tools)
            /\ report.saved = SumFunction([r \in reduced |-> Saved(r.outcome)])
            /\ SumFunction(report.reasons) = Cardinality(counted[s])
            /\ report.rules = {n \in Rules : Of(n) # {}}
            /\ \A n \in report.rules :
                  sums[s].rule[n].lines =
                      SumFunction([r \in Of(n) |-> r.outcome.rules[n].lines])
=============================================================================
