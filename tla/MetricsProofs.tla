---------------------------- MODULE MetricsProofs ----------------------------
(***************************************************************************)
(* Committing records and adding them up, for any number of invocations    *)
(* and of summaries, provided that no random number is drawn twice: the    *)
(* summaries meet whole records only, each record counts once, and nothing *)
(* that was kept is left out.                                              *)
(***************************************************************************)
EXTENDS Metrics, FoldProofs

Entry == [rec : Record, whole : BOOLEAN]
Total == [processed : Nat, changed : Nat, original : Nat, optimized : Nat]
Sums  == [total : Total, family : [Families -> Total],
          rule : [Rules -> [records : Nat, groups : Nat, lines : Nat]],
          reason : [Reasons -> Nat]]

MetricsTypeOK ==
    /\ temp \in [Numbers -> Entry \cup {NoFile}] /\ json \in [Numbers -> Entry \cup {NoFile}]
    /\ drawn \in Seq(Numbers)
    /\ pc \in [Procs -> {"idle", "write", "rename", "unlink", "read", "done", "failed",
                      "garbled"}]
    /\ rec \in [Writers -> Record \cup {NoRecord}]
    /\ names \in [Summaries -> SUBSET Numbers]
    /\ filter \in [Summaries -> Sessions \cup {All}]
    /\ sums \in [Summaries -> Sums]
    /\ counted \in [Summaries -> SUBSET Record] /\ atStart \in [Summaries -> SUBSET Record]

(* A file is named by the number that was drawn for the record in it.      *)
Drawn(entry, n) == entry.rec.id \in DOMAIN drawn /\ drawn[entry.rec.id] = n

(* A number bears the temporary file or the record, and the record only    *)
(* once all of it was written.                                             *)
FilesInv ==
    /\ \A i, j \in DOMAIN drawn : drawn[i] = drawn[j] => i = j
    /\ \A n \in Numbers : temp[n] # NoFile => Drawn(temp[n], n) /\ json[n] = NoFile
    /\ \A n \in Numbers : json[n] # NoFile => Drawn(json[n], n) /\ json[n].whole

(* Active writers own different numbers, and what a writer finds under its *)
(* number is its own record, complete by the time it renames it.           *)
Owns(w) ==
    /\ pc[w] # "idle" => rec[w] \in Record /\ rec[w].id \in DOMAIN drawn
    /\ pc[w] \in {"write", "rename"} /\ temp[Number(w)] # NoFile =>
          temp[Number(w)].rec = rec[w] /\ (pc[w] = "rename" => temp[Number(w)].whole)

WritersInv ==
    /\ \A w \in Writers : Owns(w)
    /\ \A w, v \in Writers :
         w # v /\ pc[w] # "idle" /\ pc[v] # "idle" => rec[w].id # rec[v].id
    /\ kept = Committed

(* A summary under way has counted or has still to read each record that   *)
(* was there when it began, and none of them twice.                        *)
Reads(s) ==
    /\ \A n \in names[s] : json[n] # NoFile /\ json[n].rec \notin counted[s]
    /\ \A r \in atStart[s] : Wanted(s, r) =>
         r \in counted[s] \/ \E n \in names[s] : json[n].rec = r

Counts(s) ==
    /\ counted[s] \subseteq {r \in kept : Wanted(s, r)}
    /\ IsFiniteSet(counted[s])
    /\ sums[s].total.processed = Cardinality(counted[s])
    /\ sums[s].total.changed = Cardinality({r \in counted[s] : r.outcome.changed})

SummariesInv ==
    \A s \in Summaries :
      /\ pc[s] \in {"idle", "read", "done", "failed"}
      /\ pc[s] \in {"read", "done"} => Reads(s) /\ Counts(s)
      /\ pc[s] = "done" => names[s] = {}

MetricsInv == MetricsTypeOK /\ FilesInv /\ WritersInv /\ SummariesInv

-----------------------------------------------------------------------------
LEMMA RecordType ==
    \A r \in Record : /\ r.outcome \in Outcomes /\ r.family \in Families /\ r.session \in Sessions
                      /\ r.outcome.reason \in Reasons /\ r.outcome.changed \in BOOLEAN
                      /\ r.outcome.original \in Nat /\ r.outcome.optimized \in Nat
                      /\ \A n \in DOMAIN r.outcome.rules :
                           r.outcome.rules[n] \in [groups : Nat, lines : Nat]
    BY MetricsAssumption DEF Record, Reasons

LEMMA AddType ==
    ASSUME NEW t \in Total, NEW r \in Record
    PROVE  Add(t, r.outcome) \in Total
    BY RecordType DEF Add, Total

LEMMA AddToType ==
    ASSUME NEW t \in Sums, NEW r \in Record
    PROVE  /\ AddTo(t, r) \in Sums
           /\ AddTo(t, r).total = Add(t.total, r.outcome)
<1>. DEFINE Rows == [n \in Rules |-> IF r.outcome.changed /\ n \in DOMAIN r.outcome.rules
                                       THEN AddRule(t.rule[n], r.outcome.rules[n])
                                       ELSE t.rule[n]]
            Families1 == [t.family EXCEPT ![r.family] = Add(@, r.outcome)]
            Reasons1  == [t.reason EXCEPT ![r.outcome.reason] = @ + 1]
<1>1. Rows \in [Rules -> [records : Nat, groups : Nat, lines : Nat]]
    BY RecordType DEF AddRule, Sums
<1>2. Families1 \in [Families -> Total]
    BY RecordType, AddType DEF Sums
<1>3. Reasons1 \in [Reasons -> Nat]
    BY RecordType DEF Sums
<1>4. Add(t.total, r.outcome) \in Total
    BY AddType DEF Sums
<1>5. AddTo(t, r) = [t EXCEPT !.total = Add(t.total, r.outcome), !.family = Families1,
                              !.reason = Reasons1, !.rule = Rows]
    BY DEF AddTo, Sums
<1>. HIDE DEF Rows, Families1, Reasons1
<1> QED BY <1>1, <1>2, <1>3, <1>4, <1>5 DEF Sums

LEMMA ZeroType ==
    Zero \in Sums /\ Zero.total.processed = 0 /\ Zero.total.changed = 0
    BY DEF Zero, NoTotal, Sums, Total

(* Counting one more record.                                               *)
LEMMA CountOne ==
    ASSUME NEW S \in SUBSET Record, IsFiniteSet(S), NEW r \in Record, r \notin S
    PROVE  /\ IsFiniteSet(S \cup {r})
           /\ Cardinality(S \cup {r}) = Cardinality(S) + 1
           /\ Cardinality({x \in S \cup {r} : x.outcome.changed}) =
                Cardinality({x \in S : x.outcome.changed}) + IF r.outcome.changed THEN 1 ELSE 0
<1>. DEFINE C == {x \in S : x.outcome.changed}
            D == {x \in S \cup {r} : x.outcome.changed}
<1>1. IsFiniteSet(S \cup {r}) /\ Cardinality(S \cup {r}) = Cardinality(S) + 1
    BY FS_AddElement
<1>2. IsFiniteSet(C) /\ Cardinality(C) \in Nat
    BY FS_Subset, FS_CardinalityType
<1>3. r.outcome.changed => D = C \cup {r} /\ r \notin C
    OBVIOUS
<1>4. ~r.outcome.changed => D = C
    OBVIOUS
<1>5. Cardinality(D) = Cardinality(C) + IF r.outcome.changed THEN 1 ELSE 0
    <2>. HIDE DEF C, D
    <2>1. CASE r.outcome.changed
        BY <1>2, <1>3, <2>1, FS_AddElement
    <2>2. CASE ~r.outcome.changed
        BY <1>2, <1>4, <2>2
    <2> QED BY <2>1, <2>2
<1> QED BY <1>1, <1>5

-----------------------------------------------------------------------------
(* Steps of a writer that only change the temporary file under its number, *)
(* or nothing at all, and take it to the end of its call.                  *)
LEMMA Apart ==
    ASSUME MetricsTypeOK, FilesInv, WritersInv,
           NEW w \in Writers, pc[w] # "idle", NEW v \in Writers, v # w, pc[v] # "idle"
    PROVE  Number(v) # Number(w) /\ Number(w) \in Numbers /\ Number(v) \in Numbers
<1>1. /\ rec[w].id \in DOMAIN drawn /\ rec[v].id \in DOMAIN drawn
      /\ rec[w].id # rec[v].id
    BY DEF WritersInv, Owns
<1> QED BY <1>1 DEF FilesInv, Number, MetricsTypeOK

LEMMA OwnNumber ==
    ASSUME MetricsTypeOK, WritersInv, NEW w \in Writers, pc[w] # "idle"
    PROVE  Number(w) \in Numbers /\ rec[w] \in Record /\ drawn[rec[w].id] = Number(w)
    BY DEF WritersInv, Owns, MetricsTypeOK, Number

LEMMA WritersAreNotSummaries ==
    Writers \subseteq Procs /\ Summaries \subseteq Procs
        /\ \A w \in Writers, s \in Summaries : w # s
    BY MetricsAssumption DEF Procs

(* What a summary knows does not depend on the writers' own state.         *)
LEMMA SummariesFrame ==
    ASSUME MetricsTypeOK, SummariesInv, UNCHANGED reading,
           \A s \in Summaries : pc'[s] = pc[s],
           \A n \in Numbers : json[n] # NoFile => json'[n] = json[n],
           kept \subseteq kept'
    PROVE  SummariesInv'
<1>. SUFFICES ASSUME NEW s \in Summaries, pc[s] \in {"read", "done"}
              PROVE  Reads(s)' /\ Counts(s)'
    BY DEF SummariesInv, reading
<1>1. Reads(s) /\ Counts(s) /\ names[s] \subseteq Numbers
    BY DEF SummariesInv, MetricsTypeOK
<1>2. Reads(s)'
    BY <1>1 DEF Reads, reading, Wanted
<1>3. Counts(s)'
    BY <1>1 DEF Counts, reading, Wanted
<1> QED BY <1>2, <1>3

LEMMA CreateStep ==
    ASSUME MetricsInv, ~MayRepeat, NEW w \in Writers, NEW r \in Record, NEW n \in Numbers,
           Create(w, r, n)
    PROVE  MetricsInv'
<1>. USE WritersAreNotSummaries DEF MetricsInv
<1>1. /\ drawn' \in Seq(Numbers) /\ Len(drawn') = Len(drawn) + 1
      /\ \A i \in DOMAIN drawn : i \in DOMAIN drawn' /\ drawn'[i] = drawn[i] /\ drawn[i] # n
      /\ r.id \in DOMAIN drawn' /\ drawn'[r.id] = n /\ r.id \notin DOMAIN drawn
      /\ DOMAIN drawn' = DOMAIN drawn \cup {r.id}
    BY DEF MetricsTypeOK, Create, ToSet
<1>2. json[n] = NoFile
    BY <1>1 DEF FilesInv, Drawn
<1>3. /\ temp' = [temp EXCEPT ![n] = [rec |-> r, whole |-> FALSE]]
      /\ [rec |-> r, whole |-> FALSE] \in Entry
      /\ rec' = [rec EXCEPT ![w] = r] /\ pc' = [pc EXCEPT ![w] = "write"]
      /\ pc[w] = "idle" /\ UNCHANGED <<json, kept, reading>>
    BY DEF Create, Goto, Entry
<1>4. MetricsTypeOK'
    BY <1>1, <1>3 DEF MetricsTypeOK, reading
<1>5. FilesInv'
    <2>1. \A i, j \in DOMAIN drawn' : drawn'[i] = drawn'[j] => i = j
        BY <1>1 DEF FilesInv
    <2>2. ASSUME NEW m \in Numbers, temp'[m] # NoFile
          PROVE  Drawn(temp[m], m)' /\ json'[m] = NoFile
        BY <1>1, <1>2, <1>3, <2>2 DEF FilesInv, Drawn, MetricsTypeOK
    <2>3. ASSUME NEW m \in Numbers, json'[m] # NoFile
          PROVE  Drawn(json[m], m)' /\ json'[m].whole
        BY <1>1, <1>3, <2>3 DEF FilesInv, Drawn, MetricsTypeOK
    <2> QED BY <2>1, <2>2, <2>3 DEF FilesInv
<1>6. WritersInv'
    <2>1. ASSUME NEW v \in Writers PROVE Owns(v)'
        <3>1. CASE v = w
            BY <1>1, <1>3, <3>1 DEF Owns, Number, MetricsTypeOK
        <3>2. CASE v # w
            <4>1. /\ pc'[v] = pc[v] /\ rec'[v] = rec[v] /\ Owns(v)
                BY <1>3, <3>2 DEF MetricsTypeOK, WritersInv
            <4>2. CASE pc[v] = "idle"
                BY <4>1, <4>2 DEF Owns
            <4>3. CASE pc[v] # "idle"
                <5>1. rec[v].id \in DOMAIN drawn
                    BY <4>1, <4>3 DEF Owns
                <5>2. Number(v)' = Number(v) /\ Number(v) \in Numbers /\ Number(v) # n
                    BY <1>1, <4>1, <5>1 DEF Number, MetricsTypeOK
                <5>3. temp'[Number(v)] = temp[Number(v)]
                    BY <1>3, <5>2 DEF MetricsTypeOK
                <5> QED BY <1>1, <4>1, <5>1, <5>2, <5>3 DEF Owns
            <4> QED BY <4>2, <4>3
        <3> QED BY <3>1, <3>2
    <2>2. ASSUME NEW u \in Writers, NEW v \in Writers, u # v, pc'[u] # "idle", pc'[v] # "idle"
          PROVE  rec'[u].id # rec'[v].id
        <3>1. \A x \in Writers : x # w /\ pc'[x] # "idle" =>
                  pc[x] # "idle" /\ rec'[x] = rec[x] /\ rec[x].id # r.id
            BY <1>1, <1>3 DEF MetricsTypeOK, WritersInv, Owns
        <3>2. rec'[w].id = r.id
            BY <1>3 DEF MetricsTypeOK
        <3> QED BY <2>2, <3>1, <3>2 DEF WritersInv
    <2>3. kept' = Committed'
        BY <1>3 DEF WritersInv, Committed
    <2> QED BY <2>1, <2>2, <2>3 DEF WritersInv
<1>7. SummariesInv'
    BY <1>3, SummariesFrame DEF MetricsTypeOK
<1> QED BY <1>4, <1>5, <1>6, <1>7

(* A step of a writer under way that commits nothing: it may only have     *)
(* changed the temporary file under its own number.                        *)
LEMMA OwnFileStep ==
    ASSUME MetricsInv, NEW w \in Writers, pc[w] # "idle",
           NEW label \in {"idle", "rename", "unlink"}, pc' = [pc EXCEPT ![w] = label],
           rec' \in {rec, [rec EXCEPT ![w] = NoRecord]}, label # "idle" => rec' = rec,
           NEW entry \in Entry \cup {NoFile}, temp' = [temp EXCEPT ![Number(w)] = entry],
           \/ entry = NoFile
           \/ temp[Number(w)] # NoFile /\ entry.rec = temp[Number(w)].rec,
           label = "rename" => pc[w] = "write" /\ (entry # NoFile => entry.whole),
           UNCHANGED <<json, drawn, kept, reading>>
    PROVE  MetricsInv'
<1>. USE WritersAreNotSummaries DEF MetricsInv
<1>0. Number(w) \in Numbers
    BY OwnNumber
<1>1. MetricsTypeOK'
    BY <1>0 DEF MetricsTypeOK, reading
<1>2. FilesInv'
    BY <1>0 DEF FilesInv, Drawn, MetricsTypeOK
<1>3. WritersInv'
    <2>1. ASSUME NEW v \in Writers PROVE Owns(v)'
        <3>1. CASE v = w
            <4>1. Owns(w)
                BY DEF WritersInv
            <4>2. CASE label = "idle"
                BY <3>1, <4>2 DEF Owns, MetricsTypeOK
            <4>3. CASE label # "idle"
                <5>1. rec' = rec /\ Number(w)' = Number(w) /\ pc'[w] = label
                    BY <4>3 DEF Number, MetricsTypeOK
                <5>2. temp'[Number(w)] = entry
                    BY <1>0 DEF MetricsTypeOK
                <5> QED BY <3>1, <4>1, <5>1, <5>2 DEF Owns
            <4> QED BY <4>2, <4>3
        <3>2. CASE v # w
            <4>1. pc'[v] = pc[v] /\ rec'[v] = rec[v] /\ Owns(v)
                BY <3>2 DEF MetricsTypeOK, WritersInv
            <4>2. CASE pc[v] = "idle"
                BY <4>1, <4>2 DEF Owns
            <4>3. CASE pc[v] # "idle"
                <5>1. Number(v)' = Number(v) /\ temp'[Number(v)] = temp[Number(v)]
                    BY <3>2, <4>1, <4>3, Apart DEF MetricsTypeOK, Number
                <5> QED BY <4>1, <5>1 DEF Owns
            <4> QED BY <4>2, <4>3
        <3> QED BY <3>1, <3>2
    <2>2. \A x \in Writers : pc'[x] # "idle" => pc[x] # "idle" /\ rec'[x] = rec[x]
        BY DEF MetricsTypeOK
    <2>3. kept' = Committed'
        BY DEF WritersInv, Committed
    <2> QED BY <2>1, <2>2, <2>3 DEF WritersInv
<1>4. SummariesInv'
    BY SummariesFrame DEF MetricsTypeOK
<1> QED BY <1>1, <1>2, <1>3, <1>4

LEMMA QuietStep ==
    ASSUME MetricsInv, NEW w \in Writers, Fill(w) \/ WriteFail(w) \/ Unlink(w) \/ Crash(w)
    PROVE  MetricsInv'
<1>. USE WritersAreNotSummaries
<1>1. pc[w] # "idle"
    BY DEF Fill, WriteFail, Unlink, Crash
<1>. DEFINE own == temp[Number(w)]
<1>2. /\ Number(w) \in Numbers /\ own \in Entry \cup {NoFile}
      /\ temp = [temp EXCEPT ![Number(w)] = own]
    BY <1>1, OwnNumber DEF MetricsInv, MetricsTypeOK
<1>3. CASE Fill(w)
    <2>1. CASE own # NoFile
        <3>. DEFINE entry == [own EXCEPT !.whole = TRUE]
        <3>1. own.rec = rec[w] /\ own \in Entry
            BY <1>2, <1>3, <2>1 DEF Fill, MetricsInv, WritersInv, Owns
        <3>2. entry \in Entry /\ entry.rec = own.rec /\ entry.whole
            BY <3>1 DEF Entry
        <3>3. temp' = [temp EXCEPT ![Number(w)] = entry]
            BY <1>2, <1>3, <2>1, <3>1 DEF Fill, MetricsInv, MetricsTypeOK
        <3>. HIDE DEF entry
        <3> QED BY <1>1, <1>3, <2>1, <3>2, <3>3, OwnFileStep DEF Fill, Goto
    <2>2. CASE own = NoFile
        BY <1>1, <1>2, <1>3, <2>2, OwnFileStep DEF Fill, Goto
    <2> QED BY <2>1, <2>2
<1>4. CASE WriteFail(w)
    BY <1>1, <1>2, <1>4, OwnFileStep DEF WriteFail, Goto
<1>5. CASE Unlink(w)
    BY <1>1, <1>2, <1>5, OwnFileStep DEF Unlink, Goto
<1>6. CASE Crash(w)
    BY <1>1, <1>2, <1>6, OwnFileStep DEF Crash, Goto
<1> QED BY <1>3, <1>4, <1>5, <1>6

(* The rename replaces nothing, and brings in the writer's own record.     *)
LEMMA CommitStep ==
    ASSUME MetricsInv, NEW w \in Writers, Commit(w)
    PROVE  MetricsInv'
<1>. USE WritersAreNotSummaries
<1>. DEFINE N == Number(w)
<1>1. /\ pc[w] = "rename" /\ N \in Numbers /\ pc' = [pc EXCEPT ![w] = "unlink"]
      /\ UNCHANGED <<drawn, rec, reading>> /\ temp[N] \in Entry \cup {NoFile}
    BY OwnNumber DEF Commit, Goto, MetricsInv, MetricsTypeOK
<1>2. CASE temp[N] = NoFile
    <2>1. temp = [temp EXCEPT ![N] = NoFile]
        BY <1>1, <1>2 DEF MetricsInv, MetricsTypeOK
    <2> QED BY <1>1, <1>2, <2>1, OwnFileStep DEF Commit
<1>3. CASE temp[N] # NoFile
    <2>1. /\ json' = [json EXCEPT ![N] = temp[N]] /\ temp' = [temp EXCEPT ![N] = NoFile]
          /\ kept' = kept \cup {rec[w]}
        BY <1>3 DEF Commit
    <2>2. /\ temp[N].rec = rec[w] /\ temp[N].whole /\ temp[N] \in Entry
          /\ Drawn(temp[N], N) /\ json[N] = NoFile
        BY <1>1, <1>3 DEF MetricsInv, WritersInv, Owns, FilesInv
    <2>3. MetricsTypeOK'
        BY <1>1, <2>1, <2>2 DEF MetricsInv, MetricsTypeOK, reading
    <2>4. FilesInv'
        BY <1>1, <2>1, <2>2 DEF MetricsInv, FilesInv, MetricsTypeOK, Drawn
    <2>5. WritersInv'
        <3>1. ASSUME NEW v \in Writers PROVE Owns(v)'
            <4>1. CASE v = w
                BY <1>1, <4>1 DEF Owns, MetricsInv, WritersInv, MetricsTypeOK
            <4>2. CASE v # w
                <5>1. pc'[v] = pc[v] /\ rec'[v] = rec[v] /\ Owns(v)
                    BY <1>1, <4>2 DEF MetricsInv, MetricsTypeOK, WritersInv
                <5>2. CASE pc[v] # "idle"
                    <6>1. Number(v)' = Number(v) /\ temp'[Number(v)] = temp[Number(v)]
                        BY <1>1, <2>1, <4>2, <5>1, <5>2, Apart
                        DEF MetricsInv, MetricsTypeOK, Number
                    <6> QED BY <1>1, <5>1, <6>1 DEF Owns
                <5> QED BY <5>1, <5>2 DEF Owns
            <4> QED BY <4>1, <4>2
        <3>2. \A x \in Writers : pc'[x] # "idle" => pc[x] # "idle" /\ rec'[x] = rec[x]
            BY <1>1 DEF MetricsInv, MetricsTypeOK
        <3>3. kept' = Committed'
            <4>1. /\ json'[N] = temp[N] /\ N \in Numbers
                  /\ \A n \in Numbers : n # N => json'[n] = json[n]
                BY <1>1, <2>1 DEF MetricsInv, MetricsTypeOK
            <4>2. Committed' = Committed \cup {temp[N].rec}
                BY <1>3, <2>2, <4>1 DEF Committed
            <4> QED BY <2>1, <2>2, <4>2 DEF MetricsInv, WritersInv
        <3> QED BY <3>1, <3>2, <3>3 DEF MetricsInv, WritersInv
    <2>6. SummariesInv'
        BY <1>1, <2>1, <2>2, SummariesFrame DEF MetricsInv, MetricsTypeOK
    <2> QED BY <2>3, <2>4, <2>5, <2>6 DEF MetricsInv
<1> QED BY <1>2, <1>3

-----------------------------------------------------------------------------
(* A step of a summary changes nothing of the writers.                     *)
LEMMA WritersFrame ==
    ASSUME MetricsInv, UNCHANGED <<temp, json, drawn, rec, kept>>,
           \A w \in Writers : pc'[w] = pc[w]
    PROVE  FilesInv' /\ WritersInv'
<1>1. FilesInv'
    BY DEF MetricsInv, FilesInv, Drawn
<1>2. WritersInv'
    BY DEF MetricsInv, WritersInv, Owns, Number, Committed
<1> QED BY <1>1, <1>2

(* Nor of another summary.                                                 *)
LEMMA OtherSummaries ==
    ASSUME MetricsInv, UNCHANGED <<json, kept>>, NEW s \in Summaries,
           \A t \in Summaries \ {s} :
             /\ pc'[t] = pc[t] /\ names'[t] = names[t] /\ filter'[t] = filter[t]
             /\ sums'[t] = sums[t] /\ counted'[t] = counted[t] /\ atStart'[t] = atStart[t],
           pc'[s] \in {"idle", "read", "done", "failed"},
           pc'[s] \in {"read", "done"} => Reads(s)' /\ Counts(s)',
           pc'[s] = "done" => names'[s] = {}
    PROVE  SummariesInv'
<1>1. ASSUME NEW t \in Summaries, t # s PROVE (Reads(t) => Reads(t)') /\ (Counts(t) => Counts(t)')
    BY <1>1 DEF Reads, Counts, Wanted
<1> QED BY <1>1 DEF SummariesInv, MetricsInv

LEMMA ListStep ==
    ASSUME MetricsInv, NEW s \in Summaries, NEW session \in Sessions \cup {All}, List(s, session)
    PROVE  MetricsInv'
<1>. USE WritersAreNotSummaries
<1>1. MetricsTypeOK'
    BY ZeroType DEF MetricsInv, MetricsTypeOK, List, Goto, WritersInv, Committed, Entry
<1>2. FilesInv' /\ WritersInv'
    BY WritersFrame DEF MetricsInv, MetricsTypeOK, List, Goto
<1>3. /\ names'[s] = {n \in Numbers : json[n] # NoFile} /\ counted'[s] = {}
      /\ atStart'[s] = kept /\ sums'[s] = Zero /\ pc'[s] = "read"
    BY DEF MetricsInv, MetricsTypeOK, List, Goto
<1>4. Reads(s)'
    BY <1>3 DEF Reads, Wanted, List, MetricsInv, WritersInv, Committed
<1>5. Counts(s)'
    <2>1. {r \in counted'[s] : r.outcome.changed} = {}
        BY <1>3
    <2> QED BY <1>3, <2>1, ZeroType, FS_EmptySet DEF Counts
<1>6. SummariesInv'
    BY <1>3, <1>4, <1>5, OtherSummaries DEF MetricsInv, MetricsTypeOK, List, Goto
<1> QED BY <1>1, <1>2, <1>6 DEF MetricsInv

LEMMA ReadOneStep ==
    ASSUME MetricsInv, NEW s \in Summaries, NEW n \in names[s], ReadOne(s, n)
    PROVE  MetricsInv'
<1>. USE WritersAreNotSummaries
<1>. DEFINE r == json[n].rec
<1>1. /\ pc[s] = "read" /\ names' = [names EXCEPT ![s] = @ \ {n}]
      /\ UNCHANGED <<temp, json, drawn, rec, kept, filter, atStart>>
    BY DEF ReadOne
<1>2. /\ Reads(s) /\ Counts(s) /\ n \in Numbers /\ json[n] # NoFile /\ json[n].whole
      /\ json[n] \in Entry /\ r \in Record /\ r \in kept
    BY <1>1 DEF MetricsInv, MetricsTypeOK, FilesInv, WritersInv, SummariesInv, Reads, Committed,
                Entry
<1>3. \A m \in names[s] : m # n => json[m].rec # r
    BY <1>2 DEF MetricsInv, MetricsTypeOK, FilesInv, Reads, Drawn
<1>4. /\ pc' = pc
      /\ \/ /\ Wanted(s, r) /\ sums' = [sums EXCEPT ![s] = AddTo(@, r)]
            /\ counted' = [counted EXCEPT ![s] = @ \cup {r}]
         \/ ~Wanted(s, r) /\ UNCHANGED <<sums, counted>>
    BY <1>2 DEF ReadOne
<1>5. MetricsTypeOK'
    <2>1. sums' \in [Summaries -> Sums] /\ counted' \in [Summaries -> SUBSET Record]
        <3>1. sums[s] \in Sums /\ AddTo(sums[s], r) \in Sums
            BY <1>2, AddToType DEF MetricsInv, MetricsTypeOK
        <3>2. sums \in [Summaries -> Sums] /\ counted \in [Summaries -> SUBSET Record] /\ r \in Record
            BY <1>2 DEF MetricsInv, MetricsTypeOK
        <3>. HIDE DEF r
        <3>3. sums' \in [Summaries -> Sums]
            BY <1>4, <3>1, <3>2
        <3>4. counted' \in [Summaries -> SUBSET Record]
            BY <1>4, <3>2
        <3> QED BY <3>3, <3>4
    <2>2. names' \in [Summaries -> SUBSET Numbers]
        BY <1>1 DEF MetricsInv, MetricsTypeOK
    <2> QED BY <1>1, <1>4, <2>1, <2>2 DEF MetricsInv, MetricsTypeOK
<1>6. FilesInv' /\ WritersInv'
    BY <1>1, <1>4, WritersFrame
<1>7. names'[s] = names[s] \ {n}
    BY <1>1 DEF MetricsInv, MetricsTypeOK
<1>8. Reads(s)' /\ Counts(s)'
    <2>1. CASE Wanted(s, r)
        <3>1. counted'[s] = counted[s] \cup {r} /\ sums'[s] = AddTo(sums[s], r)
            BY <1>4, <2>1 DEF MetricsInv, MetricsTypeOK
        <3>2. Reads(s)'
            BY <1>1, <1>2, <1>3, <1>7, <3>1 DEF Reads, Wanted
        <3>3. sums'[s].total = Add(sums[s].total, r.outcome) /\ sums[s] \in Sums
            BY <1>2, <3>1, AddToType DEF MetricsInv, MetricsTypeOK
        <3>4. /\ counted[s] \in SUBSET Record /\ IsFiniteSet(counted[s]) /\ r \notin counted[s]
            BY <1>2 DEF MetricsInv, MetricsTypeOK, Counts, Reads
        <3>5. Counts(s)'
            <4>1. counted'[s] \subseteq {x \in kept' : Wanted(s, x)'}
                BY <1>1, <1>2, <2>1, <3>1 DEF Counts, Wanted
            <4>2. /\ sums'[s].total.processed = sums[s].total.processed + 1
                  /\ sums'[s].total.changed =
                       sums[s].total.changed + IF r.outcome.changed THEN 1 ELSE 0
                BY <3>3 DEF Add
            <4>3. /\ IsFiniteSet(counted'[s])
                  /\ Cardinality(counted'[s]) = Cardinality(counted[s]) + 1
                  /\ Cardinality({x \in counted'[s] : x.outcome.changed}) =
                       Cardinality({x \in counted[s] : x.outcome.changed})
                         + IF r.outcome.changed THEN 1 ELSE 0
                <5>. DEFINE S == counted[s]
                <5>1. /\ IsFiniteSet(S \cup {r}) /\ Cardinality(S \cup {r}) = Cardinality(S) + 1
                      /\ Cardinality({x \in S \cup {r} : x.outcome.changed}) =
                           Cardinality({x \in S : x.outcome.changed})
                             + IF r.outcome.changed THEN 1 ELSE 0
                    <6>. HIDE DEF S, r
                    <6>1. S \in SUBSET Record /\ IsFiniteSet(S) /\ r \in Record /\ r \notin S
                        BY <1>2, <3>4 DEF S, r
                    <6> QED BY <6>1, CountOne
                <5> QED BY <3>1, <5>1
            <4> QED BY <1>2, <4>1, <4>2, <4>3 DEF Counts
        <3> QED BY <3>2, <3>5
    <2>2. CASE ~Wanted(s, r)
        BY <1>1, <1>2, <1>4, <1>7, <2>2 DEF Reads, Counts, Wanted
    <2> QED BY <2>1, <2>2
<1>9. SummariesInv'
    BY <1>1, <1>4, <1>8, OtherSummaries DEF MetricsInv, MetricsTypeOK
<1> QED BY <1>5, <1>6, <1>9 DEF MetricsInv

LEMMA EndStep ==
    ASSUME MetricsInv, NEW s \in Summaries, ReadEnd(s) \/ ReadFail(s) \/ Again(s)
    PROVE  MetricsInv'
<1>. USE WritersAreNotSummaries
<1>1. MetricsTypeOK'
    BY DEF MetricsInv, MetricsTypeOK, ReadEnd, ReadFail, Again, Goto, reading
<1>2. FilesInv' /\ WritersInv'
    BY WritersFrame DEF MetricsInv, MetricsTypeOK, ReadEnd, ReadFail, Again, Goto
<1>3. UNCHANGED <<json, kept, reading>>
      /\ (pc'[s] \in {"idle", "failed"} \/ (pc[s] = "read" /\ pc'[s] = "done" /\ names[s] = {}))
    BY DEF MetricsInv, MetricsTypeOK, ReadEnd, ReadFail, Again, Goto
<1>4. (Reads(s) => Reads(s)') /\ (Counts(s) => Counts(s)')
    BY <1>3 DEF Reads, Counts, Wanted, reading
<1>5. SummariesInv'
    <2>1. pc[s] = "read" => Reads(s) /\ Counts(s)
        BY DEF MetricsInv, SummariesInv
    <2>2. \A t \in Summaries \ {s} : pc'[t] = pc[t]
        BY DEF MetricsInv, MetricsTypeOK, ReadEnd, ReadFail, Again, Goto
    <2> QED BY <1>3, <1>4, <2>1, <2>2, OtherSummaries DEF reading
<1> QED BY <1>1, <1>2, <1>5 DEF MetricsInv

-----------------------------------------------------------------------------
LEMMA MetricsStep ==
    ASSUME ~MayRepeat, MetricsInv, [Next]_vars
    PROVE  MetricsInv'
<1>1. CASE UNCHANGED vars
    <2>1. MetricsTypeOK'
        BY <1>1 DEF vars, reading, MetricsInv, MetricsTypeOK
    <2>2. FilesInv' /\ WritersInv'
        BY <1>1, WritersFrame DEF vars
    <2>3. SummariesInv'
        BY <1>1, SummariesFrame DEF vars, MetricsInv
    <2> QED BY <2>1, <2>2, <2>3 DEF MetricsInv
<1> QED BY <1>1, CreateStep, QuietStep, CommitStep, ListStep, ReadOneStep, EndStep DEF Next

LEMMA MetricsStart == Init => MetricsInv
<1>. SUFFICES ASSUME Init PROVE MetricsInv
    OBVIOUS
<1>1. MetricsTypeOK /\ FilesInv
    BY ZeroType DEF Init, MetricsTypeOK, FilesInv
<1>2. WritersInv /\ SummariesInv
    BY WritersAreNotSummaries DEF Init, WritersInv, Owns, Committed, SummariesInv
<1> QED BY <1>1, <1>2 DEF MetricsInv

(* While no number is drawn twice, the files, the writers and the          *)
(* summaries stay as MetricsInv says.                                      *)
THEOREM MetricsInvariant ==
    ASSUME ~MayRepeat
    PROVE  Spec => []MetricsInv
<1>1. MetricsInv /\ [Next]_vars => MetricsInv'
    BY MetricsStep
<1> QED BY <1>1, MetricsStart, PTL DEF Spec

(* A record whose Write returned nil stays in the directory.               *)
THEOREM InvocationsCount ==
    ASSUME ~MayRepeat
    PROVE  Spec => []EachInvocationCounts
<1>1. MetricsInv => EachInvocationCounts
    BY DEF MetricsInv, WritersInv, EachInvocationCounts
<1> QED BY <1>1, MetricsInvariant, PTL

(* A summary fails only when a system call does: no record is incomplete.  *)
THEOREM RecordsAreWhole ==
    ASSUME ~MayRepeat
    PROVE  Spec => []NoneIsGarbled
<1>1. MetricsInv => NoneIsGarbled
    BY DEF MetricsInv, SummariesInv, NoneIsGarbled
<1> QED BY <1>1, MetricsInvariant, PTL

(* A finished summary has counted each record of its session that was kept *)
(* before it began, once, and only records that were kept.                 *)
THEOREM SummariesAreExact ==
    ASSUME ~MayRepeat
    PROVE  Spec => []SummaryIsExact
<1>1. MetricsInv => SummaryIsExact
    BY DEF MetricsInv, SummariesInv, Reads, Counts, SummaryIsExact
<1> QED BY <1>1, MetricsInvariant, PTL

-----------------------------------------------------------------------------
(* What a summary has booked agrees, figure by figure, with the records it *)
(* has counted: whatever it adds to one table it adds to the others.       *)
Changed(S) == {r \in S : r.outcome.changed}
Took(n, S) == {r \in Changed(S) : n \in DOMAIN r.outcome.rules}
SavedBy    == [r \in Record |-> Saved(r.outcome)]
SavedIn(t) == [f \in Families |-> Saved(t.family[f])]
LinesOf(n) == [r \in Record |-> IF n \in DOMAIN r.outcome.rules
                                   THEN r.outcome.rules[n].lines ELSE 0]
Tools(t)   == {f \in Families : t.family[f].processed > 0}
Given(t)   == {x \in Reasons : t.reason[x] > 0}

BookedTools(t, S) ==
    /\ IsFiniteSet(Tools(t))
    /\ \A f \in Families \ Tools(t) : Saved(t.family[f]) = 0
    /\ Saved(t.total) = SumOver(SavedIn(t), Tools(t))

BookedRecords(t, S) == Saved(t.total) = SumOver(SavedBy, Changed(S))

BookedReasons(t, S) ==
    /\ IsFiniteSet(Given(t))
    /\ Cardinality(S) = SumOver(t.reason, Given(t))

BookedRule(t, S, n) ==
    /\ t.rule[n].records > 0 <=> Took(n, S) # {}
    /\ t.rule[n].lines = SumOver(LinesOf(n), Took(n, S))

Booked(t, S) ==
    /\ BookedTools(t, S) /\ BookedRecords(t, S) /\ BookedReasons(t, S)
    /\ \A n \in Rules : BookedRule(t, S, n)

(* The tables of AddTo, one by one.                                        *)
LEMMA AddToTables ==
    ASSUME NEW t \in Sums, NEW r \in Record
    PROVE  /\ AddTo(t, r).total = Add(t.total, r.outcome)
           /\ AddTo(t, r).family = [t.family EXCEPT ![r.family] = Add(@, r.outcome)]
           /\ AddTo(t, r).reason = [t.reason EXCEPT ![r.outcome.reason] = @ + 1]
           /\ AddTo(t, r).rule =
                [n \in Rules |-> IF r.outcome.changed /\ n \in DOMAIN r.outcome.rules
                                   THEN AddRule(t.rule[n], r.outcome.rules[n]) ELSE t.rule[n]]
    BY DEF AddTo, Sums

LEMMA SavedMore ==
    ASSUME NEW t \in Total, NEW r \in Record
    PROVE  /\ Saved(t) \in Int /\ Saved(r.outcome) \in Int
           /\ Saved(Add(t, r.outcome)) = Saved(t) + Saved(r.outcome)
           /\ ~r.outcome.changed => Saved(r.outcome) = 0
<1>1. /\ t.original \in Nat /\ t.optimized \in Nat
      /\ r.outcome.original \in Nat /\ r.outcome.optimized \in Nat
      /\ ~r.outcome.changed => r.outcome.optimized = r.outcome.original
    BY RecordType, MetricsAssumption DEF Total
<1> QED BY <1>1 DEF Saved, Add

LEMMA BookTools ==
    ASSUME NEW t \in Sums, NEW S, NEW r \in Record, BookedTools(t, S)
    PROVE  BookedTools(AddTo(t, r), S \cup {r})
<1>. DEFINE u == AddTo(t, r)  x == r.family  T == Tools(t)
            f == SavedIn(t)   e == SavedIn(u)  d == Saved(r.outcome)
<1>1. x \in Families /\ t.family[x] \in Total /\ t.total \in Total /\ t.family \in [Families -> Total]
    BY RecordType DEF Sums
<1>2. u.family = [t.family EXCEPT ![x] = Add(@, r.outcome)] /\ u.total = Add(t.total, r.outcome)
    BY AddToTables
<1>3. u.family[x].processed = t.family[x].processed + 1 /\ t.family[x].processed \in Nat
    BY <1>1, <1>2 DEF Add, Total
<1>4. /\ \A y \in Families : f[y] \in Int /\ f[y] = Saved(t.family[y])
      /\ \A y \in Families \ {x} : u.family[y] = t.family[y] /\ e[y] = f[y]
    <2>1. \A y \in Families : Saved(t.family[y]) \in Int
        BY <1>1, SavedMore
    <2> QED BY <1>1, <1>2, <2>1 DEF SavedIn
<1>5. e[x] = f[x] + d /\ d \in Int
    BY <1>1, <1>2, SavedMore DEF SavedIn
<1>6. Tools(u) = T \cup {x}
    BY <1>1, <1>3, <1>4 DEF Tools
<1>7. IsFiniteSet(T) /\ IsFiniteSet(T \cup {x})
    BY FS_AddElement DEF BookedTools
<1>8. \A y \in Families \ Tools(u) : Saved(u.family[y]) = 0
    BY <1>4, <1>6 DEF BookedTools
<1>9. SumOver(e, T \cup {x}) = SumOver(f, T) + d
    <2>1. T \subseteq Families /\ (x \notin T => f[x] = 0)
        BY <1>1, <1>4 DEF Tools, BookedTools
    <2>2. /\ \A y \in T \cup {x} : f[y] \in Int
          /\ \A y \in T \ {x} : e[y] = f[y]
        BY <1>1, <1>4, <2>1
    <2>. HIDE DEF T, f, e, d, x
    <2> QED BY <1>5, <1>7, <2>1, <2>2, SumGrow
<1>10. Saved(u.total) = Saved(t.total) + d
    BY <1>1, <1>2, SavedMore
<1> QED BY <1>6, <1>7, <1>8, <1>9, <1>10 DEF BookedTools

LEMMA BookReasons ==
    ASSUME NEW t \in Sums, NEW S \in SUBSET Record, IsFiniteSet(S), NEW r \in Record \ S,
           BookedReasons(t, S)
    PROVE  BookedReasons(AddTo(t, r), S \cup {r})
<1>. DEFINE x == r.outcome.reason  T == Given(t)  f == t.reason  e == AddTo(t, r).reason
<1>1. x \in Reasons /\ f \in [Reasons -> Nat] /\ e = [f EXCEPT ![x] = @ + 1]
    BY RecordType, AddToTables DEF Sums
<1>2. T \subseteq Reasons /\ (x \notin T => f[x] = 0) /\ IsFiniteSet(T)
    BY <1>1 DEF Given, BookedReasons
<1>3. Given(AddTo(t, r)) = T \cup {x}
    BY <1>1 DEF Given
<1>4. /\ \A y \in T \cup {x} : f[y] \in Int
      /\ \A y \in T \ {x} : e[y] = f[y]
      /\ e[x] = f[x] + 1 /\ 1 \in Int
    BY <1>1, <1>2
<1>5. SumOver(e, T \cup {x}) = SumOver(f, T) + 1
    <2>. HIDE DEF T, f, e, x
    <2> QED BY <1>2, <1>4, SumGrow
<1>6. Cardinality(S \cup {r}) = Cardinality(S) + 1
    BY CountOne
<1>7. IsFiniteSet(T \cup {x})
    BY <1>2, FS_AddElement
<1> QED BY <1>3, <1>5, <1>6, <1>7 DEF BookedReasons

LEMMA BookRecords ==
    ASSUME NEW t \in Sums, NEW S \in SUBSET Record, IsFiniteSet(S), NEW r \in Record \ S,
           BookedRecords(t, S)
    PROVE  BookedRecords(AddTo(t, r), S \cup {r})
<1>. DEFINE C == Changed(S)  f == SavedBy
<1>1. IsFiniteSet(C) /\ C \subseteq Record /\ r \notin C
    BY FS_Subset DEF Changed
<1>2. \A y \in Record : f[y] \in Int
    BY MetricsAssumption, RecordType DEF SavedBy, Saved
<1>3. t.total \in Total /\ AddTo(t, r).total = Add(t.total, r.outcome)
    BY AddToTables DEF Sums
<1>4. Saved(AddTo(t, r).total) = Saved(t.total) + f[r] /\ (~r.outcome.changed => f[r] = 0)
    BY <1>3, SavedMore DEF SavedBy
<1>5. CASE r.outcome.changed
    <2>1. Changed(S \cup {r}) = C \cup {r}
        BY <1>5 DEF Changed
    <2>2. SumOver(f, C \cup {r}) = SumOver(f, C) + f[r]
        <3>. HIDE DEF C, f
        <3> QED BY <1>1, <1>2, SumAdd
    <2> QED BY <1>4, <2>1, <2>2 DEF BookedRecords
<1>6. CASE ~r.outcome.changed
    <2>1. Changed(S \cup {r}) = C
        BY <1>6 DEF Changed
    <2>2. Saved(t.total) \in Int
        BY <1>3, SavedMore
    <2> QED BY <1>4, <1>6, <2>1, <2>2 DEF BookedRecords
<1> QED BY <1>5, <1>6

LEMMA BookRule ==
    ASSUME NEW t \in Sums, NEW S \in SUBSET Record, IsFiniteSet(S), NEW r \in Record \ S,
           NEW n \in Rules, BookedRule(t, S, n)
    PROVE  BookedRule(AddTo(t, r), S \cup {r}, n)
<1>. DEFINE C == Took(n, S)  f == LinesOf(n)  u == AddTo(t, r)
<1>0. u.rule = [m \in Rules |-> IF r.outcome.changed /\ m \in DOMAIN r.outcome.rules
                                  THEN AddRule(t.rule[m], r.outcome.rules[m]) ELSE t.rule[m]]
    <2>. HIDE DEF u
    <2>1. /\ u.rule =
              [m \in Rules |-> IF r.outcome.changed /\ m \in DOMAIN r.outcome.rules
                                 THEN AddRule(t.rule[m], r.outcome.rules[m]) ELSE t.rule[m]]
        BY AddToTables DEF u
    <2> QED BY <2>1
<1>1. IsFiniteSet(C) /\ C \subseteq Record /\ r \notin C
    BY FS_Subset DEF Took, Changed
<1>2. \A y \in Record : f[y] \in Int
    BY RecordType DEF LinesOf
<1>3. t.rule[n] \in [records : Nat, groups : Nat, lines : Nat]
    BY DEF Sums
<1>4. CASE r.outcome.changed /\ n \in DOMAIN r.outcome.rules
    <2>1. u.rule[n] = AddRule(t.rule[n], r.outcome.rules[n])
        BY <1>0, <1>4
    <2>2. f[r] = r.outcome.rules[n].lines
        BY <1>4 DEF LinesOf
    <2>3. u.rule[n].records = t.rule[n].records + 1 /\ u.rule[n].lines = t.rule[n].lines + f[r]
        BY <2>1, <2>2 DEF AddRule
    <2>4. Took(n, S \cup {r}) = C \cup {r}
        BY <1>4 DEF Took, Changed
    <2>5. SumOver(f, C \cup {r}) = SumOver(f, C) + f[r]
        <3>. HIDE DEF C, f
        <3> QED BY <1>1, <1>2, SumAdd
    <2>6. u.rule[n].records > 0 /\ Took(n, S \cup {r}) # {}
        <3>1. t.rule[n].records \in Nat
            BY <1>3
        <3>2. u.rule[n].records > 0
            BY <2>3, <3>1
        <3>3. Took(n, S \cup {r}) # {}
            BY <2>4
        <3> QED BY <3>2, <3>3
    <2>7. u.rule[n].lines = SumOver(f, Took(n, S \cup {r}))
        BY <2>3, <2>4, <2>5 DEF BookedRule
    <2> QED BY <2>6, <2>7 DEF BookedRule
<1>5. CASE ~(r.outcome.changed /\ n \in DOMAIN r.outcome.rules)
    <2>1. u.rule[n] = t.rule[n]
        BY <1>0, <1>5
    <2>2. Took(n, S \cup {r}) = C
        BY <1>5 DEF Took, Changed
    <2> QED BY <2>1, <2>2 DEF BookedRule
<1> QED BY <1>4, <1>5

(* A summary that has counted nothing has booked nothing.                  *)
LEMMA BookNothing == Booked(Zero, {})
<1>1. Tools(Zero) = {} /\ Given(Zero) = {} /\ Changed({}) = {} /\ \A n \in Rules : Took(n, {}) = {}
    BY DEF Tools, Given, Changed, Took, Zero, NoTotal
<1>2. Saved(Zero.total) = 0 /\ \A f \in Families : Saved(Zero.family[f]) = 0
    BY DEF Saved, Zero, NoTotal
<1>3. \A n \in Rules : Zero.rule[n].records = 0 /\ Zero.rule[n].lines = 0
    BY DEF Zero
<1>4. IsFiniteSet({}) /\ Cardinality({}) = 0
    BY FS_EmptySet
<1>5. \A f : SumOver(f, {}) = 0
    BY SumEmpty
<1>6. BookedTools(Zero, {}) /\ BookedRecords(Zero, {})
    BY <1>1, <1>2, <1>4, <1>5 DEF BookedTools, BookedRecords
<1>7. BookedReasons(Zero, {})
    BY <1>1, <1>4, <1>5 DEF BookedReasons
<1>8. ASSUME NEW n \in Rules PROVE BookedRule(Zero, {}, n)
    BY <1>1, <1>3, <1>5 DEF BookedRule
<1> QED BY <1>6, <1>7, <1>8 DEF Booked

(* So for every summary under way, in every state.                         *)
BooksInv == \A s \in Summaries : pc[s] \in {"read", "done"} => Booked(sums[s], counted[s])

LEMMA BooksStep ==
    ASSUME MetricsInv, BooksInv, [Next]_vars
    PROVE  BooksInv'
<1>. USE WritersAreNotSummaries
<1>1. ASSUME NEW s \in Summaries, pc'[s] \in {"read", "done"}, pc[s] \in {"read", "done"},
             sums'[s] = sums[s], counted'[s] = counted[s]
      PROVE  Booked(sums[s], counted[s])'
    BY <1>1 DEF BooksInv
<1>2. CASE UNCHANGED vars
    BY <1>1, <1>2 DEF vars, reading, BooksInv
<1>3. ASSUME NEW w \in Writers,
             \/ Fill(w) \/ Commit(w) \/ WriteFail(w) \/ Unlink(w) \/ Crash(w)
             \/ \E r \in Record, n \in Numbers : Create(w, r, n)
      PROVE  BooksInv'
    <2>1. UNCHANGED reading /\ \A s \in Summaries : pc'[s] = pc[s]
        BY <1>3 DEF Fill, Commit, WriteFail, Unlink, Crash, Create, Goto, MetricsInv, MetricsTypeOK
    <2> QED BY <1>1, <2>1 DEF BooksInv, reading
<1>4. ASSUME NEW s \in Summaries, ReadEnd(s) \/ ReadFail(s) \/ Again(s) PROVE BooksInv'
    <2>1. UNCHANGED reading /\ \A q \in Summaries \ {s} : pc'[q] = pc[q]
        BY <1>4 DEF ReadEnd, ReadFail, Again, Goto, MetricsInv, MetricsTypeOK
    <2>2. pc[s] = "read" \/ pc'[s] \in {"idle", "failed"}
        BY <1>4 DEF ReadEnd, ReadFail, Again, Goto, MetricsInv, MetricsTypeOK
    <2> QED BY <2>1, <2>2 DEF BooksInv, reading
<1>5. ASSUME NEW s \in Summaries, NEW session \in Sessions \cup {All}, List(s, session)
      PROVE  BooksInv'
    <2>1. /\ sums'[s] = Zero /\ counted'[s] = {}
          /\ \A q \in Summaries \ {s} :
               pc'[q] = pc[q] /\ sums'[q] = sums[q] /\ counted'[q] = counted[q]
        BY <1>5 DEF List, Goto, MetricsInv, MetricsTypeOK
    <2> QED BY <2>1, BookNothing DEF BooksInv
<1>6. ASSUME NEW s \in Summaries, NEW n \in names[s], ReadOne(s, n)
      PROVE  BooksInv'
    <2>. DEFINE r == json[n].rec
    <2>1. /\ pc[s] = "read" /\ Reads(s) /\ Counts(s)
          /\ sums[s] \in Sums /\ counted[s] \in SUBSET Record
          /\ r \in Record /\ r \notin counted[s] /\ IsFiniteSet(counted[s])
        <3>1. pc[s] = "read"
            BY <1>6 DEF ReadOne
        <3>2. Reads(s) /\ Counts(s)
            BY <3>1 DEF MetricsInv, SummariesInv
        <3>3. n \in Numbers /\ json[n] # NoFile /\ r \notin counted[s]
            BY <3>2 DEF Reads, MetricsInv, MetricsTypeOK
        <3>4. r \in Record
            BY <3>3 DEF MetricsInv, MetricsTypeOK, Entry
        <3> QED BY <3>1, <3>2, <3>3, <3>4 DEF Counts, MetricsInv, MetricsTypeOK
    <2>2. /\ \A q \in Summaries \ {s} :
               pc'[q] = pc[q] /\ sums'[q] = sums[q] /\ counted'[q] = counted[q]
          /\ \/ sums'[s] = sums[s] /\ counted'[s] = counted[s]
             \/ sums'[s] = AddTo(sums[s], r) /\ counted'[s] = counted[s] \cup {r}
        BY <1>6, <2>1 DEF ReadOne, Goto, MetricsInv, MetricsTypeOK
    <2>3. Booked(sums[s], counted[s])
        BY <2>1 DEF BooksInv
    <2>4. Booked(AddTo(sums[s], r), counted[s] \cup {r})
        <3>. DEFINE t == sums[s]  S == counted[s]
        <3>1. t \in Sums /\ S \in SUBSET Record /\ IsFiniteSet(S) /\ r \in Record \ S
            BY <2>1
        <3>2. Booked(t, S)
            BY <2>3
        <3>. HIDE DEF t, S, r
        <3>3. Booked(AddTo(t, r), S \cup {r})
            BY <3>1, <3>2, BookTools, BookReasons, BookRecords, BookRule DEF Booked
        <3> QED BY <3>3 DEF t, S
    <2> QED BY <2>2, <2>3, <2>4 DEF BooksInv
<1> QED BY <1>2, <1>3, <1>4, <1>5, <1>6 DEF Next

(* A report made of a finished summary is consistent: what its tools saved *)
(* is what the reduced outputs saved, every output has one reason, and a   *)
(* rule has a row, with all its lines, exactly when it took part.          *)
THEOREM ReportsAddUp ==
    ASSUME ~MayRepeat
    PROVE  Spec => []ReportAddsUp
<1>1. Init => BooksInv
    BY WritersAreNotSummaries DEF Init, BooksInv
<1>2. MetricsInv /\ BooksInv => ReportAddsUp
    <2> SUFFICES ASSUME MetricsInv, BooksInv, NEW s \in Summaries, pc[s] = "done"
                 PROVE  ReportAddsUp!(s)!2
        BY DEF ReportAddsUp
    <2>. DEFINE t == sums[s]  S == counted[s]  report == Build(t)
                Of(n) == {r \in Changed(S) : n \in DOMAIN r.outcome.rules}
                rows(n) == [r \in Of(n) |-> r.outcome.rules[n].lines]
                saved == [r \in Changed(S) |-> Saved(r.outcome)]
    <2>1. Booked(t, S) /\ t \in Sums /\ S \in SUBSET Record /\ IsFiniteSet(S)
        BY DEF BooksInv, MetricsInv, MetricsTypeOK, SummariesInv, Counts
    <2>2. Saved(t.total) = SumFunction(report.tools)
        <3>1. report.tools = [f \in Tools(t) |-> Saved(t.family[f])]
            BY DEF Build, Tools
        <3>2. \A f \in Tools(t) : /\ report.tools[f] = SavedIn(t)[f]
                                  /\ report.tools[f] \in Int
            BY <2>1, <3>1, SavedMore DEF Tools, SavedIn, Sums, Total, Saved
        <3>3. SumOver(report.tools, Tools(t)) = SumOver(SavedIn(t), Tools(t))
            BY <2>1, <3>2, SumSame DEF Booked, BookedTools
        <3> QED BY <2>1, <3>1, <3>3
                DEF Booked, BookedTools, SumFunction, SumFunctionOnSet, SumOver
    <2>3. Saved(t.total) = SumFunction(saved)
        <3>1. IsFiniteSet(Changed(S)) /\ Changed(S) \subseteq Record
            BY <2>1, FS_Subset DEF Changed
        <3>2. \A r \in Changed(S) : saved[r] = SavedBy[r] /\ saved[r] \in Int
            BY <3>1, RecordType DEF SavedBy, Saved
        <3>3. SumOver(saved, Changed(S)) = SumOver(SavedBy, Changed(S))
            BY <3>1, <3>2, SumSame
        <3> QED BY <2>1, <3>3
                DEF Booked, BookedRecords, SumFunction, SumFunctionOnSet, SumOver
    <2>4. SumFunction(report.reasons) = Cardinality(S)
        <3>1. report.reasons = [x \in Given(t) |-> t.reason[x]]
            BY DEF Build, Given
        <3>2. \A x \in Given(t) : /\ report.reasons[x] = t.reason[x]
                                  /\ report.reasons[x] \in Int
            BY <2>1, <3>1 DEF Given, Sums
        <3>3. SumOver(report.reasons, Given(t)) = SumOver(t.reason, Given(t))
            BY <2>1, <3>2, SumSame DEF Booked, BookedReasons
        <3> QED BY <2>1, <3>1, <3>3
                DEF Booked, BookedReasons, SumFunction, SumFunctionOnSet, SumOver
    <2>5. report.rules = {n \in Rules : Of(n) # {}}
        BY <2>1 DEF Booked, BookedRule, Build, Took
    <2>6. ASSUME NEW n \in report.rules PROVE t.rule[n].lines = SumFunction(rows(n))
        <3>1. n \in Rules /\ Of(n) = Took(n, S)
            BY <2>5 DEF Took
        <3>2. IsFiniteSet(Of(n)) /\ Of(n) \subseteq Record
            BY <2>1, FS_Subset DEF Changed
        <3>3. \A r \in Of(n) : rows(n)[r] = LinesOf(n)[r] /\ rows(n)[r] \in Int
            BY <3>2, RecordType DEF LinesOf
        <3>4. SumOver(rows(n), Of(n)) = SumOver(LinesOf(n), Of(n))
            BY <3>2, <3>3, SumSame
        <3> QED BY <2>1, <3>1, <3>4
                DEF Booked, BookedRule, SumFunction, SumFunctionOnSet, SumOver
    <2>7. report.saved = Saved(t.total)
        BY DEF Build
    <2> QED BY <2>2, <2>3, <2>4, <2>5, <2>6, <2>7 DEF Changed
<1> QED BY <1>1, <1>2, BooksStep, MetricsInvariant, PTL DEF Spec
=============================================================================
