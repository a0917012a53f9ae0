-------------------------------- MODULE Rules --------------------------------
(***************************************************************************)
(* internal/rules: which lists of custom rules are accepted, which rules   *)
(* apply to a command, and the key of a line: its bytes, with every        *)
(* ignored capture replaced by one NUL byte.  Lines that follow each other *)
(* with one key are aggregated (module Reducer).                           *)
(*                                                                         *)
(* A regular expression is what it does to the lines of the instance:      *)
(* where its named captures lie in the lines it matches as a whole.        *)
(***************************************************************************)
EXTENDS Naturals, Sequences, FiniteSets, SequencesExt

CONSTANTS
    Match,    \* Match[name][t]: of the lines t that the rule matches, the span
              \* [from, to) of each capture that takes part; from 1 on
    Bytes,    \* Bytes[t]: the bytes of a line
    Nul,      \* the byte that separates
    MaxRules, MaxIgnored

(* A capture lies within its line; an empty one may lie at its end.        *)
ASSUME RulesAssumption ==
    \A name \in DOMAIN Match : \A t \in DOMAIN Match[name] :
      /\ Bytes[t] \in Seq(ToSet(Bytes[t])) /\ IsFiniteSet(DOMAIN Match[name][t])
      /\ \A c \in DOMAIN Match[name][t] :
           /\ Match[name][t][c].from \in 1..Len(Bytes[t]) + 1
           /\ Match[name][t][c].to \in Match[name][t][c].from..Len(Bytes[t]) + 1

(* A rule as configured.  `sound`: name, command and regex are of their    *)
(* form and length, both compile, and action.aggregate is set.             *)
Sound(spec) ==
    LET ignored == spec.ignore
    IN  /\ spec.sound /\ Len(ignored) <= MaxIgnored
        /\ IsInjective(ignored)
        /\ \A k \in DOMAIN ignored :
             Cardinality({i \in DOMAIN spec.captures : spec.captures[i] = ignored[k]}) = 1

(* Compile: a disabled rule must still be valid.                           *)
Accepted(specs) ==
    /\ Len(specs) <= MaxRules
    /\ \A i \in DOMAIN specs : Sound(specs[i])
    /\ IsInjective([i \in DOMAIN specs |-> specs[i].name])

(* The members of the sequence s at the places `at`, in their order.       *)
Those(s, at) == FlattenSeq([i \in DOMAIN s |-> IF i \in at THEN <<s[i]>> ELSE <<>>])

Compiled(specs) == Those(specs, {i \in DOMAIN specs : specs[i].enabled})

MatchesCommand(rule, command) == command \in rule.commands

-----------------------------------------------------------------------------
NoKey == <<>>

(* The ignored captures of the rule that take part in its match of t.      *)
Ignored(rule, t) == ToSet(rule.ignore) \cap DOMAIN Match[rule.name][t]

Overlap(p, q) ==
    /\ p.from < q.from \/ (p.from = q.from /\ p.to <= q.to)
    /\ q.from < p.to

(* Mutant: nothing stands for an ignored capture. *)
KeyWithoutSentinels(rule, t) ==
    IF t \in DOMAIN Match[rule.name]
      THEN LET span == Match[rule.name][t]
           IN  FlattenSeq([i \in DOMAIN Bytes[t] |->
                 IF \E c \in Ignored(rule, t) : i \in span[c].from..span[c].to - 1
                   THEN <<>> ELSE <<Bytes[t][i]>>])
      ELSE NoKey

(* Rule.Key: none for a line that does not match, that holds a NUL, or     *)
(* whose ignored captures overlap.                                         *)
Key(rule, t) ==
    IF \/ t \notin DOMAIN Match[rule.name]
       \/ \E i \in DOMAIN Bytes[t] : Bytes[t][i] = Nul
       \/ \E c, d \in Ignored(rule, t) :
            c # d /\ Overlap(Match[rule.name][t][c], Match[rule.name][t][d])
      THEN NoKey
      ELSE LET span     == Match[rule.name][t]
               opens(i) == Cardinality({c \in Ignored(rule, t) : span[c].from = i})
               kept(i)  == /\ i <= Len(Bytes[t])
                           /\ \A c \in Ignored(rule, t) : i \notin span[c].from..span[c].to - 1
           IN  FlattenSeq([i \in 1..Len(Bytes[t]) + 1 |->
                 [k \in 1..opens(i) |-> Nul] \o IF kept(i) THEN <<Bytes[t][i]>> ELSE <<>>])

-----------------------------------------------------------------------------
(* What a key is for, said without it: two lines a rule matches are alike  *)
(* when as many captures are cut out of them and the same bytes are left   *)
(* behind each of the cuts.                                                *)
Cut(rule, t) == UNION {Match[rule.name][t][c].from..Match[rule.name][t][c].to - 1 : c \in Ignored(rule, t)}

CutsBefore(rule, t, i) == Cardinality({c \in Ignored(rule, t) : Match[rule.name][t][c].from <= i})

Pieces(rule, t) ==
    [k \in 0..Cardinality(Ignored(rule, t)) |->
       Those(Bytes[t], {i \in DOMAIN Bytes[t] \ Cut(rule, t) : CutsBefore(rule, t, i) = k})]

Alike(rule, s, t) ==
    /\ {s, t} \subseteq DOMAIN Match[rule.name]
    /\ Pieces(rule, s) = Pieces(rule, t)
=============================================================================
