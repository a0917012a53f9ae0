------------------------ MODULE ConfiguredInvocation ------------------------
(***************************************************************************)
(* An invocation (module Invocation) together with the files that its      *)
(* configuration comes from (module Configuration): Load runs before       *)
(* anything else, and --mode of `optimize` and `benchmark` after it.       *)
(***************************************************************************)
EXTENDS Invocation, Configuration

CONSTANT Scenarios \* sets of requests, files and flags that go together

ASSUME ScenariosAssumption ==
    \A s \in Scenarios : \A f \in s.global \cup s.project : f.kind = "mapping" => Document(f.doc)

VARIABLES files, flag

configuredVars == <<vars, files, flag>>

unset == ""

(* c.Mode = *mode, and Validate again.                                     *)
WithFlag(loaded) ==
    IF q.via \in Hosts \/ flag = unset THEN loaded
    ELSE [loaded EXCEPT !.loads = @ /\ flag \in Modes, !.mode = IF flag \in Modes THEN flag ELSE @]

CInit ==
    /\ \E s \in Scenarios :
         /\ q \in s.requests /\ flag \in s.flags
         /\ files \in [global : s.global, project : s.project]
    /\ c = WithFlag(Loaded(files, q.family))
    /\ Init

CNext == Next /\ UNCHANGED <<files, flag>>

CSpec == CInit /\ [][CNext]_configuredVars

-----------------------------------------------------------------------------
Mappings == {f \in {files.global, files.project} : f.kind = "mapping"}

Sets(f, p) == f.kind = "mapping" /\ p \in DOMAIN f.doc

(* No file has a null on the way to this setting.                          *)
NoNulls(p) ==
    \A f \in Mappings : \A n \in 1..Len(p) :
        Sets(f, SubSeq(p, 1, n)) => f.doc[SubSeq(p, 1, n)] # "null"

(* Nor anything else that is no mapping.                                   *)
Unbroken(p) ==
    /\ NoNulls(p)
    /\ \A f \in Mappings : \A n \in 1..Len(p) - 1 :
         Sets(f, SubSeq(p, 1, n)) => f.doc[SubSeq(p, 1, n)] = "map"

(* The last word on a setting: the project's, or else the global file's.   *)
Word(p) ==
    IF Sets(files.project, p) THEN files.project.doc[p]
    ELSE IF Sets(files.global, p) THEN files.global.doc[p] ELSE unset

ModeWord == IF q.via \notin Hosts /\ flag # unset THEN flag ELSE Word(ModePath)

(* The reference for Key: how docs/config.example.yaml names the families. *)
Named(field) == InCompressors(IF q.family = "vitest" THEN "node_test" ELSE q.family, field)

(* A null takes back what the file below says, so nothing is heard then.   *)
Heard(p, word) == NoNulls(p) /\ Word(p) = word

Inert == ~Replaced /\ entry = {} /\ record = NoRecord

(* Whatever says "off" last is obeyed, end to end, in the order README.md  *)
(* (line 228) gives: the flag, the project's file, the global file.  Only  *)
(* terraform's own mode is not heard (OffIsOff of module Invocation).      *)
SwitchesAreObeyed ==
    /\ q.via \in Hosts /\ Heard(InTools("Bash"), "false") => Inert
    /\ ModeWord = "off" => ~Replaced /\ entry = {}
    /\ Heard(Named("enabled"), "false") => ~Replaced /\ entry = {}
    /\ Heard(Named("mode"), "off") /\ q.family # "terraform" => ~Replaced /\ entry = {}
    /\ Heard(Section("cache", "enabled"), "false") => ~Replaced /\ entry = {}
    /\ Heard(Section("metrics", "enabled"), "false") => record = NoRecord
    /\ q.via \in Hosts /\ broken \in {files.global, files.project} => Inert

(* And nothing is off unless somebody says so: a switch that stops the     *)
(* invocation was set by the last word on it, a file that only sets        *)
(* something else leaves the default (config.go:140, "partial map entries  *)
(* retain their defaults").  Only an entry that is not merged, because a   *)
(* file has no mapping where it should be, loses its default `enabled`.    *)
NothingElseIsOff ==
    /\ result.reason = "disabled" => ModeWord = "off"
    /\ result.reason = "compressor disabled" /\ Unbroken(Named("enabled")) =>
         Word(Named("enabled")) = "false"
    /\ result.reason = "compressor mode off" => Word(Named("mode")) = "off"
    /\ result.reason = "cache disabled; preserving original" =>
         Word(Section("cache", "enabled")) = "false"
=============================================================================
