----------------------------- MODULE Invocation -----------------------------
(***************************************************************************)
(* One invocation of the program that looks at tool output, end to end:    *)
(* the adapter (internal/hook/hook.go, or `optimize` and `benchmark` of    *)
(* cmd/tokenslim/main.go), Engine.Process (internal/engine/engine.go) with *)
(* its gates, the reducers, the cache and the metrics it calls, and what   *)
(* reaches the host.  Any of these can fail, and the host can kill the     *)
(* process at every step.                                                  *)
(*                                                                         *)
(* Texts are their sizes.  What the reducers make of a text is any text:   *)
(* they are asked only whether the guard finds it intact.  The store is    *)
(* the set of its entries (module CacheStore has its files), the marker    *)
(* one length (module Marker has the loop that computes it).               *)
(***************************************************************************)
EXTENDS Integers

CONSTANTS
    Requests, \* what the program may be run on
    Configs,  \* the configurations it may load
    HardCap,  \* 128 MiB: what a hook reads at most
    MarkerBytes,
    Earlier,  \* entries that earlier invocations may have left in the cache
    NoRecord

Hosts == {"claude", "codex", "unknown"}
Vias  == Hosts \cup {"optimize", "benchmark"}
Modes == {"off", "safe", "smart"}

(* A request: the size of what the adapter reads, of the original that     *)
(* would be cached and of the two streams; whether this is a finished Bash *)
(* result in the host's documented shape, and whether its text is UTF-8    *)
(* without NUL.                                                            *)
Request == [via : Vias, input : Nat, raw : Nat, out : Nat, err : Nat, lines : Nat,
            fit : BOOLEAN, text : BOOLEAN, family : {"generic", "terraform", "vitest"}]

(* A configuration, as Validate leaves it; `loads` is false for one it     *)
(* refuses.                                                                *)
Config == [loads : BOOLEAN, bash : BOOLEAN, mode : Modes,
           enabled : BOOLEAN, own : Modes \cup {"inherit"}, \* compressors.<family>
           cache : BOOLEAN, metrics : BOOLEAN, maxInput : Nat,
           minBytes : Nat, minLines : Nat, minReduction : 0..99, maxReduction : 1..99]

(* A cache entry: the request whose original it holds, limits.max_input_mb *)
(* of the invocation that put it, and the size its metadata states.        *)
Entry == [of : Requests, limit : Nat, optimized : Nat]

ASSUME InvocationAssumption ==
    /\ Requests \subseteq Request /\ Configs \subseteq Config
    /\ HardCap \in Nat /\ MarkerBytes \in Nat \ {0}
    /\ Earlier \subseteq Entry /\ \A e \in Earlier : e.of.raw <= e.limit
    /\ \A r \in Requests : r.raw <= r.input
    /\ \A r \in Requests : r.via \notin Hosts => r.input = r.out /\ r.raw = r.out
    /\ \A r \in Requests : r.via \notin {"claude", "unknown"} => r.err = 0

Reasons ==
    {"unchanged", "disabled", "binary output", "input limit", "below thresholds",
     "compressor disabled", "compressor mode off", "integrity guard",
     "cache disabled; preserving original", "reduction budget", "cache write failed",
     "compressed"}

VARIABLES
    step,   \* where the invocation is
    q, c,   \* its request and its configuration
    result, \* engine.Result
    cut,    \* a and b of Process: the reduced streams, still without a marker
    entry,  \* history: the cache entry this invocation put, if it did
    cache,  \* the store
    record, \* the metrics record this invocation committed, if it did
    host    \* what the host, or the reader of `optimize`, has got

vars == <<step, q, c, result, cut, entry, cache, record, host>>

Steps == {"start", "gates", "reduce", "put", "build", "record", "unwind", "deliver",
          "copy", "done", "failed"}

(* A host has its own output from the start, and so does the user of       *)
(* `benchmark`, who gets a report; whoever reads `optimize` has nothing.   *)
Views     == {"native", "reduced", "nothing", "part"}
Before(r) == IF r.via = "optimize" THEN "nothing" ELSE "native"

Original(r) == r.out + r.err
Native(r)   == [out |-> r.out, err |-> r.err, changed |-> FALSE, reason |-> "unchanged"]

Init ==
    /\ step = "start" /\ q \in Requests /\ c \in Configs
    /\ result = Native(q) /\ cut = [out |-> 0, err |-> 0] /\ entry = {} /\ cache \in SUBSET Earlier
    /\ record = NoRecord /\ host = Before(q)

-----------------------------------------------------------------------------
(* The adapter: RunAgent up to Process, runCodex likewise, or run's case   *)
(* "optimize", "benchmark".  A hook that declines prints nothing.          *)

(* Mutant: only the hard cap bounds a hook's input. *)
DeclinesByCap(r, k) ==
    IF r.via \in Hosts
      THEN r.via = "unknown" \/ ~r.fit \/ r.input > HardCap \/ ~k.loads \/ ~k.bash
      ELSE ~k.loads \/ r.input > k.maxInput

Declines(r, k) ==
    IF r.via \in Hosts
      THEN \/ r.via = "unknown" \/ ~r.fit
           \/ r.input > HardCap \/ ~k.loads \/ ~k.bash \/ r.input > k.maxInput
      ELSE ~k.loads \/ r.input > k.maxInput

Start ==
    /\ step = "start" /\ ~Declines(q, c)
    /\ step' = "gates"
    /\ UNCHANGED <<q, c, result, cut, entry, cache, record, host>>

(* A hook that declines prints nothing; `optimize` passes on a file that   *)
(* is too long; everything else is an error of the command.                *)
Decline ==
    /\ step = "start" /\ Declines(q, c)
    /\ step' = IF q.via \in Hosts THEN "done"
               ELSE IF q.via = "optimize" /\ c.loads THEN "copy" ELSE "failed"
    /\ UNCHANGED <<q, c, result, cut, entry, cache, record, host>>

-----------------------------------------------------------------------------
(* Process: the gates in their order, each with its Reason.  The mode is   *)
(* the compressor's own, the general one, or the one forced on it.         *)
FamilyMode ==
    IF q.family = "terraform" THEN "safe"
    ELSE IF c.own = "inherit" THEN c.mode ELSE c.own

Gates ==
    << [stops |-> c.mode = "off", reason |-> "disabled"],
       [stops |-> ~q.text, reason |-> "binary output"],
       [stops |-> Original(q) > c.maxInput, reason |-> "input limit"],
       [stops |-> Original(q) < c.minBytes \/ q.lines < c.minLines,
        reason |-> "below thresholds"],
       [stops |-> ~c.enabled, reason |-> "compressor disabled"],
       [stops |-> FamilyMode = "off", reason |-> "compressor mode off"] >>

AllOpen(gates) == \A i \in DOMAIN gates : ~gates[i].stops

StopsAt(gates, i) == gates[i].stops /\ \A j \in 1..i - 1 : ~gates[j].stops

Stop(reason) ==
    /\ result' = [result EXCEPT !.reason = reason]
    /\ step' = "record"
    /\ UNCHANGED <<q, c, cut, entry, cache, record, host>>

Refuse ==
    /\ step = "gates"
    /\ \E i \in DOMAIN Gates : StopsAt(Gates, i) /\ Stop(Gates[i].reason)

Pass ==
    /\ step = "gates" /\ AllOpen(Gates)
    /\ step' = "reduce"
    /\ UNCHANGED <<q, c, result, cut, entry, cache, record, host>>

(* finalSize, and the checks after the reducers have run.                  *)
Final(a, b) == a + b + MarkerBytes

(* Mutant: the marker left out of the budget. *)
OverlooksMarker(a, b) ==
    LET saved == 100 * (Original(q) - a - b)
    IN  saved >= c.minReduction * Original(q) /\ saved <= c.maxReduction * Original(q)

WithinBudget(a, b) ==
    LET saved == 100 * (Original(q) - Final(a, b))
    IN  saved >= c.minReduction * Original(q) /\ saved <= c.maxReduction * Original(q)

(* Mutant: no check for emptied streams. *)
MayBeEmptied(a, b) == FALSE

(* The first check of IntactFor: a stream that had text still has some.    *)
Emptied(a, b) == (a = 0 /\ q.out # 0) \/ (b = 0 /\ q.err # 0)

Checks(a, b, same, intact) ==
    << [stops |-> ~intact \/ Emptied(a, b), reason |-> "integrity guard"],
       [stops |-> same, reason |-> "unchanged"],
       [stops |-> ~c.cache, reason |-> "cache disabled; preserving original"],
       [stops |-> ~WithinBudget(a, b), reason |-> "reduction budget"] >>

(* a and b are the sizes of what the reducers return for the two streams.  *)
Reduce(a, b, same, intact) ==
    /\ step = "reduce"
    /\ same => a = q.out /\ b = q.err
    /\ (q.out = 0 => a = 0) /\ (q.err = 0 => b = 0)
    /\ LET checks == Checks(a, b, same, intact)
       IN  \/ \E i \in DOMAIN checks : StopsAt(checks, i) /\ Stop(checks[i].reason)
           \/ /\ AllOpen(checks)
              /\ cut' = [out |-> a, err |-> b]
              /\ step' = IF q.via = "benchmark" THEN "build" ELSE "put"
              /\ UNCHANGED <<q, c, result, entry, cache, record, host>>

(* A panic: Process's deferred function still records.                    *)
Panic ==
    /\ step = "reduce"
    /\ step' = "unwind"
    /\ UNCHANGED <<q, c, result, cut, entry, cache, record, host>>

(* Put, then Prune with this reference as `keep`: it may remove any other. *)
NewEntry == [of |-> q, limit |-> c.maxInput, optimized |-> Final(cut.out, cut.err)]

Put ==
    /\ step = "put"
    /\ entry' = {NewEntry}
    /\ \E swept \in SUBSET cache :
         cache' = {e \in cache \ swept : e.of # q} \cup {NewEntry}
    /\ step' = "build"
    /\ UNCHANGED <<q, c, result, cut, record, host>>

(* Mutant: the error of Put ignored. *)
PutFailsOpen ==
    /\ step = "put" /\ step' = "build"
    /\ UNCHANGED <<q, c, result, cut, entry, cache, record, host>>

PutFails == step = "put" /\ Stop("cache write failed")

(* The marker goes to the end of stdout, or of stderr if stdout is empty.  *)
Build ==
    /\ step = "build"
    /\ result' = [out |-> cut.out + IF cut.out # 0 THEN MarkerBytes ELSE 0,
                  err |-> cut.err + IF cut.out = 0 THEN MarkerBytes ELSE 0,
                  changed |-> TRUE, reason |-> "compressed"]
    /\ step' = "record"
    /\ UNCHANGED <<q, c, cut, entry, cache, record, host>>

(* The deferred function.  metrics.Write may fail; nobody asks.            *)
(* Mutant: the sizes taken before the marker is appended. *)
CommittedWithoutMarker ==
    [changed |-> result.changed, reason |-> result.reason,
     original |-> Original(q),
     optimized |-> IF result.changed THEN cut.out + cut.err ELSE result.out + result.err]

Committed == [changed |-> result.changed, reason |-> result.reason,
              original |-> Original(q), optimized |-> result.out + result.err]

(* Behind it a hook recovers from a panic; a command dies of it.           *)
AfterRecord ==
    IF step = "record" THEN "deliver" ELSE IF q.via \in Hosts THEN "done" ELSE "failed"

(* Mutant: a benchmark is counted. *)
RecordAlways ==
    /\ step \in {"record", "unwind"}
    /\ record' = IF c.metrics THEN Committed ELSE NoRecord
    /\ step' = AfterRecord
    /\ UNCHANGED <<q, c, result, cut, entry, cache, host>>

Record ==
    /\ step \in {"record", "unwind"}
    /\ \/ c.metrics /\ q.via # "benchmark" /\ record' = Committed
       \/ UNCHANGED record
    /\ step' = AfterRecord
    /\ UNCHANGED <<q, c, result, cut, entry, cache, host>>

-----------------------------------------------------------------------------
(* Back in the adapter: one buffered write.  codex and `optimize` have one *)
(* stream and do not look at stderr; a hook prints nothing when nothing    *)
(* has changed, `optimize` its text in any case.                           *)
Delivered == result.out + IF q.via = "claude" THEN result.err ELSE 0

(* Mutant: `optimize` treated like a hook, which leaves its output alone. *)
DeliverChanged ==
    /\ step = "deliver"
    /\ host' = IF q.via # "benchmark" /\ result.changed THEN "reduced" ELSE host
    /\ step' = "done"
    /\ UNCHANGED <<q, c, result, cut, entry, cache, record>>

Deliver ==
    /\ step = "deliver"
    /\ host' = IF q.via # "benchmark" /\ result.changed THEN "reduced" ELSE "native"
    /\ step' = "done"
    /\ UNCHANGED <<q, c, result, cut, entry, cache, record>>

(* The beginning that was read, and the rest of the file.                  *)
Copy ==
    /\ step = "copy"
    /\ host' = "native"
    /\ step' = "done"
    /\ UNCHANGED <<q, c, result, cut, entry, cache, record>>

(* A write fails, or the reading of what is copied, or the process is      *)
(* killed in the middle of it.  A host does not take half a JSON value for *)
(* a replacement, and a hook never reports an error; the reader of         *)
(* `optimize` has what came through.                                       *)
WriteFails ==
    /\ step \in {"deliver", "copy"}
    /\ step' = IF q.via \in Hosts THEN "done" ELSE "failed"
    /\ host' \in IF q.via = "optimize" THEN {"nothing", "part"} ELSE {host}
    /\ UNCHANGED <<q, c, result, cut, entry, cache, record>>

(* Killed, or unable to read its input.                                    *)
Kill ==
    /\ step \notin {"done", "failed"} /\ step' = "failed"
    /\ UNCHANGED <<q, c, result, cut, entry, cache, record, host>>

Next ==
    \/ Start \/ Decline \/ Refuse \/ Pass \/ Panic \/ Put \/ PutFails \/ Build \/ Record
    \/ Deliver \/ Copy \/ WriteFails \/ Kill
    \/ \E a \in 0..q.out + 1, b \in 0..q.err + 1, same, intact \in BOOLEAN :
         Reduce(a, b, same, intact)

Spec == Init /\ [][Next]_vars

-----------------------------------------------------------------------------
Replaced == host = "reduced"

(* Every variable has its type.                                            *)
TypeOK ==
    /\ step \in Steps
    /\ q \in Requests /\ c \in Configs
    /\ result \in [out : Nat, err : Nat, changed : BOOLEAN, reason : Reasons]
    /\ cut \in [out : Nat, err : Nat]
    /\ entry \in SUBSET Entry /\ cache \in SUBSET Entry
    /\ record = NoRecord
         \/ record \in [changed : BOOLEAN, reason : Reasons, original : Nat, optimized : Nat]
    /\ host \in Views

(* Whatever fails and whenever the process is killed, the host either      *)
(* keeps its own output or has a replacement whose original this           *)
(* invocation put in the cache under that size, and which saves at least   *)
(* and at most what the configuration says, the marker included.  And who  *)
(* reads `optimize` has less than that only if the command has failed.     *)
NothingIsLost ==
    /\ Replaced =>
         /\ \E e \in entry : e.of = q /\ e.optimized = Delivered
         /\ 100 * (Original(q) - Delivered) >= c.minReduction * Original(q)
         /\ 100 * (Original(q) - Delivered) <= c.maxReduction * Original(q)
    /\ host \in {"nothing", "part"} => q.via = "optimize" /\ step # "done"

(* A committed record is about what happened: it counts as compressed only *)
(* what is in the cache with the size it states, a replacement the host    *)
(* has is never counted as unchanged, and an unchanged one saves nothing.  *)
RecordIsTrue ==
    record # NoRecord =>
        /\ record.original = Original(q)
        /\ record.changed => \E e \in entry : e.optimized = record.optimized
        /\ ~record.changed => record.optimized = record.original
        /\ Replaced => record.changed /\ record.optimized = Delivered

(* A benchmark is a dry run: from its start to its end neither the cache   *)
(* nor the metrics change.                                                 *)
DryRunTouchesNothing ==
    [][q.via = "benchmark" => cache' = cache /\ record' = NoRecord]_vars

(* What is cached under a configuration can be read back under it: the     *)
(* original fits limits.max_input_mb, which is what `cache inspect` and    *)
(* the MCP server read at most, though Put is bounded by another limit and *)
(* Process by the size of the text rather than of the original.            *)
StoredCanBeRead == \A e \in cache : e.of.raw <= e.limit

(* Why they hold: what each step leaves for the next ones.                 *)
Reduced ==
    /\ WithinBudget(cut.out, cut.err) /\ ~Emptied(cut.out, cut.err)
    /\ q.err = 0 => cut.err = 0

IsStored == q.via = "benchmark" \/ NewEntry \in entry

Ended == {"done", "failed"}

InvocationInv ==
    /\ TypeOK
    /\ step \notin {"start", "copy"} \cup Ended => ~Declines(q, c)
    /\ step \in {"start", "copy", "gates", "reduce", "put", "build", "unwind"} => ~result.changed
    /\ step \in {"put", "build"} => Reduced
    /\ step = "build" => IsStored
    /\ ~result.changed => result.out = q.out /\ result.err = q.err
    /\ result.changed =>
         /\ Reduced /\ IsStored
         /\ result.out + result.err = Final(cut.out, cut.err)
         /\ q.via # "claude" => result.err = 0
    /\ step \notin {"deliver"} \cup Ended => record = NoRecord
    /\ step = "put" => q.via # "benchmark"
    /\ record # NoRecord => record = Committed /\ q.via # "benchmark"
    /\ step \notin Ended => host = Before(q)
    /\ Replaced => result.changed /\ q.via # "benchmark"
    /\ host \in {"nothing", "part"} => q.via = "optimize" /\ step # "done"
    /\ StoredCanBeRead

(* Off mode preserves the original result: where the configuration says    *)
(* off, for everything or for the family, the host keeps its output.       *)
OffIsOff ==
    (IF c.own = "inherit" THEN c.mode ELSE c.own) = "off" => ~Replaced
=============================================================================
