-------------------------- MODULE InvocationProofs --------------------------
(* Theorems about Invocation, for every request, configuration and store,   *)
(* and reducers that may return anything; and about ConfiguredInvocation,   *)
(* for every two files that are trees.                                      *)
EXTENDS ConfiguredInvocation, TLAPS

LEMMA RequestShape ==
    ASSUME TypeOK
    PROVE  /\ q.out \in Nat /\ q.err \in Nat /\ q.raw \in Nat /\ q.input \in Nat
           /\ q.raw <= q.input /\ Original(q) \in Nat
           /\ q.via \notin {"claude", "unknown"} => q.err = 0
           /\ c.maxInput \in Nat /\ c.minReduction \in Nat /\ c.maxReduction \in Nat
  <1>1. q \in Request /\ c \in Config /\ q \in Requests
    BY InvocationAssumption DEF TypeOK
  <1>2. q.out \in Nat /\ q.err \in Nat /\ q.raw \in Nat /\ q.input \in Nat
    BY <1>1 DEF Request
  <1>3. c.maxInput \in Nat /\ c.minReduction \in Nat /\ c.maxReduction \in Nat
    BY <1>1 DEF Config
  <1>4. q.raw <= q.input /\ (q.via \notin {"claude", "unknown"} => q.err = 0)
    BY <1>1, InvocationAssumption
  <1>. QED  BY <1>2, <1>3, <1>4 DEF Original

(* Before anything is delivered, nobody has got anything from it.           *)
LEMMA Undelivered ==
    ASSUME InvocationInv, step \notin {"deliver"} \cup Ended, UNCHANGED <<q, record, host>>
    PROVE  /\ host = Before(q) /\ host' = Before(q)' /\ ~Replaced' /\ host' \in Views
           /\ host' \in {"nothing", "part"} => q'.via = "optimize"
           /\ record = NoRecord /\ record' = NoRecord
  <1>1. host = Before(q) /\ record = NoRecord
    BY DEF InvocationInv
  <1>2. Before(q)' = Before(q)
    BY DEF Before
  <1>3. /\ Before(q) # "reduced" /\ Before(q) \in Views
        /\ Before(q) \in {"nothing", "part"} => q.via = "optimize"
    BY DEF Before, Views
  <1>. QED  BY <1>1, <1>2, <1>3 DEF Replaced

(* What a gate or a check does when it stops an invocation.                 *)
LEMMA StopStep ==
    ASSUME InvocationInv, NEW reason \in Reasons, Stop(reason), step \in {"gates", "reduce", "put"}
    PROVE  InvocationInv'
  <1>. TypeOK
    BY DEF InvocationInv
  <1>1. /\ result' = [out |-> result.out, err |-> result.err,
                      changed |-> result.changed, reason |-> reason]
        /\ step' = "record" /\ UNCHANGED <<q, c, cut, entry, cache, record, host>>
    BY DEF Stop, TypeOK
  <1>2. ~result.changed /\ result.out = q.out /\ result.err = q.err /\ ~Declines(q, c)
    BY DEF InvocationInv, Ended
  <1>3. TypeOK'
    BY <1>1 DEF TypeOK, Steps
  <1>4. ~Declines(q, c)' /\ StoredCanBeRead'
    BY <1>1, <1>2 DEF Declines, StoredCanBeRead, InvocationInv
  <1>. QED  BY <1>1, <1>2, <1>3, <1>4, Undelivered DEF InvocationInv, Ended

LEMMA GateReasons ==
    \A i \in DOMAIN Gates : Gates[i].reason \in Reasons
  <1>1. DOMAIN Gates = 1..6
    BY DEF Gates
  <1>2. /\ Gates[1].reason \in Reasons /\ Gates[2].reason \in Reasons
        /\ Gates[3].reason \in Reasons /\ Gates[4].reason \in Reasons
        /\ Gates[5].reason \in Reasons /\ Gates[6].reason \in Reasons
    BY DEF Gates, Reasons
  <1>3. \A i \in 1..6 : i = 1 \/ i = 2 \/ i = 3 \/ i = 4 \/ i = 5 \/ i = 6
    OBVIOUS
  <1>. QED  BY <1>1, <1>2, <1>3

LEMMA CheckDomain ==
    ASSUME NEW a, NEW b, NEW same, NEW intact
    PROVE  DOMAIN Checks(a, b, same, intact) = 1..4
  BY DEF Checks

LEMMA CheckReasons ==
    ASSUME NEW a, NEW b, NEW same, NEW intact
    PROVE  \A i \in DOMAIN Checks(a, b, same, intact) :
              Checks(a, b, same, intact)[i].reason \in Reasons
  <1>1. DOMAIN Checks(a, b, same, intact) = 1..4
    BY CheckDomain
  <1>2. /\ Checks(a, b, same, intact)[1].reason \in Reasons
        /\ Checks(a, b, same, intact)[2].reason \in Reasons
        /\ Checks(a, b, same, intact)[3].reason \in Reasons
        /\ Checks(a, b, same, intact)[4].reason \in Reasons
    BY DEF Checks, Reasons
  <1>3. \A i \in 1..4 : i = 1 \/ i = 2 \/ i = 3 \/ i = 4
    OBVIOUS
  <1>. QED  BY <1>1, <1>2, <1>3

(* All the checks passed: the cut is within the budget and nothing emptied. *)
LEMMA ChecksPassed ==
    ASSUME NEW a, NEW b, NEW same, NEW intact, AllOpen(Checks(a, b, same, intact))
    PROVE  WithinBudget(a, b) /\ ~Emptied(a, b)
  <1>1. DOMAIN Checks(a, b, same, intact) = 1..4
    BY CheckDomain
  <1>2. ~Checks(a, b, same, intact)[1].stops /\ ~Checks(a, b, same, intact)[4].stops
    BY <1>1 DEF AllOpen
  <1>. QED  BY <1>2 DEF Checks

-----------------------------------------------------------------------------
(* A step that leaves everything but `step`, `record` and `host` alone.     *)
LEMMA Frame ==
    ASSUME InvocationInv, UNCHANGED <<q, c, result, cut, entry, cache>>
    PROVE  /\ Declines(q, c)' <=> Declines(q, c)
           /\ Reduced' <=> Reduced
           /\ IsStored' <=> IsStored
           /\ Final(cut.out, cut.err)' = Final(cut.out, cut.err)
           /\ Committed' = Committed /\ Before(q)' = Before(q)
           /\ StoredCanBeRead'
  BY DEF Declines, Reduced, WithinBudget, Emptied, Final, Original, IsStored, NewEntry,
         Committed, Before, StoredCanBeRead, InvocationInv

(* From one step to the next with nothing else changed.                     *)
LEMMA OnlyStep ==
    ASSUME InvocationInv, step \notin {"deliver"} \cup Ended, ~result.changed,
           UNCHANGED <<q, c, result, cut, entry, cache, record, host>>,
           step' \in {"gates", "reduce", "unwind", "copy"} \cup Ended,
           step' \in {"gates", "reduce", "unwind"} => ~Declines(q, c),
           step' = "done" => q.via \in Hosts
    PROVE  InvocationInv'
  <1>1. TypeOK'
    BY DEF TypeOK, InvocationInv, Steps, Ended
  <1>2. q.via \in Hosts => q.via # "optimize"
    BY DEF Hosts
  <1>. QED  BY <1>1, <1>2, Undelivered, Frame DEF InvocationInv, Ended

LEMMA StartStep ==
    ASSUME InvocationInv, Start \/ Decline
    PROVE  InvocationInv'
  <1>1. UNCHANGED <<q, c, result, cut, entry, cache, record, host>> /\ step = "start"
    BY DEF Start, Decline
  <1>2. /\ step' \in {"gates", "copy"} \cup Ended
        /\ step' = "gates" => ~Declines(q, c)
        /\ step' = "done" => q.via \in Hosts
    BY DEF Start, Decline, Ended
  <1>3. ~result.changed
    BY <1>1 DEF InvocationInv
  <1>. QED  BY <1>1, <1>2, <1>3, OnlyStep DEF Ended

LEMMA ReduceStep ==
    ASSUME InvocationInv, NEW a \in Nat, NEW b \in Nat, NEW same, NEW intact,
           Reduce(a, b, same, intact)
    PROVE  InvocationInv'
  <1>1. CASE \E i \in DOMAIN Checks(a, b, same, intact) :
               StopsAt(Checks(a, b, same, intact), i) /\ Stop(Checks(a, b, same, intact)[i].reason)
    BY <1>1, CheckReasons, StopStep DEF Reduce
  <1>2. CASE /\ AllOpen(Checks(a, b, same, intact))
             /\ cut' = [out |-> a, err |-> b]
             /\ step' = IF q.via = "benchmark" THEN "build" ELSE "put"
             /\ UNCHANGED <<q, c, result, entry, cache, record, host>>
    <2>1. step = "reduce" /\ (q.err = 0 => b = 0)
      BY DEF Reduce
    <2>2. WithinBudget(a, b) /\ ~Emptied(a, b)
      BY <1>2, ChecksPassed
    <2>3. Reduced'
      BY <1>2, <2>1, <2>2 DEF Reduced, WithinBudget, Emptied, Final, Original
    <2>4. ~result.changed /\ ~Declines(q, c)
      BY <2>1 DEF InvocationInv, Ended
    <2>5. TypeOK' /\ StoredCanBeRead' /\ ~Declines(q, c)'
      BY <1>2, <2>4 DEF TypeOK, Steps, InvocationInv, StoredCanBeRead, Declines
    <2>6. step' = "build" => IsStored'
      BY <1>2 DEF IsStored
    <2>7. step' \in {"build", "put"} /\ (step' = "put" => (q.via # "benchmark")')
      BY <1>2
    <2>. QED  BY <1>2, <2>1, <2>3, <2>4, <2>5, <2>6, <2>7, Undelivered DEF InvocationInv, Ended
  <1>. QED  BY <1>1, <1>2 DEF Reduce

LEMMA PutStep ==
    ASSUME InvocationInv, Put
    PROVE  InvocationInv'
  <1>. TypeOK
    BY DEF InvocationInv
  <1>1. /\ step = "put" /\ step' = "build" /\ entry' = {NewEntry}
        /\ UNCHANGED <<q, c, result, cut, record, host>>
    BY DEF Put
  <1>2. PICK swept \in SUBSET cache : cache' = {e \in cache \ swept : e.of # q} \cup {NewEntry}
    BY DEF Put
  <1>3. ~result.changed /\ ~Declines(q, c) /\ Reduced
    BY <1>1 DEF InvocationInv, Ended
  <1>4. NewEntry \in Entry /\ NewEntry.of.raw <= NewEntry.limit
    <2>1. q.input <= c.maxInput
      BY <1>3, RequestShape DEF Declines
    <2>2. Final(cut.out, cut.err) \in Nat
      BY InvocationAssumption DEF Final, TypeOK
    <2>. QED  BY <2>1, <2>2, RequestShape DEF NewEntry, Entry, TypeOK
  <1>5. TypeOK'
    BY <1>1, <1>2, <1>4 DEF TypeOK, Steps
  <1>6. StoredCanBeRead'
    BY <1>2, <1>4 DEF StoredCanBeRead, InvocationInv
  <1>7. Reduced' /\ ~Declines(q, c)' /\ IsStored'
    BY <1>1, <1>3 DEF Reduced, WithinBudget, Emptied, Final, Original, Declines, IsStored, NewEntry
  <1>. QED  BY <1>1, <1>3, <1>5, <1>6, <1>7, Undelivered DEF InvocationInv, Ended

(* The marker is where the adapter will look for it: its budget would not   *)
(* allow one for an output without text.                                    *)
LEMMA MarkerSeen ==
    ASSUME TypeOK, Reduced, ~Declines(q, c), q.via # "claude"
    PROVE  cut.out # 0 /\ cut.err = 0
  <1>1. q.via # "unknown" /\ q.err = 0 /\ cut.err = 0
    BY RequestShape DEF Declines, Reduced, Hosts
  <1>2. ASSUME cut.out = 0 PROVE FALSE
    <2>1. q.out = 0
      BY <1>2 DEF Reduced, Emptied
    <2>2. Original(q) = 0
      BY <1>1, <2>1 DEF Original
    <2>3. 100 * (0 - (0 + 0 + MarkerBytes)) >= c.minReduction * 0
      BY <1>1, <1>2, <2>2 DEF Reduced, WithinBudget, Final
    <2>4. c.minReduction * 0 = 0
      BY RequestShape
    <2>. QED  BY <2>3, <2>4, InvocationAssumption
  <1>. QED  BY <1>1, <1>2

LEMMA BuildStep ==
    ASSUME InvocationInv, Build
    PROVE  InvocationInv'
  <1>. TypeOK
    BY DEF InvocationInv
  <1>1. /\ step = "build" /\ step' = "record"
        /\ UNCHANGED <<q, c, cut, entry, cache, record, host>>
        /\ result' = [out |-> cut.out + IF cut.out # 0 THEN MarkerBytes ELSE 0,
                      err |-> cut.err + IF cut.out = 0 THEN MarkerBytes ELSE 0,
                      changed |-> TRUE, reason |-> "compressed"]
    BY DEF Build
  <1>2. ~Declines(q, c) /\ Reduced /\ IsStored
    BY <1>1 DEF InvocationInv, Ended
  <1>3. cut.out \in Nat /\ cut.err \in Nat /\ MarkerBytes \in Nat
    BY InvocationAssumption DEF TypeOK
  <1>4. result' \in [out : Nat, err : Nat, changed : BOOLEAN, reason : Reasons]
    BY <1>1, <1>3 DEF Reasons
  <1>5. TypeOK' /\ StoredCanBeRead'
    BY <1>1, <1>2, <1>4 DEF TypeOK, Steps, StoredCanBeRead, InvocationInv
  <1>6. Reduced' /\ IsStored' /\ ~Declines(q, c)'
    BY <1>1, <1>2 DEF Reduced, WithinBudget, Emptied, Final, Original, Declines, IsStored, NewEntry
  <1>7. result'.changed /\ result'.out + result'.err = Final(cut.out, cut.err)
    BY <1>1, <1>3 DEF Final
  <1>8. q.via # "claude" => result'.err = 0
    BY <1>1, <1>2, <1>3, MarkerSeen
  <1>9. Final(cut.out, cut.err)' = Final(cut.out, cut.err)
    BY <1>1 DEF Final
  <1>. QED  BY <1>1, <1>2, <1>5, <1>6, <1>7, <1>8, <1>9, Undelivered DEF InvocationInv, Ended

LEMMA RecordStep ==
    ASSUME InvocationInv, Record
    PROVE  InvocationInv'
  <1>. TypeOK
    BY DEF InvocationInv
  <1>1. /\ step \in {"record", "unwind"} /\ step' = AfterRecord
        /\ UNCHANGED <<q, c, result, cut, entry, cache, host>>
        /\ (record' = Committed /\ q.via # "benchmark") \/ record' = record
    BY DEF Record
  <1>2. /\ record = NoRecord /\ host = Before(q) /\ ~Declines(q, c)
        /\ step = "unwind" => ~result.changed
    BY <1>1 DEF InvocationInv, Ended
  <1>3. Committed \in [changed : BOOLEAN, reason : Reasons, original : Nat, optimized : Nat]
    BY RequestShape DEF Committed, TypeOK
  <1>4. /\ step' \in {"deliver"} \cup Ended
        /\ step' = "done" => q.via \in Hosts
    BY <1>1 DEF AfterRecord, Ended
  <1>5. TypeOK'
    BY <1>1, <1>2, <1>3, <1>4 DEF TypeOK, Steps, Ended
  <1>6. /\ ~Replaced'
        /\ host' \in {"nothing", "part"} => q.via = "optimize" /\ q.via \notin Hosts
    BY <1>1, <1>2 DEF Replaced, Before, Hosts
  <1>. QED  BY <1>1, <1>2, <1>4, <1>5, <1>6, Frame DEF InvocationInv, Ended

LEMMA DeliverStep ==
    ASSUME InvocationInv, Deliver \/ Copy \/ WriteFails
    PROVE  InvocationInv'
  <1>. TypeOK
    BY DEF InvocationInv
  <1>1. /\ step \in {"deliver", "copy"} /\ step' \in Ended
        /\ UNCHANGED <<q, c, result, cut, entry, cache, record>>
    BY DEF Deliver, Copy, WriteFails, Ended
  <1>2. host = Before(q) /\ (step = "copy" => record = NoRecord)
    BY <1>1 DEF InvocationInv, Ended
  <1>3. /\ host' \in Views
        /\ host' = "reduced" => result.changed /\ q.via # "benchmark"
        /\ host' \in {"nothing", "part"} => q.via = "optimize" /\ step' # "done"
    <2>1. CASE Deliver
      BY <2>1 DEF Deliver, Views
    <2>2. CASE Copy
      BY <2>2 DEF Copy, Views
    <2>3. CASE WriteFails
      BY <1>2, <2>3 DEF WriteFails, Before, Views, Hosts
    <2>. QED  BY <2>1, <2>2, <2>3
  <1>4. TypeOK'
    BY <1>1, <1>3 DEF TypeOK, Steps, Ended
  <1>. QED  BY <1>1, <1>3, <1>4, Frame DEF InvocationInv, Ended, Replaced

LEMMA KillStep ==
    ASSUME InvocationInv, Kill
    PROVE  InvocationInv'
  <1>1. /\ step \notin Ended /\ step' = "failed"
        /\ UNCHANGED <<q, c, result, cut, entry, cache, record, host>>
    BY DEF Kill, Ended
  <1>2. TypeOK' /\ (Replaced' <=> Replaced)
    BY <1>1 DEF TypeOK, Steps, InvocationInv, Replaced
  <1>. QED  BY <1>1, <1>2, Frame DEF InvocationInv, Ended

LEMMA PassStep ==
    ASSUME InvocationInv, Pass \/ Panic
    PROVE  InvocationInv'
  <1>1. /\ step \in {"gates", "reduce"} /\ step' \in {"reduce", "unwind"}
        /\ UNCHANGED <<q, c, result, cut, entry, cache, record, host>>
    BY DEF Pass, Panic
  <1>2. ~Declines(q, c) /\ ~result.changed
    BY <1>1 DEF InvocationInv, Ended
  <1>. QED  BY <1>1, <1>2, OnlyStep DEF Ended

THEOREM InvocationInvariant == Spec => []InvocationInv
<1>1. Init => InvocationInv
  <2>. SUFFICES ASSUME Init PROVE InvocationInv
    OBVIOUS
  <2>1. /\ step = "start" /\ q \in Requests /\ c \in Configs
        /\ result = [out |-> q.out, err |-> q.err, changed |-> FALSE, reason |-> "unchanged"]
        /\ cut = [out |-> 0, err |-> 0] /\ entry = {} /\ cache \in SUBSET Earlier
        /\ record = NoRecord /\ host = Before(q)
    BY DEF Init, Native
  <2>2. q.out \in Nat /\ q.err \in Nat
    BY <2>1, InvocationAssumption DEF Request
  <2>3. result \in [out : Nat, err : Nat, changed : BOOLEAN, reason : Reasons]
    BY <2>1, <2>2 DEF Reasons
  <2>4. TypeOK
    BY <2>1, <2>3, InvocationAssumption DEF TypeOK, Steps, Before, Views
  <2>5. StoredCanBeRead
    BY <2>1, InvocationAssumption DEF StoredCanBeRead
  <2>. QED  BY <2>1, <2>4, <2>5 DEF InvocationInv, Replaced, Before, Ended
<1>2. InvocationInv /\ [Next]_vars => InvocationInv'
  <2>. SUFFICES ASSUME InvocationInv, [Next]_vars PROVE InvocationInv'
    OBVIOUS
  <2>1. CASE Start \/ Decline
    BY <2>1, StartStep
  <2>2. CASE Refuse
    <3>1. PICK i \in DOMAIN Gates : Stop(Gates[i].reason)
      BY <2>2 DEF Refuse
    <3>2. step = "gates"
      BY <2>2 DEF Refuse
    <3>. QED  BY <3>1, <3>2, GateReasons, StopStep
  <2>3. CASE Pass
    BY <2>3, PassStep
  <2>4. CASE Panic
    BY <2>4, PassStep
  <2>5. CASE Put
    BY <2>5, PutStep
  <2>6. CASE PutFails
    BY <2>6, StopStep DEF PutFails, Reasons
  <2>7. CASE Build
    BY <2>7, BuildStep
  <2>8. CASE Record
    BY <2>8, RecordStep
  <2>9. CASE Deliver \/ Copy \/ WriteFails
    BY <2>9, DeliverStep
  <2>10. CASE Kill
    BY <2>10, KillStep
  <2>11. ASSUME NEW a \in 0..q.out + 1, NEW b \in 0..q.err + 1,
                NEW same \in BOOLEAN, NEW intact \in BOOLEAN, Reduce(a, b, same, intact)
         PROVE  InvocationInv'
    <3>1. a \in Nat /\ b \in Nat
      BY <2>11, RequestShape DEF InvocationInv
    <3>. QED  BY <2>11, <3>1, ReduceStep
  <2>12. CASE UNCHANGED vars
    <3>1. /\ step' = step /\ UNCHANGED <<q, c, result, cut, entry, cache, record, host>>
      BY <2>12 DEF vars
    <3>2. TypeOK' /\ (Replaced' <=> Replaced)
      BY <3>1 DEF TypeOK, InvocationInv, Replaced
    <3>. QED  BY <3>1, <3>2, Frame DEF InvocationInv, Ended
  <2>. QED
    BY <2>1, <2>2, <2>3, <2>4, <2>5, <2>6, <2>7, <2>8, <2>9, <2>10, <2>11, <2>12 DEF Next
<1>. QED  BY <1>1, <1>2, PTL DEF Spec

-----------------------------------------------------------------------------
(* Whatever fails and whenever the process is killed, no output is lost.    *)
THEOREM NoOutputLost == Spec => []NothingIsLost
<1>1. InvocationInv => NothingIsLost
  <2>. SUFFICES ASSUME InvocationInv PROVE NothingIsLost
    OBVIOUS
  <2>1. ASSUME Replaced
        PROVE  /\ \E e \in entry : e.of = q /\ e.optimized = Delivered
               /\ 100 * (Original(q) - Delivered) >= c.minReduction * Original(q)
               /\ 100 * (Original(q) - Delivered) <= c.maxReduction * Original(q)
    <3>1. /\ result.changed /\ NewEntry \in entry /\ WithinBudget(cut.out, cut.err)
          /\ result.out + result.err = Final(cut.out, cut.err)
          /\ q.via # "claude" => result.err = 0
      BY <2>1 DEF InvocationInv, IsStored, Reduced
    <3>2. result.out \in Nat /\ result.err \in Nat
      BY DEF InvocationInv, TypeOK
    <3>3. Delivered = Final(cut.out, cut.err)
      BY <3>1, <3>2 DEF Delivered
    <3>4. NewEntry.of = q /\ NewEntry.optimized = Delivered
      BY <3>3 DEF NewEntry
    <3>. QED  BY <3>1, <3>3, <3>4 DEF WithinBudget
  <2>2. host \in {"nothing", "part"} => q.via = "optimize" /\ step # "done"
    BY DEF InvocationInv
  <2>. QED  BY <2>1, <2>2 DEF NothingIsLost
<1>. QED  BY InvocationInvariant, <1>1, PTL

(* A metrics record agrees with the cache, the marker and the host.         *)
THEOREM RecordsAreTrue == Spec => []RecordIsTrue
<1>1. InvocationInv => RecordIsTrue
  <2>. SUFFICES ASSUME InvocationInv, record # NoRecord PROVE RecordIsTrue
    BY DEF RecordIsTrue
  <2>1. /\ TypeOK /\ record = Committed /\ q.via # "benchmark"
        /\ ~result.changed => result.out = q.out /\ result.err = q.err
        /\ result.changed =>
             IsStored /\ result.out + result.err = Final(cut.out, cut.err)
        /\ Replaced => result.changed
        /\ result.changed /\ q.via # "claude" => result.err = 0
    BY DEF InvocationInv
  <2>2. /\ record.original = Original(q) /\ record.changed = result.changed
        /\ record.optimized = result.out + result.err
    BY <2>1 DEF Committed
  <2>3. record.changed => \E e \in entry : e.optimized = record.optimized
    BY <2>1, <2>2 DEF IsStored, NewEntry
  <2>4. ~record.changed => record.optimized = record.original
    BY <2>1, <2>2 DEF Original
  <2>5. Replaced => record.changed /\ record.optimized = Delivered
    <3>1. result.out \in Nat /\ result.err \in Nat
      BY <2>1 DEF TypeOK
    <3>. QED  BY <2>1, <2>2, <3>1 DEF Delivered
  <2>. QED  BY <2>2, <2>3, <2>4, <2>5 DEF RecordIsTrue
<1>. QED  BY InvocationInvariant, <1>1, PTL

(* What is cached under a configuration can be read back under it.          *)
THEOREM StoredIsReadable == Spec => []StoredCanBeRead
<1>1. InvocationInv => StoredCanBeRead
  BY DEF InvocationInv
<1>. QED  BY InvocationInvariant, <1>1, PTL

(* A benchmark changes neither the cache nor the metrics.                   *)
THEOREM BenchmarksAreDry == Spec => DryRunTouchesNothing
<1>1. InvocationInv /\ [Next]_vars =>
        [q.via = "benchmark" => cache' = cache /\ record' = NoRecord]_vars
  <2>. SUFFICES ASSUME InvocationInv, Next, q.via = "benchmark"
                PROVE  cache' = cache /\ record' = NoRecord
    OBVIOUS
  <2>1. record = NoRecord /\ step # "put"
    BY DEF InvocationInv
  <2>2. ~Put
    BY <2>1 DEF Put
  <2>3. cache' = cache
    BY <2>2 DEF Next, Start, Decline, Refuse, Pass, Panic, PutFails, Build, Record, Deliver,
                Copy, WriteFails, Kill, Reduce, Stop
  <2>4. record' = record
    BY <2>2 DEF Next, Start, Decline, Refuse, Pass, Panic, PutFails, Build, Record, Deliver,
                Copy, WriteFails, Kill, Reduce, Stop
  <2>. QED  BY <2>1, <2>3, <2>4
<1>. QED  BY InvocationInvariant, <1>1, PTL DEF Spec, DryRunTouchesNothing

-----------------------------------------------------------------------------
(* The settings, paths in a document.                                      *)
Path == Seq(Keys) \ {<<>>}

(* What is within a path that is not empty begins with it.                 *)
LEMMA Begins ==
    ASSUME NEW p \in Path, NEW r \in Path, Within(p, r)
    PROVE  Len(r) \in 1..Len(p) /\ SubSeq(p, 1, Len(r)) = r
    BY DEF Within, Path

LEMMA PrefixOf ==
    ASSUME NEW p \in Path, NEW n \in 1..Len(p)
    PROVE  /\ SubSeq(p, 1, n) \in Path /\ Len(SubSeq(p, 1, n)) = n
           /\ \A m \in 1..n : SubSeq(SubSeq(p, 1, n), 1, m) = SubSeq(p, 1, m)
           /\ SubSeq(p, 1, Len(p)) = p
    BY DEF Path

LEMMA MergeIs ==
    ASSUME NEW dst, NEW src
    PROVE  /\ DOMAIN Merge(dst, src) = DOMAIN src \cup Kept(dst, src)
           /\ Kept(dst, src) \subseteq DOMAIN dst
           /\ \A p \in DOMAIN src : Merge(dst, src)[p] = src[p]
           /\ \A p \in Kept(dst, src) \ DOMAIN src : Merge(dst, src)[p] = dst[p]
    BY DEF Merge, Kept

(* What a file does not set is lost only below something that is no        *)
(* mapping in the file.                                                    *)
LEMMA MergeLoses ==
    ASSUME NEW dst, NEW src, Document(dst), Document(src), NEW p \in DOMAIN dst,
           p \notin DOMAIN src, p \notin DOMAIN Merge(dst, src)
    PROVE  \E n \in 1..Len(p) - 1 :
               SubSeq(p, 1, n) \in DOMAIN src /\ src[SubSeq(p, 1, n)] # "map"
<1>0. p \notin Kept(dst, src)
    <2>1. DOMAIN Merge(dst, src) = DOMAIN src \cup Kept(dst, src)
        BY MergeIs
    <2> QED BY <2>1
<1>1. PICK r \in DOMAIN dst \cap DOMAIN src : Within(p, r) /\ ~(dst[r] = "map" /\ src[r] = "map")
    BY <1>0 DEF Kept
<1>2. p \in Path /\ r \in Path
    BY <1>1 DEF Document, Path
<1>3. Len(r) \in 1..Len(p) /\ SubSeq(p, 1, Len(r)) = r
    BY <1>1, <1>2, Begins
<1>4. Len(r) # Len(p)
    BY <1>1, <1>2, <1>3, PrefixOf
<1>5. Len(r) \in 1..Len(p) - 1
    BY <1>2, <1>3, <1>4 DEF Path
<1>6. dst[r] = "map"
    BY <1>3, <1>5 DEF Document
<1> QED BY <1>1, <1>3, <1>5, <1>6

(* Documents are merged into a document.                                   *)
LEMMA MergeDocument ==
    ASSUME NEW dst, NEW src, Document(dst), Document(src)
    PROVE  Document(Merge(dst, src))
<1>. DEFINE M == Merge(dst, src)
<1>0. /\ DOMAIN M = DOMAIN src \cup Kept(dst, src)
      /\ Kept(dst, src) \subseteq DOMAIN dst
      /\ \A p \in DOMAIN src : M[p] = src[p]
      /\ \A p \in Kept(dst, src) \ DOMAIN src : M[p] = dst[p]
    BY MergeIs
<1>. HIDE DEF M
<1>1. DOMAIN M \subseteq Path
    BY <1>0 DEF Document, Path
<1>2. ASSUME NEW p \in DOMAIN M, NEW n \in 1..Len(p) - 1
      PROVE  SubSeq(p, 1, n) \in DOMAIN M /\ M[SubSeq(p, 1, n)] = "map"
    <2>. DEFINE r == SubSeq(p, 1, n)
    <2>1. p \in Path /\ n \in 1..Len(p)
        BY <1>1 DEF Path
    <2>2. r \in Path /\ Len(r) = n
        BY <2>1, PrefixOf
    <2>3. CASE p \in DOMAIN src
        <3>1. r \in DOMAIN src /\ src[r] = "map"
            BY <2>3 DEF Document
        <3>. HIDE DEF r
        <3>2. r \in DOMAIN M /\ M[r] = "map"
            BY <1>0, <3>1
        <3> QED BY <3>2 DEF r
    <2>4. CASE p \notin DOMAIN src
        <3>1. p \in Kept(dst, src) /\ p \in DOMAIN dst
            BY <1>0, <2>4
        <3>2. r \in DOMAIN dst /\ dst[r] = "map"
            BY <3>1 DEF Document
        <3>3. CASE r \in DOMAIN src
            <4>1. Within(p, r)
                BY <2>1, <2>2 DEF Within, Path
            <4>2. src[r] = "map"
                BY <3>1, <3>2, <3>3, <4>1 DEF Kept
            <4>. HIDE DEF r
            <4>3. r \in DOMAIN M /\ M[r] = "map"
                BY <1>0, <3>3, <4>2
            <4> QED BY <4>3 DEF r
        <3>4. CASE r \notin DOMAIN src
            <4>1. ASSUME NEW x \in DOMAIN dst \cap DOMAIN src, Within(r, x) PROVE Within(p, x)
                <5>1. x \in Path
                    BY DEF Document, Path
                <5>2. Len(x) \in 1..n /\ SubSeq(r, 1, Len(x)) = x
                    BY <2>2, <4>1, <5>1, Begins
                <5>3. SubSeq(p, 1, Len(x)) = x
                    BY <2>1, <5>2, PrefixOf
                <5> QED BY <2>1, <5>2, <5>3 DEF Within, Path
            <4>2. r \in Kept(dst, src)
                BY <3>1, <3>2, <4>1 DEF Kept
            <4>. HIDE DEF r
            <4>3. r \in DOMAIN M /\ M[r] = "map"
                BY <1>0, <3>2, <3>4, <4>2
            <4> QED BY <4>3 DEF r
        <3> QED BY <3>3, <3>4
    <2> QED BY <2>3, <2>4
<1> QED BY <1>1, <1>2 DEF Document, Path, M

-----------------------------------------------------------------------------
(* The files, and what was loaded from them.                               *)
FilesAreDocuments ==
    \A f \in {files.global, files.project} : f.kind = "mapping" => Document(f.doc)

Below == Layer(Default, files.global)

LEMMA Layers ==
    /\ Below = Layer(Default, files.global)
    /\ Merged(files) = Layer(Below, files.project)
    BY DEF Below, Merged

LEMMA LayersAreDocuments ==
    ASSUME FilesAreDocuments
    PROVE  Document(Below) /\ Document(Merged(files))
<1>1. ASSUME NEW dst, Document(dst), NEW f, f.kind = "mapping" => Document(f.doc)
      PROVE  Document(Layer(dst, f))
    BY <1>1, MergeDocument DEF Layer
<1>2. Document(Below)
    BY <1>1, Layers, ConfigurationAssumption DEF FilesAreDocuments
<1> QED BY <1>1, <1>2, Layers DEF FilesAreDocuments

(* A file over what is below it.                                           *)
LEMMA LayerIs ==
    ASSUME NEW dst, NEW f, NEW p
    PROVE  /\ Sets(f, p) => p \in DOMAIN Layer(dst, f) /\ Layer(dst, f)[p] = f.doc[p]
           /\ ~Sets(f, p) /\ p \in DOMAIN Layer(dst, f) =>
                p \in DOMAIN dst /\ Layer(dst, f)[p] = dst[p]
           /\ f.kind # "mapping" => Layer(dst, f) = dst
<1>1. CASE f.kind = "mapping"
    <2>1. Layer(dst, f) = Merge(dst, f.doc)
        BY <1>1 DEF Layer
    <2>. DEFINE src == f.doc
    <2>2. /\ DOMAIN Merge(dst, src) = DOMAIN src \cup Kept(dst, src)
          /\ Kept(dst, src) \subseteq DOMAIN dst
          /\ \A x \in DOMAIN src : Merge(dst, src)[x] = src[x]
          /\ \A x \in Kept(dst, src) \ DOMAIN src : Merge(dst, src)[x] = dst[x]
        BY MergeIs
    <2>3. Sets(f, p) <=> p \in DOMAIN src
        BY <1>1 DEF Sets
    <2> QED BY <1>1, <2>1, <2>2, <2>3
<1>2. CASE f.kind # "mapping"
    BY <1>2 DEF Layer, Sets
<1> QED BY <1>1, <1>2

(* What a file does not set is lost only below something that is no        *)
(* mapping in the file.                                                    *)
LEMMA LayerLoses ==
    ASSUME NEW dst, NEW f, Document(dst), f.kind = "mapping" => Document(f.doc),
           NEW p \in DOMAIN dst, p \notin DOMAIN Layer(dst, f)
    PROVE  /\ f.kind = "mapping"
           /\ \E n \in 1..Len(p) - 1 :
                 Sets(f, SubSeq(p, 1, n)) /\ f.doc[SubSeq(p, 1, n)] # "map"
<1>1. f.kind = "mapping"
    BY LayerIs
<1>2. ~Sets(f, p)
    BY LayerIs
<1>3. p \notin DOMAIN f.doc /\ p \notin DOMAIN Merge(dst, f.doc) /\ Document(f.doc)
    BY <1>1, <1>2 DEF Sets, Layer
<1> QED BY <1>1, <1>3, MergeLoses DEF Sets

(* A setting that somebody sets has its last word; the rest comes from the *)
(* default.                                                                *)
LEMMA Origin ==
    ASSUME NEW p \in DOMAIN Merged(files)
    PROVE  \/ /\ Sets(files.project, p) \/ Sets(files.global, p)
              /\ Merged(files)[p] = Word(p)
           \/ /\ ~Sets(files.project, p) /\ ~Sets(files.global, p)
              /\ p \in DOMAIN Default /\ Merged(files)[p] = Default[p]
<1>1. CASE Sets(files.project, p)
    BY <1>1, Layers, LayerIs DEF Word
<1>2. CASE ~Sets(files.project, p)
    <2>1. p \in DOMAIN Below /\ Merged(files)[p] = Below[p]
        BY <1>2, Layers, LayerIs
    <2>2. CASE Sets(files.global, p)
        <3>1. Below[p] = files.global.doc[p]
            BY <2>2, Layers, LayerIs
        <3> QED BY <1>2, <2>1, <2>2, <3>1 DEF Word
    <2>3. CASE ~Sets(files.global, p)
        <3>1. p \in DOMAIN Default /\ Below[p] = Default[p]
            BY <2>1, <2>3, Layers, LayerIs
        <3> QED BY <1>2, <2>1, <2>3, <3>1
    <2> QED BY <2>2, <2>3
<1> QED BY <1>1, <1>2

(* Above a setting there are only mappings and nulls, or Load fails.       *)
Above(r) == (\E s \in Sections : r = <<s>>) \/ (\E m \in Maps : \E k \in Keys : r = <<m, k>>)

LEMMA OnlyMappings ==
    ASSUME NEW doc, Decodes(doc), NEW r \in DOMAIN doc, Above(r)
    PROVE  doc[r] \in {"map", "null"}
<1>1. CASE \E s \in Sections : r = <<s>>
    <2>1. PICK s \in Sections : r = <<s>>
        BY <1>1
    <2>2. r \notin {ModePath, RulesPath, KeptFor, Version} /\ Len(r) = 1
        BY <2>1 DEF Sections, Maps, ModePath, RulesPath, Version, KeptFor, Section
    <2>3. r \notin Switched
        BY <2>2 DEF Switched, Section
    <2>4. r \notin Numbers
        BY <2>2 DEF Numbers, MinBytes, MinLines, MinReduction, MaxReduction, MaxInput, MaxSize,
                    MaxOutput, PerToken, Section
    <2> QED BY <2>2, <2>3, <2>4 DEF Decodes
<1>2. CASE \E m \in Maps : \E k \in Keys : r = <<m, k>>
    <2>1. PICK m \in Maps : \E k \in Keys : r = <<m, k>>
        BY <1>2
    <2>2. Len(r) = 2 /\ r[1] = m
        BY <2>1
    <2>3. r \notin {ModePath, RulesPath, KeptFor} /\ Len(r) # 3
        BY <2>2 DEF ModePath, RulesPath, KeptFor, Section, Maps
    <2>4. r \notin Switched
        BY <2>1, <2>2 DEF Switched, Section, Maps
    <2>5. r \notin Numbers
        BY <2>1, <2>2 DEF Numbers, Version, MinBytes, MinLines, MinReduction, MaxReduction,
                          MaxInput, MaxSize, MaxOutput, PerToken, Section, Maps
    <2> QED BY <2>3, <2>4, <2>5 DEF Decodes
<1> QED BY <1>1, <1>2 DEF Above

(* A setting of a section or of an entry of a map.                         *)
Setting(p) == p \in Path /\ \A n \in 1..Len(p) - 1 : Above(SubSeq(p, 1, n))

(* The last word is what Load reads, unless it fails.                      *)
LEMMA WordIsRead ==
    ASSUME FilesAreDocuments, Loads(files), NEW p, Setting(p), NoNulls(p),
           Sets(files.project, p) \/ Sets(files.global, p)
    PROVE  p \in DOMAIN Merged(files) /\ Merged(files)[p] = Word(p)
<1>. DEFINE M == Merged(files)  f == files.project
<1>1. p \in DOMAIN M
    <2>1. CASE Sets(f, p)
        BY <2>1, Layers, LayerIs
    <2>2. CASE ~Sets(f, p)
        <3>1. p \in DOMAIN Below
            BY <2>2, Layers, LayerIs
        <3>2. SUFFICES ASSUME p \notin DOMAIN M PROVE FALSE
            OBVIOUS
        <3>3. /\ f.kind = "mapping"
              /\ \E n \in 1..Len(p) - 1 :
                    Sets(f, SubSeq(p, 1, n)) /\ f.doc[SubSeq(p, 1, n)] # "map"
            BY <3>1, <3>2, Layers, LayersAreDocuments, LayerLoses DEF FilesAreDocuments
        <3>4. PICK n \in 1..Len(p) - 1 :
                  Sets(f, SubSeq(p, 1, n)) /\ f.doc[SubSeq(p, 1, n)] # "map"
            BY <3>3
        <3>. DEFINE r == SubSeq(p, 1, n)
        <3>5. r \in DOMAIN M /\ M[r] = f.doc[r]
            BY <3>4, Layers, LayerIs
        <3>6. Decodes(M) /\ Above(r)
            BY DEF Loads, Setting
        <3>7. M[r] \in {"map", "null"}
            BY <3>5, <3>6, OnlyMappings
        <3>8. n \in 1..Len(p) /\ f \in Mappings
            BY <3>3 DEF Mappings, Setting, Path
        <3>9. f.doc[r] # "null"
            BY <3>4, <3>8 DEF NoNulls
        <3> QED BY <3>4, <3>5, <3>7, <3>9
    <2> QED BY <2>1, <2>2
<1> QED BY <1>1, Origin

(* A setting that the default has is there, if the files have only         *)
(* mappings above it.                                                      *)
LEMMA DefaultIsKept ==
    ASSUME FilesAreDocuments, NEW p \in DOMAIN Default, Unbroken(p)
    PROVE  p \in DOMAIN Merged(files)
<1>1. ASSUME NEW f \in {files.global, files.project}, NEW dst, Document(dst), p \in DOMAIN dst
      PROVE  p \in DOMAIN Layer(dst, f)
    <2>1. SUFFICES ASSUME p \notin DOMAIN Layer(dst, f) PROVE FALSE
        OBVIOUS
    <2>2. f.kind = "mapping" => Document(f.doc)
        BY DEF FilesAreDocuments
    <2>3. /\ f.kind = "mapping"
          /\ \E n \in 1..Len(p) - 1 :
                Sets(f, SubSeq(p, 1, n)) /\ f.doc[SubSeq(p, 1, n)] # "map"
        BY <1>1, <2>1, <2>2, LayerLoses
    <2>4. f \in Mappings
        BY <2>3 DEF Mappings
    <2> QED BY <2>3, <2>4 DEF Unbroken
<1>2. p \in DOMAIN Below
    BY <1>1, Layers, ConfigurationAssumption
<1> QED BY <1>1, <1>2, Layers, LayersAreDocuments

-----------------------------------------------------------------------------
(* The paths of up to three names, and what they begin with.               *)
LEMMA TupleIs ==
    ASSUME NEW S, NEW a \in S, NEW b \in S, NEW d \in S
    PROVE  /\ <<a>> \in Seq(S) /\ Len(<<a>>) = 1 /\ <<a>>[1] = a
           /\ <<a, b>> \in Seq(S) /\ Len(<<a, b>>) = 2 /\ <<a, b>>[1] = a /\ <<a, b>>[2] = b
           /\ <<a, b, d>> \in Seq(S) /\ Len(<<a, b, d>>) = 3
           /\ <<a, b, d>>[1] = a /\ <<a, b, d>>[2] = b /\ <<a, b, d>>[3] = d
    OBVIOUS

LEMMA TuplePrefixes ==
    ASSUME NEW S, NEW a \in S, NEW b \in S, NEW d \in S
    PROVE  /\ SubSeq(<<a, b, d>>, 1, 1) = <<a>> /\ SubSeq(<<a, b, d>>, 1, 2) = <<a, b>>
           /\ SubSeq(<<a, b>>, 1, 1) = <<a>>
<1>1. \A s \in Seq(S) : Len(s) = 1 => s = <<s[1]>>
    OBVIOUS
<1>2. \A s \in Seq(S) : Len(s) = 2 => s = <<s[1], s[2]>>
    OBVIOUS
<1>3. \A s \in Seq(S) : \A n \in 1..Len(s) :
          /\ SubSeq(s, 1, n) \in Seq(S) /\ Len(SubSeq(s, 1, n)) = n
          /\ \A i \in 1..n : SubSeq(s, 1, n)[i] = s[i]
    OBVIOUS
<1>4. SubSeq(<<a, b>>, 1, 1) = <<a>>
    <2>. DEFINE s == <<a, b>>  t == SubSeq(s, 1, 1)
    <2>1. s \in Seq(S) /\ Len(s) = 2 /\ s[1] = a /\ 1 \in 1..2 /\ 1 \in 1..1
        BY TupleIs
    <2>. HIDE DEF s
    <2>2. t \in Seq(S) /\ Len(t) = 1 /\ t[1] = a
        BY <1>3, <2>1
    <2>. HIDE DEF t
    <2>3. t = <<a>>
        BY <1>1, <2>2
    <2> QED BY <2>3 DEF t, s
<1>5. SubSeq(<<a, b, d>>, 1, 1) = <<a>> /\ SubSeq(<<a, b, d>>, 1, 2) = <<a, b>>
    <2>. DEFINE s == <<a, b, d>>  t == SubSeq(s, 1, 1)  u == SubSeq(s, 1, 2)
    <2>1. s \in Seq(S) /\ Len(s) = 3 /\ s[1] = a /\ s[2] = b
        BY TupleIs
    <2>2. 1 \in 1..3 /\ 2 \in 1..3 /\ 1 \in 1..1 /\ 1 \in 1..2 /\ 2 \in 1..2
        OBVIOUS
    <2>. HIDE DEF s
    <2>3. t \in Seq(S) /\ Len(t) = 1 /\ t[1] = a
        BY <1>3, <2>1, <2>2
    <2>4. u \in Seq(S) /\ Len(u) = 2 /\ u[1] = a /\ u[2] = b
        BY <1>3, <2>1, <2>2
    <2>. HIDE DEF t, u
    <2>5. t = <<a>>
        BY <1>1, <2>3
    <2>6. u = <<a, b>>
        BY <1>2, <2>4
    <2> QED BY <2>5, <2>6 DEF t, u, s
<1> QED BY <1>4, <1>5

(* The settings that are a switch.                                         *)
LEMMA SectionIsSetting ==
    ASSUME NEW s \in Sections, NEW k \in Keys
    PROVE  Setting(Section(s, k))
<1>. DEFINE p == <<s, k>>
<1>1. s \in Keys
    BY ConfigurationAssumption
<1>2. p \in Seq(Keys) /\ Len(p) = 2
    BY <1>1, TupleIs
<1>3. SubSeq(p, 1, 1) = <<s>>
    BY <1>1, TuplePrefixes
<1>. HIDE DEF p
<1>4. p # <<>> /\ \A n \in 1..Len(p) - 1 : n = 1
    <2>1. \A n \in 1..2 - 1 : n = 1
        OBVIOUS
    <2>2. p = <<>> => Len(p) = 0
        OBVIOUS
    <2>3. p # <<>>
        BY <1>2, <2>2
    <2> QED BY <1>2, <2>1, <2>3
<1>5. Above(SubSeq(p, 1, 1))
    BY <1>3 DEF Above
<1> QED BY <1>2, <1>4, <1>5 DEF Setting, Path, Section, p

LEMMA EntryIsSetting ==
    ASSUME NEW m \in Maps, NEW k \in Keys, NEW l \in Keys
    PROVE  Setting(<<m, k, l>>)
<1>. DEFINE p == <<m, k, l>>
<1>1. m \in Keys /\ m \in Sections
    BY ConfigurationAssumption DEF Sections, Maps
<1>2. p \in Seq(Keys) /\ Len(p) = 3
    BY <1>1, TupleIs
<1>3. SubSeq(p, 1, 1) = <<m>> /\ SubSeq(p, 1, 2) = <<m, k>>
    BY <1>1, TuplePrefixes
<1>. HIDE DEF p
<1>4. p # <<>> /\ \A n \in 1..Len(p) - 1 : n = 1 \/ n = 2
    <2>1. \A n \in 1..3 - 1 : n = 1 \/ n = 2
        OBVIOUS
    <2>2. p = <<>> => Len(p) = 0
        OBVIOUS
    <2>3. p # <<>>
        BY <1>2, <2>2
    <2> QED BY <1>2, <2>1, <2>3
<1>5. Above(SubSeq(p, 1, 1)) /\ Above(SubSeq(p, 1, 2))
    BY <1>1, <1>3 DEF Above
<1> QED BY <1>2, <1>4, <1>5 DEF Setting, Path, p

LEMMA ModeIsSetting == Setting(ModePath)
<1>1. ModePath \in Seq(Keys) /\ Len(ModePath) = 1
    BY ConfigurationAssumption, TupleIs DEF ModePath
<1>2. ModePath # <<>> /\ \A n \in 1..Len(ModePath) - 1 : FALSE
    BY <1>1
<1> QED BY <1>1, <1>2 DEF Setting, Path

LEMMA NamedIs ==
    ASSUME TypeOK, NEW l
    PROVE  /\ Named(l) = <<"compressors", Key(q.family), l>>
           /\ Key(q.family) \in {"generic", "node_test", "terraform"}
    BY InvocationAssumption DEF Named, InCompressors, Key, TypeOK, Request

(* What Load makes of the last words.                                      *)
LEMMA LoadedField ==
    ASSUME FilesAreDocuments, Loads(files), NEW p, Setting(p), NEW w, Heard(p, w),
           w \notin {unset, "null"}
    PROVE  Field(Merged(files), p) = w
    BY WordIsRead DEF Heard, Word, Field, Given

LEMMA LoadedEntry ==
    ASSUME FilesAreDocuments, Loads(files), NEW m \in Maps, NEW k \in Keys, NEW l \in Keys,
           Setting(<<m, k, l>>), NEW w, Heard(<<m, k, l>>, w), w \notin {unset, "null"}, NEW zero
    PROVE  /\ ~IsNil(Merged(files), m) /\ <<m, k>> \in DOMAIN Merged(files)
           /\ EntryField(Merged(files), <<m, k, l>>, zero) = w
<1>. DEFINE M == Merged(files)  p == <<m, k, l>>
<1>1. p \in DOMAIN M /\ M[p] = w
    BY WordIsRead DEF Heard, Word
<1>2. /\ Len(p) = 3 /\ SubSeq(p, 1, 1) = <<m>> /\ SubSeq(p, 1, 2) = <<m, k>>
      /\ 1 \in 1..Len(p) - 1 /\ 2 \in 1..Len(p) - 1
    <2>1. m \in Keys
        BY ConfigurationAssumption DEF Sections, Maps
    <2>2. Len(p) = 3
        BY <2>1, TupleIs
    <2>3. SubSeq(p, 1, 1) = <<m>> /\ SubSeq(p, 1, 2) = <<m, k>>
        BY <2>1, TuplePrefixes
    <2> QED BY <2>2, <2>3
<1>3. Document(M)
    BY LayersAreDocuments
<1>4. <<m>> \in DOMAIN M /\ M[<<m>>] = "map" /\ <<m, k>> \in DOMAIN M /\ M[<<m, k>>] = "map"
    BY <1>1, <1>2, <1>3 DEF Document
<1>5. Given(M, <<m>>) /\ Given(M, <<m, k>>) /\ Given(M, p)
    BY <1>1, <1>4 DEF Given
<1> QED BY <1>1, <1>2, <1>4, <1>5 DEF IsNil, EntryField

-----------------------------------------------------------------------------
(* What the switches of a configuration leave to an invocation.            *)
LetThrough == c.mode # "off" /\ c.enabled /\ FamilyMode # "off"
Acted      == entry # {} \/ record # NoRecord \/ Replaced

SwitchInv ==
    /\ Acted \/ result.reason # "unchanged" => ~Declines(q, c)
    /\ step \in {"reduce", "put", "build"} => LetThrough
    /\ step \in {"put", "build"} \/ entry # {} \/ result.changed => LetThrough /\ c.cache
    /\ record # NoRecord => c.metrics
    /\ result.reason = "disabled" => c.mode = "off"
    /\ result.reason = "compressor disabled" => ~c.enabled
    /\ result.reason = "compressor mode off" => c.mode # "off" /\ FamilyMode = "off"
    /\ result.reason = "cache disabled; preserving original" => ~c.cache

LEMMA GateDomain == DOMAIN Gates = 1..6
    BY DEF Gates

(* What a step does not change, SwitchInv does not see.                    *)
LEMMA StopSwitch ==
    ASSUME TypeOK, SwitchInv, ~Declines(q, c), NEW reason, Stop(reason),
           reason = "disabled" => c.mode = "off",
           reason = "compressor disabled" => ~c.enabled,
           reason = "compressor mode off" => c.mode # "off" /\ FamilyMode = "off",
           reason = "cache disabled; preserving original" => ~c.cache
    PROVE  SwitchInv'
<1>1. /\ result'.reason = reason /\ result'.changed = result.changed /\ step' = "record"
      /\ UNCHANGED <<q, c, cut, entry, cache, record, host>>
    BY DEF Stop, TypeOK
<1>2. (Acted' <=> Acted) /\ (Declines(q, c)' <=> Declines(q, c)) /\ (LetThrough' <=> LetThrough)
      /\ FamilyMode' = FamilyMode
    BY <1>1 DEF Acted, Replaced, Declines, LetThrough, FamilyMode
<1> QED BY <1>1, <1>2 DEF SwitchInv

LEMMA GateSwitch ==
    ASSUME NEW n \in DOMAIN Gates, StopsAt(Gates, n)
    PROVE  /\ Gates[n].reason = "disabled" => c.mode = "off"
           /\ Gates[n].reason = "compressor disabled" => ~c.enabled
           /\ Gates[n].reason = "compressor mode off" => c.mode # "off" /\ FamilyMode = "off"
           /\ Gates[n].reason # "cache disabled; preserving original"
<1>1. DOMAIN Gates = 1..6
    BY GateDomain
<1>2. n = 1 \/ n = 2 \/ n = 3 \/ n = 4 \/ n = 5 \/ n = 6
    BY <1>1
<1>3. /\ Gates[1].reason = "disabled" /\ Gates[1].stops = (c.mode = "off")
      /\ Gates[2].reason = "binary output" /\ Gates[3].reason = "input limit"
      /\ Gates[4].reason = "below thresholds"
      /\ Gates[5].reason = "compressor disabled" /\ Gates[5].stops = ~c.enabled
      /\ Gates[6].reason = "compressor mode off" /\ Gates[6].stops = (FamilyMode = "off")
    BY DEF Gates
<1>4. n = 6 => 1 \in 1..n - 1
    OBVIOUS
<1> QED BY <1>2, <1>3, <1>4 DEF StopsAt

LEMMA CheckSwitch ==
    ASSUME NEW a, NEW b, NEW same, NEW intact
    PROVE  \A n \in DOMAIN Checks(a, b, same, intact) :
             /\ Checks(a, b, same, intact)[n].reason \notin
                  {"disabled", "compressor disabled", "compressor mode off"}
             /\ StopsAt(Checks(a, b, same, intact), n) /\
                Checks(a, b, same, intact)[n].reason = "cache disabled; preserving original" =>
                  ~c.cache
<1>. DEFINE C == Checks(a, b, same, intact)
<1>1. /\ C[1].reason = "integrity guard" /\ C[2].reason = "unchanged"
      /\ C[3].reason = "cache disabled; preserving original" /\ C[3].stops = ~c.cache
      /\ C[4].reason = "reduction budget"
    BY DEF Checks
<1>2. \A n \in 1..4 : n = 1 \/ n = 2 \/ n = 3 \/ n = 4
    OBVIOUS
<1>3. DOMAIN C = 1..4
    BY CheckDomain
<1>. HIDE DEF C
<1> QED BY <1>1, <1>2, <1>3 DEF StopsAt, C

LEMMA SwitchStep ==
    ASSUME InvocationInv, SwitchInv, [Next]_vars
    PROVE  SwitchInv'
<1>. TypeOK
    BY DEF InvocationInv
<1>0. ASSUME UNCHANGED <<q, c>>
      PROVE  /\ (Declines(q, c)' <=> Declines(q, c)) /\ (LetThrough' <=> LetThrough)
             /\ FamilyMode' = FamilyMode
    BY <1>0 DEF Declines, LetThrough, FamilyMode
<1>1. CASE Start \/ Decline \/ Kill \/ Panic
    <2>1. /\ step' \in {"gates", "copy", "unwind", "done", "failed"}
          /\ UNCHANGED <<q, c, result, cut, entry, cache, record, host>>
        BY <1>1 DEF Start, Decline, Kill, Panic
    <2> QED BY <1>0, <2>1 DEF SwitchInv, Acted, Replaced
<1>2. CASE Refuse
    <2>1. PICK n \in DOMAIN Gates : StopsAt(Gates, n) /\ Stop(Gates[n].reason)
        BY <1>2 DEF Refuse
    <2>2. ~Declines(q, c)
        BY <1>2 DEF Refuse, InvocationInv, Ended
    <2> QED BY <2>1, <2>2, GateSwitch, StopSwitch
<1>3. CASE Pass
    <2>1. /\ step' = "reduce" /\ AllOpen(Gates)
          /\ UNCHANGED <<q, c, result, cut, entry, cache, record, host>>
        BY <1>3 DEF Pass
    <2>2. LetThrough
        <3>1. 1 \in DOMAIN Gates /\ 5 \in DOMAIN Gates /\ 6 \in DOMAIN Gates
            BY DEF Gates
        <3>2. ~Gates[1].stops /\ ~Gates[5].stops /\ ~Gates[6].stops
            BY <2>1, <3>1 DEF AllOpen
        <3>3. /\ Gates[1].stops = (c.mode = "off") /\ Gates[5].stops = ~c.enabled
              /\ Gates[6].stops = (FamilyMode = "off")
            BY DEF Gates
        <3>4. c.enabled \in BOOLEAN
            BY InvocationAssumption DEF TypeOK, Config
        <3> QED BY <3>2, <3>3, <3>4 DEF LetThrough
    <2> QED BY <1>0, <2>1, <2>2 DEF SwitchInv, Acted, Replaced
<1>5. CASE PutFails
    BY <1>5, StopSwitch DEF PutFails, InvocationInv, Ended
<1>6. ASSUME NEW a, NEW b, NEW same, NEW intact, Reduce(a, b, same, intact) PROVE SwitchInv'
    <2>. DEFINE C == Checks(a, b, same, intact)
    <2>1. CASE \E n \in DOMAIN C : StopsAt(C, n) /\ Stop(C[n].reason)
        <3>1. ~Declines(q, c)
            BY <1>6 DEF Reduce, InvocationInv, Ended
        <3> QED BY <2>1, <3>1, CheckSwitch, StopSwitch
    <2>2. CASE /\ AllOpen(C) /\ step' \in {"build", "put"}
               /\ UNCHANGED <<q, c, result, entry, cache, record, host>>
        <3>1. c.cache
            <4>1. DOMAIN C = 1..4
                BY CheckDomain
            <4>2. C[3].stops = ~c.cache
                BY DEF Checks
            <4>3. c.cache \in BOOLEAN
                BY InvocationAssumption DEF TypeOK, Config
            <4>. HIDE DEF C
            <4>4. ~C[3].stops
                BY <2>2, <4>1 DEF AllOpen
            <4> QED BY <4>2, <4>3, <4>4
        <3>2. LetThrough
            BY <1>6 DEF Reduce, SwitchInv
        <3> QED BY <1>0, <2>2, <3>1, <3>2 DEF SwitchInv, Acted, Replaced
    <2> QED BY <1>6, <2>1, <2>2 DEF Reduce
<1>7. CASE Put
    <2>1. /\ step = "put" /\ step' = "build" /\ UNCHANGED <<q, c, result, cut, record, host>>
        BY <1>7 DEF Put
    <2>2. ~Declines(q, c) /\ LetThrough /\ c.cache
        BY <2>1 DEF InvocationInv, SwitchInv, Ended
    <2> QED BY <1>0, <2>1, <2>2 DEF SwitchInv
<1>8. CASE Build
    <2>1. /\ step = "build" /\ step' = "record" /\ UNCHANGED <<q, c, cut, entry, cache, record, host>>
          /\ result'.reason = "compressed"
        BY <1>8 DEF Build
    <2>2. LetThrough /\ c.cache /\ ~Declines(q, c)
        BY <2>1 DEF InvocationInv, SwitchInv, Ended
    <2> QED BY <1>0, <2>1, <2>2 DEF SwitchInv, Acted, Replaced
<1>9. CASE Record
    <2>1. /\ step \in {"record", "unwind"} /\ step' \in {"deliver", "done", "failed"}
          /\ UNCHANGED <<q, c, result, cut, entry, cache, host>>
          /\ record' = record \/ c.metrics
        BY <1>9 DEF Record, AfterRecord
    <2>2. ~Declines(q, c)
        BY <2>1 DEF InvocationInv, Ended
    <2> QED BY <1>0, <2>1, <2>2 DEF SwitchInv
<1>10. CASE Deliver \/ WriteFails \/ Copy
    <2>1. /\ step' \in {"done", "failed"} /\ UNCHANGED <<q, c, result, cut, entry, cache, record>>
        BY <1>10 DEF Deliver, Copy, WriteFails
    <2>2. Replaced' => result.changed
        BY <1>10 DEF Deliver, Copy, WriteFails, Replaced, InvocationInv, Before, Ended
    <2>3. Replaced' => ~Declines(q, c)
        <3>1. CASE step = "deliver"
            BY <3>1 DEF InvocationInv, Ended
        <3>2. CASE step = "copy"
            BY <2>2, <3>2 DEF InvocationInv
        <3> QED BY <1>10, <3>1, <3>2 DEF Deliver, Copy, WriteFails
    <2> QED BY <1>0, <2>1, <2>2, <2>3 DEF SwitchInv, Acted
<1>11. CASE UNCHANGED vars
    BY <1>0, <1>11 DEF vars, SwitchInv, Acted, Replaced
<1> QED BY <1>1, <1>2, <1>3, <1>5, <1>6, <1>7, <1>8, <1>9, <1>10, <1>11 DEF Next

-----------------------------------------------------------------------------
(* What an invocation knows of its files.                                  *)
Known == FilesAreDocuments /\ c = WithFlag(Loaded(files, q.family))

Flagged == q.via \notin Hosts /\ flag # unset

(* What Load makes of them.                                                *)
Setup == Loaded(files, q.family)

(* The flag only changes the mode, and stops an invocation it has no mode  *)
(* for.                                                                    *)
LEMMA FlagIs ==
    ASSUME Known
    PROVE  /\ c.bash = Setup.bash /\ c.enabled = Setup.enabled /\ c.own = Setup.own
           /\ c.cache = Setup.cache /\ c.metrics = Setup.metrics
           /\ c.loads => Loads(files)
           /\ c.loads /\ Flagged => c.mode = flag
           /\ ~Flagged => c.mode = Setup.mode
<1>1. c = WithFlag(Setup) /\ Setup.loads = Loads(files) /\ Loads(files) \in BOOLEAN
    BY DEF Known, Loaded, Setup, Loads
<1>2. DOMAIN Setup = {"loads", "bash", "mode", "enabled", "own", "cache", "metrics", "maxInput",
                      "minBytes", "minLines", "minReduction", "maxReduction"}
    BY DEF Loaded, Setup
<1>3. CASE ~Flagged
    <2>1. c = Setup
        BY <1>1, <1>3 DEF WithFlag, Flagged
    <2> QED BY <1>1, <1>3, <2>1
<1>4. CASE Flagged
    <2>1. c = [Setup EXCEPT !.loads = Setup.loads /\ flag \in Modes,
                            !.mode = IF flag \in Modes THEN flag ELSE Setup.mode]
        BY <1>1, <1>4 DEF WithFlag, Flagged
    <2>2. /\ c.loads = (Setup.loads /\ flag \in Modes)
          /\ c.mode = IF flag \in Modes THEN flag ELSE Setup.mode
        BY <1>2, <2>1
    <2>3. /\ c.bash = Setup.bash /\ c.enabled = Setup.enabled /\ c.own = Setup.own
          /\ c.cache = Setup.cache /\ c.metrics = Setup.metrics
        BY <1>2, <2>1
    <2>4. (c.loads => Loads(files)) /\ (c.loads => c.mode = flag)
        BY <1>1, <2>2
    <2> QED BY <1>4, <2>3, <2>4
<1> QED BY <1>3, <1>4

(* The entry of the invocation's family.                                   *)
Configured == Merged(files)
FamilyPath == <<"compressors", Key(q.family)>>

HasEntry ==
    ~IsNil(Configured, "compressors") /\ FamilyPath \in DOMAIN Configured \cup DOMAIN Default

FamilyField(l, zero) ==
    IF ~HasEntry THEN "" ELSE EntryField(Configured, InCompressors(Key(q.family), l), zero)

LEMMA LoadedIs ==
    ASSUME Loads(files)
    PROVE  /\ Setup.bash = ( /\ ~IsNil(Configured, "tools")
                            /\ EntryField(Configured, InTools("Bash"), "false") = "true")
           /\ Setup.mode = Field(Configured, ModePath)
           /\ Setup.enabled = (FamilyField("enabled", "false") # "false")
           /\ Setup.own = IF FamilyField("mode", "") = "" THEN "inherit" ELSE FamilyField("mode", "")
           /\ Setup.cache = (Field(Configured, Section("cache", "enabled")) = "true")
           /\ Setup.metrics = (Field(Configured, Section("metrics", "enabled")) = "true")
    BY DEF Setup, Loaded, FamilyField, HasEntry, FamilyPath, Configured

(* Whoever acts has loaded the files.                                      *)
LEMMA ActedLoads ==
    ASSUME SwitchInv, Known, Acted \/ result.reason # "unchanged"
    PROVE  c.loads /\ Loads(files) /\ ~Declines(q, c)
<1>1. ~Declines(q, c)
    BY DEF SwitchInv
<1>2. c.loads
    BY <1>1 DEF Declines
<1> QED BY <1>1, <1>2, FlagIs

-----------------------------------------------------------------------------
(* What is off, and for whom.                                              *)
LEMMA ModeIsRead ==
    ASSUME FilesAreDocuments, Word(ModePath) = "off"
    PROVE  Field(Configured, ModePath) = "off"
<1>1. ModePath \in Path /\ Len(ModePath) = 1
    <2>1. Setting(ModePath)
        BY ModeIsSetting
    <2> QED BY <2>1 DEF Setting, ModePath
<1>2. ModePath \in DOMAIN Merged(files)
    <2>1. CASE Sets(files.project, ModePath)
        BY <2>1, Layers, LayerIs
    <2>2. CASE ~Sets(files.project, ModePath)
        <3>1. Sets(files.global, ModePath)
            BY <2>2 DEF Word, unset
        <3>2. ModePath \in DOMAIN Below
            BY <3>1, Layers, LayerIs
        <3>3. SUFFICES ASSUME ModePath \notin DOMAIN Merged(files) PROVE FALSE
            OBVIOUS
        <3>4. \E n \in 1..Len(ModePath) - 1 : TRUE
            BY <3>2, <3>3, Layers, LayersAreDocuments, LayerLoses DEF FilesAreDocuments
        <3> QED BY <1>1, <3>4
    <2> QED BY <2>1, <2>2
<1>3. Sets(files.project, ModePath) \/ Sets(files.global, ModePath)
    BY DEF Word, unset
<1>4. Merged(files)[ModePath] = "off"
    BY <1>2, <1>3, Origin
<1> QED BY <1>2, <1>4 DEF Field, Given, Configured

LEMMA FamilyFieldIs ==
    ASSUME TypeOK, FilesAreDocuments, Loads(files), NEW l \in Keys, NEW zero,
           NEW w, Heard(Named(l), w), w \notin {unset, "null"}
    PROVE  FamilyField(l, zero) = w
<1>. DEFINE k == Key(q.family)  p == <<"compressors", k, l>>
<1>1. Named(l) = p /\ k \in Keys /\ "compressors" \in Maps
    BY NamedIs, ConfigurationAssumption DEF Maps
<1>2. Setting(p)
    BY <1>1, EntryIsSetting
<1>. HIDE DEF k
<1>3. /\ ~IsNil(Configured, "compressors") /\ <<"compressors", k>> \in DOMAIN Configured
      /\ EntryField(Configured, p, zero) = w
    BY <1>1, <1>2, LoadedEntry DEF Configured
<1> QED BY <1>3 DEF FamilyField, HasEntry, FamilyPath, InCompressors, k

LEMMA SectionFieldIs ==
    ASSUME FilesAreDocuments, Loads(files), NEW s \in {"cache", "metrics"},
           Heard(Section(s, "enabled"), "false")
    PROVE  Field(Configured, Section(s, "enabled")) = "false"
<1>1. s \in Sections /\ "enabled" \in Keys
    BY ConfigurationAssumption DEF Sections, EntryFlags
<1> QED BY <1>1, SectionIsSetting, LoadedField DEF Configured, unset

LEMMA Obeys ==
    ASSUME InvocationInv, SwitchInv, Known
    PROVE  SwitchesAreObeyed
<1>. TypeOK /\ FilesAreDocuments
    BY DEF InvocationInv, Known
<1>1. ~Inert => Acted
    BY DEF Inert, Acted
<1>2. Replaced \/ entry # {} => Acted /\ LetThrough /\ c.cache
    BY DEF Acted, InvocationInv, SwitchInv
<1>3. Acted => Loads(files) /\ c.loads /\ ~Declines(q, c)
    BY ActedLoads
<1>4. ASSUME q.via \in Hosts, Heard(InTools("Bash"), "false"), Acted PROVE FALSE
    <2>1. "tools" \in Maps /\ "Bash" \in Keys /\ "enabled" \in Keys
        BY ConfigurationAssumption DEF Maps, EntryFlags
    <2>2. Setting(<<"tools", "Bash", "enabled">>)
        BY <2>1, EntryIsSetting
    <2>3. EntryField(Configured, InTools("Bash"), "false") = "false"
        BY <1>3, <1>4, <2>1, <2>2, LoadedEntry DEF InTools, unset, Configured
    <2>4. ~c.bash
        BY <1>3, <1>4, <2>3, FlagIs, LoadedIs
    <2> QED BY <1>3, <1>4, <2>4 DEF Declines
<1>5. ASSUME ModeWord = "off", Replaced \/ entry # {} PROVE FALSE
    <2>1. CASE Flagged
        BY <1>2, <1>3, <1>5, <2>1, FlagIs DEF ModeWord, Flagged, LetThrough
    <2>2. CASE ~Flagged
        BY <1>2, <1>3, <1>5, <2>2, FlagIs, LoadedIs, ModeIsRead DEF ModeWord, Flagged, LetThrough
    <2> QED BY <2>1, <2>2
<1>6. ASSUME Heard(Named("enabled"), "false"), Replaced \/ entry # {} PROVE FALSE
    <2>1. "enabled" \in Keys
        BY ConfigurationAssumption DEF EntryFlags
    <2>2. FamilyField("enabled", "false") = "false"
        BY <1>2, <1>3, <1>6, <2>1, FamilyFieldIs DEF unset
    <2> QED BY <1>2, <1>3, <1>6, <2>2, FlagIs, LoadedIs DEF LetThrough
<1>7. ASSUME Heard(Named("mode"), "off"), q.family # "terraform", Replaced \/ entry # {} PROVE FALSE
    <2>1. "mode" \in Keys
        BY ConfigurationAssumption
    <2>2. FamilyField("mode", "") = "off"
        BY <1>2, <1>3, <1>7, <2>1, FamilyFieldIs DEF unset
    <2>3. c.own = "off"
        BY <1>2, <1>3, <1>7, <2>2, FlagIs, LoadedIs
    <2> QED BY <1>2, <1>7, <2>3 DEF LetThrough, FamilyMode
<1>8. ASSUME Heard(Section("cache", "enabled"), "false"), Replaced \/ entry # {} PROVE FALSE
    <2>1. Field(Configured, Section("cache", "enabled")) = "false"
        BY <1>2, <1>3, <1>8, SectionFieldIs
    <2> QED BY <1>2, <1>3, <1>8, <2>1, FlagIs, LoadedIs
<1>9. ASSUME Heard(Section("metrics", "enabled"), "false"), record # NoRecord PROVE FALSE
    <2>1. Acted /\ c.metrics
        BY <1>9 DEF Acted, SwitchInv
    <2>2. Field(Configured, Section("metrics", "enabled")) = "false"
        BY <1>3, <1>9, <2>1, SectionFieldIs
    <2> QED BY <1>3, <2>1, <2>2, FlagIs, LoadedIs
<1>10. ASSUME broken \in {files.global, files.project}, Acted PROVE FALSE
    BY <1>3, <1>10 DEF Loads, broken
<1> QED BY <1>1, <1>4, <1>5, <1>6, <1>7, <1>8, <1>9, <1>10 DEF SwitchesAreObeyed

-----------------------------------------------------------------------------
(* And what is not.                                                        *)
LEMMA ModeSaid ==
    ASSUME FilesAreDocuments, Loads(files), Field(Configured, ModePath) = "off"
    PROVE  Word(ModePath) = "off"
<1>1. Given(Configured, ModePath)
    BY ConfigurationAssumption DEF Field
<1>2. ModePath \in DOMAIN Merged(files) /\ Merged(files)[ModePath] = "off"
    BY <1>1 DEF Field, Given, Configured
<1> QED BY <1>2, Origin, ConfigurationAssumption

LEMMA CacheSaid ==
    ASSUME FilesAreDocuments, Loads(files), Field(Configured, Section("cache", "enabled")) # "true"
    PROVE  Word(Section("cache", "enabled")) = "false"
<1>. DEFINE p == Section("cache", "enabled")
<1>1. p \in DOMAIN Merged(files) /\ Merged(files)[p] # "null" /\ Merged(files)[p] # "true"
    BY ConfigurationAssumption DEF Field, Given, Configured
<1>2. Merged(files)[p] = Word(p)
    BY <1>1, Origin, ConfigurationAssumption
<1>3. Len(p) = 2 /\ p[1] = "cache" /\ p[2] = "enabled"
    BY DEF Section
<1>4. /\ \A s \in Sections : p # <<s>>
      /\ p[1] \notin Maps /\ p \notin {ModePath, RulesPath, KeptFor} /\ p \notin Numbers
    BY <1>3 DEF Maps, ModePath, RulesPath, Numbers, MinBytes, MinLines, MinReduction, MaxReduction,
                MaxInput, MaxSize, MaxOutput, PerToken, Version, KeptFor, Section
<1>5. Decodes(Merged(files))
    BY DEF Loads
<1>. HIDE DEF p
<1>6. Merged(files)[p] \in {"true", "false", "null"}
    BY <1>1, <1>3, <1>4, <1>5 DEF Decodes
<1> QED BY <1>1, <1>2, <1>6 DEF p

LEMMA EnabledSaid ==
    ASSUME TypeOK, FilesAreDocuments, Loads(files), Unbroken(Named("enabled")),
           FamilyField("enabled", "false") = "false"
    PROVE  Word(Named("enabled")) = "false"
<1>. DEFINE k == Key(q.family)  p == <<"compressors", k, "enabled">>
<1>1. Named("enabled") = p /\ k \in {"generic", "node_test", "terraform"}
    BY NamedIs
<1>2. "compressors" \in Keys /\ k \in Keys /\ "enabled" \in Keys
    BY <1>1, ConfigurationAssumption DEF Sections, Maps, EntryFlags
<1>3. /\ Len(p) = 3 /\ p[1] = "compressors" /\ p[3] = "enabled"
      /\ SubSeq(p, 1, 2) = <<"compressors", k>> /\ 2 \in 1..Len(p) - 1 /\ 3 \in 1..Len(p)
      /\ p \in Seq(Keys) /\ SubSeq(p, 1, 3) = p
    <2>1. p \in Seq(Keys) /\ Len(p) = 3 /\ p[1] = "compressors" /\ p[3] = "enabled"
        BY <1>2, TupleIs
    <2>2. SubSeq(p, 1, 2) = <<"compressors", k>>
        BY <1>2, TuplePrefixes
    <2>3. SubSeq(p, 1, 3) = p
        <3>. HIDE DEF p
        <3> QED BY <2>1
    <2> QED BY <2>1, <2>2, <2>3
<1>4. p \in DOMAIN Default /\ Default[p] = "true"
    BY <1>1, <1>3, ConfigurationAssumption DEF InCompressors
<1>5. EntryField(Configured, p, "false") = "false"
    BY DEF FamilyField, HasEntry, InCompressors
<1>. HIDE DEF p, k
<1>6. p \in DOMAIN Merged(files)
    BY <1>1, <1>4, DefaultIsKept
<1>7. Given(Configured, SubSeq(p, 1, 2))
    BY <1>3, <1>6, LayersAreDocuments DEF Document, Given, Configured
<1>8. Merged(files)[p] # "null"
    <2>1. Sets(files.project, p) => files.project.doc[p] # "null"
        BY <1>1, <1>3 DEF Unbroken, NoNulls, Mappings, Sets
    <2>2. Sets(files.global, p) => files.global.doc[p] # "null"
        BY <1>1, <1>3 DEF Unbroken, NoNulls, Mappings, Sets
    <2> QED BY <1>4, <1>6, <2>1, <2>2, Origin DEF Word
<1>9. Merged(files)[p] = "false"
    BY <1>5, <1>6, <1>7, <1>8 DEF EntryField, Given, Configured
<1> QED BY <1>1, <1>4, <1>6, <1>9, Origin

LEMMA OwnModeSaid ==
    ASSUME TypeOK, FilesAreDocuments, Loads(files), FamilyField("mode", "") = "off"
    PROVE  Word(Named("mode")) = "off"
<1>. DEFINE k == Key(q.family)  p == <<"compressors", k, "mode">>
<1>1. Named("mode") = p /\ k \in {"generic", "node_test", "terraform"}
    BY NamedIs
<1>2. Len(p) = 3 /\ p[1] = "compressors" /\ p[3] = "mode"
    OBVIOUS
<1>3. p \notin DOMAIN Default
    BY <1>2, ConfigurationAssumption
<1>4. EntryField(Configured, p, "") = "off"
    BY DEF FamilyField, HasEntry, InCompressors
<1>. HIDE DEF p
<1>5. p \in DOMAIN Merged(files) /\ Merged(files)[p] = "off"
    BY <1>3, <1>4 DEF EntryField, Given, Configured
<1> QED BY <1>1, <1>3, <1>5, Origin

LEMMA NothingElse ==
    ASSUME InvocationInv, SwitchInv, Known
    PROVE  NothingElseIsOff
<1>. TypeOK /\ FilesAreDocuments
    BY DEF InvocationInv, Known
<1>1. ASSUME result.reason # "unchanged" PROVE Loads(files) /\ c.loads
    BY <1>1, ActedLoads
<1>2. ASSUME result.reason = "disabled" PROVE ModeWord = "off"
    <2>1. c.mode = "off"
        BY <1>2 DEF SwitchInv
    <2>2. CASE Flagged
        BY <1>1, <1>2, <2>1, <2>2, FlagIs DEF ModeWord, Flagged
    <2>3. CASE ~Flagged
        BY <1>1, <1>2, <2>1, <2>3, FlagIs, LoadedIs, ModeSaid DEF ModeWord, Flagged
    <2> QED BY <2>2, <2>3
<1>3. ASSUME result.reason = "compressor disabled", Unbroken(Named("enabled"))
      PROVE  Word(Named("enabled")) = "false"
    <2>1. ~c.enabled
        BY <1>3 DEF SwitchInv
    <2>2. FamilyField("enabled", "false") = "false"
        BY <1>1, <1>3, <2>1, FlagIs, LoadedIs
    <2> QED BY <1>1, <1>3, <2>2, EnabledSaid
<1>4. ASSUME result.reason = "compressor mode off" PROVE Word(Named("mode")) = "off"
    <2>1. c.mode # "off" /\ FamilyMode = "off"
        BY <1>4 DEF SwitchInv
    <2>2. c.own = "off"
        BY <2>1 DEF FamilyMode
    <2>3. FamilyField("mode", "") = "off"
        BY <1>1, <1>4, <2>2, FlagIs, LoadedIs
    <2> QED BY <1>1, <1>4, <2>3, OwnModeSaid
<1>5. ASSUME result.reason = "cache disabled; preserving original"
      PROVE  Word(Section("cache", "enabled")) = "false"
    <2>1. ~c.cache
        BY <1>5 DEF SwitchInv
    <2>2. Field(Configured, Section("cache", "enabled")) # "true"
        BY <1>1, <1>5, <2>1, FlagIs, LoadedIs
    <2> QED BY <1>1, <1>5, <2>2, CacheSaid
<1> QED BY <1>2, <1>3, <1>4, <1>5 DEF NothingElseIsOff

-----------------------------------------------------------------------------
(* The files stay what they are while the invocation runs.                 *)
LEMMA ConfiguredStart == CInit => Init /\ Known /\ SwitchInv
<1>. SUFFICES ASSUME CInit PROVE Init /\ Known /\ SwitchInv
    OBVIOUS
<1>1. PICK s \in Scenarios : files \in [global : s.global, project : s.project]
    BY DEF CInit
<1>2. files.global \in s.global /\ files.project \in s.project
    BY <1>1
<1>3. FilesAreDocuments
    BY <1>2, ScenariosAssumption DEF FilesAreDocuments
<1>4. Init /\ c = WithFlag(Loaded(files, q.family))
    BY DEF CInit
<1>5. /\ step = "start" /\ entry = {} /\ record = NoRecord /\ host = Before(q)
      /\ ~result.changed /\ result.reason = "unchanged"
    BY <1>4 DEF Init, Native
<1>6. SwitchInv
    BY <1>5 DEF SwitchInv, Acted, Replaced, Before
<1> QED BY <1>3, <1>4, <1>6 DEF Known

LEMMA ConfiguredStep ==
    ASSUME InvocationInv, SwitchInv, Known, [CNext]_configuredVars
    PROVE  SwitchInv' /\ Known'
<1>1. [Next]_vars /\ UNCHANGED <<files, flag>>
    BY DEF CNext, configuredVars
<1>2. UNCHANGED <<q, c>>
    BY <1>1 DEF Next, vars, Start, Decline, Refuse, Stop, Pass, Panic, Put, PutFails, Build, Record,
                Deliver, Copy, WriteFails, Kill, Reduce
<1>3. Known'
    BY <1>1, <1>2 DEF Known, FilesAreDocuments, WithFlag
<1> QED BY <1>1, <1>3, SwitchStep

THEOREM ConfiguredInvariant == CSpec => [](InvocationInv /\ SwitchInv /\ Known)
<1>1. CSpec => Spec
    <2>1. CInit => Init
        BY ConfiguredStart
    <2>2. [CNext]_configuredVars => [Next]_vars
        BY DEF CNext, configuredVars
    <2> QED BY <2>1, <2>2, PTL DEF CSpec, Spec
<1>2. CSpec => []InvocationInv
    BY <1>1, InvocationInvariant, PTL
<1>3. CInit => SwitchInv /\ Known
    BY ConfiguredStart
<1>4. InvocationInv /\ SwitchInv /\ Known /\ [CNext]_configuredVars => (SwitchInv /\ Known)'
    BY ConfiguredStep
<1> QED BY <1>2, <1>3, <1>4, PTL DEF CSpec

(* Whatever says "off" last is obeyed, for every two files.                *)
THEOREM SwitchesObeyed == CSpec => []SwitchesAreObeyed
<1>1. InvocationInv /\ SwitchInv /\ Known => SwitchesAreObeyed
    BY Obeys
<1> QED BY <1>1, ConfiguredInvariant, PTL

(* And a switch that stops an invocation was set by the last word on it.   *)
THEOREM NothingElseOff == CSpec => []NothingElseIsOff
<1>1. InvocationInv /\ SwitchInv /\ Known => NothingElseIsOff
    BY NothingElse
<1> QED BY <1>1, ConfiguredInvariant, PTL
=============================================================================
