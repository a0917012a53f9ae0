----------------------------- MODULE ReplaceFile -----------------------------
(***************************************************************************)
(* The files of the cache on Windows (rename_windows.go, read_windows.go): *)
(* a rename onto a file that somebody has open is refused, and so is an    *)
(* open while somebody else holds the file for himself.  Both are tried    *)
(* again, with growing delays, until a deadline.                           *)
(*                                                                         *)
(* Time is what each call has left until its deadline and until the end of *)
(* its sleep; a tick takes one off both.  It may pass between any two      *)
(* steps, so a process may be scheduled late.                              *)
(***************************************************************************)
EXTENDS Naturals, FiniteSetsExt

CONSTANTS
    Writers,   \* calls of Atomic: each replaces the file with its own content
    Readers,   \* calls of openCacheFile, for Get
    Strangers, \* other programs that open the file
    Deadline,  \* 2 s
    FirstDelay, MaxDelay, \* 5 ms, 50 ms
    old,       \* what the file holds at first
    missing,
    Faults     \* which of "io" and "crash" may happen

ASSUME ReplaceFileAssumption ==
    /\ Deadline \in Nat \ {0} /\ FirstDelay \in Nat \ {0} /\ MaxDelay \in Nat
    /\ FirstDelay <= MaxDelay
    /\ Writers \cap Readers = {} /\ old \notin Writers /\ missing \notin Writers \cup {old}

Calls == Writers \cup Readers

VARIABLES
    file,   \* the content of the destination
    pc, left, delay, wait, \* of each call: time.Until(deadline), the next delay, the sleep
    tries,  \* history: how often the operation was tried
    handle, \* handle[s]: how a stranger has the file open
    snap,   \* what each reader's handle shows
    seen    \* history: what the file has held since each reader's call began

clocks == <<left, delay, wait, tries>>
vars   == <<file, pc, clocks, handle, snap, seen>>

Goto(p, label) == pc' = [pc EXCEPT ![p] = label]

Init ==
    /\ file = old
    /\ pc = [p \in Calls |-> "idle"] /\ left = [p \in Calls |-> 0]
    /\ delay = [p \in Calls |-> 0] /\ wait = [p \in Calls |-> 0] /\ tries = [p \in Calls |-> 0]
    /\ handle = [s \in Strangers |-> "none"]
    /\ snap = [r \in Readers |-> missing] /\ seen = [r \in Readers |-> {}]

(* A stranger shares nothing ("alone") or everything but renames.          *)
HeldAlone == \E s \in Strangers : handle[s] = "alone"
Held      == \E s \in Strangers : handle[s] # "none"
BeingRead == \E r \in Readers : pc[r] = "reading"

(* How many tries the growing delays leave room for: 44 with the program's *)
(* numbers.  No more than one too many is counted.                         *)
Delay[n \in Nat] == IF n = 0 THEN FirstDelay ELSE Min({2 * Delay[n - 1], MaxDelay})

Slept[n \in Nat] == IF n = 0 THEN 0 ELSE Slept[n - 1] + Delay[n - 1]

MostTries == 1 + Min({n \in 0..Deadline : Slept[n] >= Deadline})

-----------------------------------------------------------------------------
(* retrySharing.                                                           *)
Begin(p) ==
    /\ pc[p] \in {"idle", "crashed"} /\ Goto(p, "try")
    /\ left'  = [left EXCEPT ![p] = Deadline]
    /\ delay' = [delay EXCEPT ![p] = FirstDelay]
    /\ tries' = [tries EXCEPT ![p] = 0]
    /\ seen'  = IF p \in Readers THEN [seen EXCEPT ![p] = {file}] ELSE seen
    /\ UNCHANGED <<file, wait, handle, snap>>

Tried(p) ==
    /\ pc[p] = "try"
    /\ tries' = [tries EXCEPT ![p] = Min({@ + 1, MostTries + 1})]
    /\ UNCHANGED <<left, delay, wait, handle>>

(* A sharing violation, or access denied.                                  *)
Blocked(p) ==
    IF p \in Readers THEN HeldAlone ELSE Held \/ BeingRead

(* Mutant: the destination removed to make room. *)
RefusedRemoving(p) ==
    /\ Tried(p) /\ Blocked(p) /\ Goto(p, "check")
    /\ file' = IF p \in Writers /\ ~Held THEN missing ELSE file
    /\ UNCHANGED <<snap, seen>>

Refused(p) == Tried(p) /\ Blocked(p) /\ Goto(p, "check") /\ UNCHANGED <<file, snap, seen>>

(* os.Rename.  A reader's handle allows it, but not for certain.           *)
Rename(w) ==
    /\ Tried(w) /\ ~Held
    /\ file' = w /\ seen' = [r \in Readers |-> seen[r] \cup {w}]
    /\ Goto(w, "ok")
    /\ UNCHANGED snap

(* CreateFile, with a handle that keeps what it has opened.                *)
Open(r) ==
    /\ Tried(r) /\ ~HeldAlone
    /\ snap' = [snap EXCEPT ![r] = file]
    /\ Goto(r, IF file = missing THEN "failed" ELSE "reading")
    /\ UNCHANGED <<file, seen>>

(* Any other error is returned at once.                                    *)
Fail(p) ==
    /\ "io" \in Faults
    /\ Tried(p) /\ Goto(p, "failed")
    /\ UNCHANGED <<file, snap, seen>>

(* Mutant: no next try unless there is time for a whole delay. *)
CheckEarly(p) ==
    /\ pc[p] = "check"
    /\ IF left[p] < delay[p]
         THEN Goto(p, "late") /\ UNCHANGED <<wait, delay>>
         ELSE /\ wait'  = [wait EXCEPT ![p] = delay[p]]
              /\ delay' = [delay EXCEPT ![p] = Min({2 * delay[p], MaxDelay})]
              /\ Goto(p, "sleep")
    /\ UNCHANGED <<file, left, tries, handle, snap, seen>>

(* Mutant: the delay is not doubled. *)
CheckSteadily(p) ==
    /\ pc[p] = "check"
    /\ IF left[p] = 0
         THEN Goto(p, "late") /\ UNCHANGED wait
         ELSE Goto(p, "sleep") /\ wait' = [wait EXCEPT ![p] = Min({delay[p], left[p]})]
    /\ UNCHANGED <<file, left, delay, tries, handle, snap, seen>>

(* Mutant: no deadline. *)
CheckForever(p) ==
    /\ pc[p] = "check" /\ Goto(p, "sleep")
    /\ wait'  = [wait EXCEPT ![p] = delay[p]]
    /\ delay' = [delay EXCEPT ![p] = Min({2 * delay[p], MaxDelay})]
    /\ UNCHANGED <<file, left, tries, handle, snap, seen>>

Check(p) ==
    /\ pc[p] = "check"
    /\ IF left[p] = 0
         THEN Goto(p, "late") /\ UNCHANGED <<wait, delay>>
         ELSE /\ wait'  = [wait EXCEPT ![p] = Min({delay[p], left[p]})]
              /\ delay' = [delay EXCEPT ![p] = Min({2 * delay[p], MaxDelay})]
              /\ Goto(p, "sleep")
    /\ UNCHANGED <<file, left, tries, handle, snap, seen>>

(* Mutant: the deadline looked at again after the sleep. *)
WakeAndCheck(p) ==
    /\ pc[p] = "sleep" /\ wait[p] = 0
    /\ Goto(p, IF left[p] = 0 THEN "late" ELSE "try")
    /\ UNCHANGED <<file, clocks, handle, snap, seen>>

Wake(p) ==
    /\ pc[p] = "sleep" /\ wait[p] = 0
    /\ Goto(p, "try")
    /\ UNCHANGED <<file, clocks, handle, snap, seen>>

(* The reader reads all there is and closes its handle.                    *)
Close(r) ==
    /\ pc[r] = "reading" /\ Goto(r, "ok")
    /\ UNCHANGED <<file, clocks, handle, snap, seen>>

Forget(p, label) ==
    /\ left' = [left EXCEPT ![p] = 0] /\ wait' = [wait EXCEPT ![p] = 0]
    /\ delay' = [delay EXCEPT ![p] = 0] /\ tries' = [tries EXCEPT ![p] = 0]
    /\ snap' = IF p \in Readers THEN [snap EXCEPT ![p] = missing] ELSE snap
    /\ seen' = IF p \in Readers THEN [seen EXCEPT ![p] = {}] ELSE seen
    /\ Goto(p, label)
    /\ UNCHANGED <<file, handle>>

Return(p) == pc[p] \in {"ok", "failed", "late"} /\ Forget(p, "idle")

(* A process that ends loses its handle with it.                           *)
Crash(p) ==
    /\ "crash" \in Faults
    /\ pc[p] \in {"try", "check", "sleep", "reading"} /\ Forget(p, "crashed")

Hold(s, how) ==
    /\ handle[s] = "none" /\ ~HeldAlone
    /\ how = "alone" => ~Held /\ ~BeingRead
    /\ handle' = [handle EXCEPT ![s] = how]
    /\ UNCHANGED <<file, pc, clocks, snap, seen>>

Release(s) ==
    /\ handle[s] # "none" /\ handle' = [handle EXCEPT ![s] = "none"]
    /\ UNCHANGED <<file, pc, clocks, snap, seen>>

Minus1(n) == IF n = 0 THEN 0 ELSE n - 1

Tick ==
    /\ left' = [p \in Calls |-> Minus1(left[p])] /\ wait' = [p \in Calls |-> Minus1(wait[p])]
    /\ UNCHANGED <<file, pc, delay, tries, handle, snap, seen>>

-----------------------------------------------------------------------------
Step(p) ==
    \/ Refused(p) \/ Check(p) \/ Wake(p) \/ Fail(p) \/ Return(p)
    \/ p \in Writers /\ Rename(p)
    \/ p \in Readers /\ (Open(p) \/ Close(p))

Next ==
    \/ \E p \in Calls : Begin(p) \/ Step(p) \/ Crash(p)
    \/ \E s \in Strangers : Release(s) \/ \E how \in {"alone", "no renames"} : Hold(s, how)
    \/ Tick

(* Time passes and every process is scheduled again; nobody has to close   *)
(* the file.                                                               *)
Spec == Init /\ [][Next]_vars /\ WF_vars(Tick) /\ \A p \in Calls : WF_vars(Step(p))

-----------------------------------------------------------------------------
Trying(p) == pc[p] \in {"try", "check", "sleep"}

(* The file is there at every moment, and a reader gets, whole, something  *)
(* that it held during the call (rename_windows.go:10, "without removing   *)
(* the destination, so a failed write retains the cache").                 *)
AlwaysReadable ==
    /\ file \in Writers \cup {old}
    /\ \A r \in Readers : pc[r] \in {"reading", "ok"} => snap[r] \in seen[r]

(* No sleep goes beyond the deadline, and a call that gives up for a       *)
(* sharing violation does so at the deadline, not before.                  *)
WaitsToTheDeadline ==
    \A p \in Calls :
        /\ pc[p] = "sleep" => wait[p] <= left[p]
        /\ pc[p] = "late" => left[p] = 0

(* The growing delays bound the tries.                                     *)
FewTries == \A p \in Calls : tries[p] <= MostTries

(* Every call returns, whatever holds the file and for however long.       *)
EveryCallReturns == \A p \in Calls : pc[p] = "try" ~> ~Trying(p)

(* A write that is waiting succeeds once everybody has let go of the file, *)
(* even if that is at the last moment and the process is scheduled late;   *)
(* only another kind of error or the end of the process prevents it.       *)
ReplacesOnceFree ==
    \A w \in Writers :
        pc[w] = "sleep" ~> (pc[w] \in {"ok", "failed", "crashed"} \/ Held \/ BeingRead)
=============================================================================
