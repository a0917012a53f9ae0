----------------------------- MODULE CacheStore -----------------------------
(***************************************************************************)
(* The content-addressed store of originals, internal/cache/cache.go, as   *)
(* the processes that share one directory use it: invocations of the       *)
(* engine (Put, then Prune keeping what was stored, then the marker),      *)
(* `tokenslim cache prune`, `tokenslim cache clear`, and readers (`cache   *)
(* inspect`, the MCP server's Get).  Nothing locks the directory: a step   *)
(* below is one system call that reads or changes a name in it.            *)
(*                                                                         *)
(* Atomic's temporary file is not visible under an entry's name, so        *)
(* writing it and renaming it is one step here.                            *)
(***************************************************************************)
EXTENDS Integers, FiniteSets, FiniteSetsExt

CONSTANTS
    Hooks, Pruners, Clearers, Readers, \* the processes, by what they run
    Originals,   \* the byte strings handed to Put
    Refs,        \* "ts_<sha256>" names; their order is ReadDir's order
    Ref,         \* Ref[b]: the name of original b
    Garbage,     \* contents no writer of the program produced
    NoFile,      \* a name with no file
    NoRef,       \* the empty `keep`, and a malformed reference
    Length,      \* len(b)
    Packed,      \* size of a .zst file
    MetaSize,    \* size of a .json file
    Limit,       \* Store.MaxBytes of each process, <= 0 when unlimited
    DefaultMax,  \* what Get reads at most when MaxBytes is not positive
    Retention,   \* the retention each process read from its configuration
    MaxTime,     \* bound on the clock
    Faults       \* which of "io", "crash" and "damage" may happen

Procs    == Hooks \cup Pruners \cup Clearers \cup Readers
Contents == Originals \cup {Garbage}
Files    == Contents \cup {NoFile}

ASSUME CacheAssumption ==
    /\ Pruners \cap (Hooks \cup Readers) = {} /\ Clearers \cap (Hooks \cup Readers) = {}
    /\ Hooks \cap Readers = {} /\ Pruners \cap Clearers = {}
    /\ Refs \subseteq Nat /\ NoRef \notin Refs
    /\ Garbage \notin Originals /\ NoFile \notin Contents
    /\ Ref \in [Originals -> Refs]
    /\ \A a, b \in Originals : Ref[a] = Ref[b] => a = b
    /\ Length \in [Contents -> Nat] /\ Packed \in [Contents -> Nat]
    /\ MetaSize \in Nat /\ DefaultMax \in Nat /\ MaxTime \in Nat
    /\ Limit \in [Procs -> Int] /\ Retention \in [Procs -> Nat]

VARIABLES
    zst,    \* contents of <ref>.zst
    meta,   \* <ref>.json: b stands for the record {ID: Ref(b), OriginalBytes: len(b)}
    mtime,  \* modification time of <ref>.zst
    now,    \* the clock
    pc,     \* where each process is
    ref,    \* the reference a process stores or asks for, and Prune's `keep`
    body,   \* the bytes it holds
    names,  \* directory entries a sweep or a clear has still to visit
    items,  \* what a sweep collected and has still to decide
    total,  \* a sweep's running total
    lost,   \* history: someone else took a file of this process's reference
    seen    \* history: what others did during this process's sweep or clear

files == <<zst, meta, mtime>>
sweep == <<names, items, total>>
vars  == <<files, now, pc, ref, body, sweep, lost, seen>>

-----------------------------------------------------------------------------
(* Directory entries are pairs <<ref, 0>> for .json and <<ref, 1>> for     *)
(* .zst, so that the order of the pairs is the order of the file names.    *)
Json(r) == <<r, 0>>
Zst(r)  == <<r, 1>>

Name  == Refs \X {0, 1}
Item  == [ref : Refs, size : Nat, created : Nat]
Event == {"wrote", "removed", "tick"}

First(x, S) ==
    \A y \in S : x[1] < y[1] \/ (x[1] = y[1] /\ x[2] <= y[2])

(* Mutant: the comparison of sort.Slice turned round. *)
NewestFirst(x, S) ==
    \A y \in S : \/ x.created > y.created
                 \/ x.created = y.created /\ x.ref <= y.ref

Oldest(x, S) ==
    \A y \in S : \/ x.created < y.created
                 \/ x.created = y.created /\ x.ref <= y.ref

Intact(r) == zst[r] \in Originals /\ Ref[zst[r]] = r /\ meta[r] = zst[r]
Held      == {r \in Refs : Intact(r)}

Size(r) == Packed[zst[r]] + IF meta[r] = NoFile THEN 0 ELSE MetaSize

ReadMax(p) == IF Limit[p] <= 0 THEN DefaultMax ELSE Limit[p]
Fits(p, b) == Limit[p] > 0 => Length[b] <= Limit[p] /\ Packed[b] <= Limit[p]

-----------------------------------------------------------------------------
(* What p's change means to the others: `Taken` tells those whose          *)
(* reference lost a file, `Stir` those that are sweeping or clearing.      *)
Visiting == {"sweep", "dropMeta", "pruned", "clear", "cleared"}

Taken(p, r) == [q \in Procs |-> lost[q] \/ (q # p /\ ref[q] = r)]
Stir(p, ev) == [q \in Procs |->
                  IF q # p /\ pc[q] \in Visiting THEN seen[q] \cup ev ELSE seen[q]]

Labels == {"idle", "putZst", "putMeta", "failOpen", "emitted", "list", "sweep",
           "dropMeta", "pruned", "aborted", "clear", "cleared", "clearErr",
           "open", "readMeta", "gotOk", "gotErr"}

Goto(p, label) == pc' = [pc EXCEPT ![p] = label]

Jump(p, label) == Goto(p, label) /\ UNCHANGED <<files, now, ref, body, sweep, lost, seen>>

RemoveZst(p, r) ==
    /\ zst'   = [zst EXCEPT ![r] = NoFile]
    /\ mtime' = [mtime EXCEPT ![r] = 0]
    /\ UNCHANGED meta
    /\ lost'  = Taken(p, r)
    /\ seen'  = Stir(p, {"removed"})

RemoveMeta(p, r) ==
    /\ meta'  = [meta EXCEPT ![r] = NoFile]
    /\ UNCHANGED <<zst, mtime>>
    /\ lost'  = Taken(p, r)
    /\ seen'  = Stir(p, {"removed"})

-----------------------------------------------------------------------------
Init ==
    /\ zst = [r \in Refs |-> NoFile] /\ meta = [r \in Refs |-> NoFile]
    /\ mtime = [r \in Refs |-> 0] /\ now = 0
    /\ pc = [p \in Procs |-> "idle"]
    /\ ref = [p \in Procs |-> NoRef] /\ body = [p \in Procs |-> NoFile]
    /\ names = [p \in Procs |-> {}] /\ items = [p \in Procs |-> {}]
    /\ total = [p \in Procs |-> 0]
    /\ lost = [p \in Procs |-> FALSE] /\ seen = [p \in Procs |-> {}]

-----------------------------------------------------------------------------
(* Engine.Process from the moment it has something to store.               *)
HookBegin(p, b) ==
    /\ pc[p] = "idle"
    /\ Goto(p, "putZst")
    /\ body' = [body EXCEPT ![p] = b]
    /\ ref'  = [ref EXCEPT ![p] = Ref[b]]
    /\ UNCHANGED <<files, now, sweep, lost, seen>>

PutZst(p) ==
    /\ pc[p] = "putZst"
    /\ Fits(p, body[p])
    /\ zst'   = [zst EXCEPT ![ref[p]] = body[p]]
    /\ mtime' = [mtime EXCEPT ![ref[p]] = now]
    /\ Goto(p, "putMeta")
    /\ lost'  = [lost EXCEPT ![p] = FALSE]
    /\ seen'  = Stir(p, {"wrote"})
    /\ UNCHANGED <<meta, now, ref, body, sweep>>

PutMeta(p) ==
    /\ pc[p] = "putMeta"
    /\ meta' = [meta EXCEPT ![ref[p]] = body[p]]
    /\ Goto(p, "list")
    /\ seen' = Stir(p, {"wrote"})
    /\ UNCHANGED <<zst, mtime, now, ref, body, sweep, lost>>

(* Put returns an error and the engine hands back the output unchanged.    *)
TooLarge(p) ==
    /\ pc[p] = "putZst" /\ ~Fits(p, body[p])
    /\ Jump(p, "failOpen")

PutFail(p) ==
    /\ "io" \in Faults
    /\ pc[p] \in {"putZst", "putMeta"}
    /\ Jump(p, "failOpen")

(* The sweep's error is ignored: a marker follows `pruned` and `aborted`.  *)
Emit(p) ==
    /\ pc[p] \in {"pruned", "aborted"}
    /\ Goto(p, "emitted")
    /\ seen' = [seen EXCEPT ![p] = {}]
    /\ UNCHANGED <<files, now, ref, body, sweep, lost>>

-----------------------------------------------------------------------------
(* Prune, entered with the hook's reference or with NoRef as `keep`.       *)
PruneBegin(p) ==
    /\ pc[p] = "idle"
    /\ Jump(p, "list")

PruneList(p) ==
    /\ pc[p] = "list"
    /\ names' = [names EXCEPT ![p] = {Zst(r) : r \in {r \in Refs : zst[r] # NoFile}}]
    /\ Goto(p, "sweep")
    /\ UNCHANGED <<files, now, ref, body, items, total, lost, seen>>

(* Info of the next name, then Stat of its .json; a name that has gone     *)
(* since the listing ends the sweep with an error.                         *)
PruneScan(p, x) ==
    /\ pc[p] = "sweep" /\ First(x, names[p])
    /\ names' = [names EXCEPT ![p] = @ \ {x}]
    /\ IF zst[x[1]] = NoFile
         THEN Goto(p, "aborted") /\ UNCHANGED <<items, total>>
         ELSE LET entry == [ref |-> x[1], size |-> Size(x[1]), created |-> mtime[x[1]]]
              IN  /\ items' = [items EXCEPT ![p] = @ \cup {entry}]
                  /\ total' = [total EXCEPT ![p] = @ + entry.size]
                  /\ UNCHANGED pc
    /\ UNCHANGED <<files, now, ref, body, lost, seen>>

(* Mutants: `keep` forgotten; the entry's own size not counted. *)
DoomedEvenIfKept(p, x) ==
    now - x.created > Retention[p] \/ (Limit[p] > 0 /\ total[p] > Limit[p])

DoomedOneTooLate(p, x) ==
    /\ x.ref # ref[p]
    /\ \/ now - x.created > Retention[p]
       \/ Limit[p] > 0 /\ total[p] - x.size > Limit[p]

Doomed(p, x) ==
    /\ x.ref # ref[p]
    /\ \/ now - x.created > Retention[p]
       \/ Limit[p] > 0 /\ total[p] > Limit[p]

Turn(p, x) == names[p] = {} /\ Oldest(x, items[p])

(* Mutant: an entry that stays is looked at again. *)
PruneKeepForever(p, x) ==
    pc[p] = "sweep" /\ Turn(p, x) /\ ~Doomed(p, x) /\ UNCHANGED vars

PruneKeep(p, x) ==
    /\ pc[p] = "sweep" /\ Turn(p, x) /\ ~Doomed(p, x)
    /\ items' = [items EXCEPT ![p] = @ \ {x}]
    /\ UNCHANGED <<files, now, pc, ref, body, names, total, lost, seen>>

PruneDropZst(p, x) ==
    /\ pc[p] = "sweep" /\ Turn(p, x) /\ Doomed(p, x)
    /\ RemoveZst(p, x.ref)
    /\ Goto(p, "dropMeta")
    /\ UNCHANGED <<now, ref, body, sweep>>

PruneDropMeta(p, x) ==
    /\ pc[p] = "dropMeta" /\ Turn(p, x)
    /\ RemoveMeta(p, x.ref)
    /\ items' = [items EXCEPT ![p] = @ \ {x}]
    /\ total' = [total EXCEPT ![p] = @ - x.size]
    /\ Goto(p, "sweep")
    /\ UNCHANGED <<now, ref, body, names>>

PruneFail(p) ==
    /\ "io" \in Faults
    /\ pc[p] \in {"list", "sweep", "dropMeta"}
    /\ Jump(p, "aborted")

PruneEnd(p) ==
    /\ pc[p] = "sweep" /\ names[p] = {} /\ items[p] = {}
    /\ Jump(p, "pruned")

-----------------------------------------------------------------------------
(* Clear: one Remove per listed name, and any error ends it.               *)
(* Mutant: the metadata suffix forgotten. *)
ClearOriginalsOnly(p) ==
    /\ pc[p] = "idle"
    /\ names' = [names EXCEPT ![p] = {Zst(r) : r \in {r \in Refs : zst[r] # NoFile}}]
    /\ Goto(p, "clear")
    /\ UNCHANGED <<files, now, ref, body, items, total, lost, seen>>

ClearBegin(p) ==
    /\ pc[p] = "idle"
    /\ names' = [names EXCEPT ![p] =
                   {Zst(r) : r \in {r \in Refs : zst[r] # NoFile}}
                     \cup {Json(r) : r \in {r \in Refs : meta[r] # NoFile}}]
    /\ Goto(p, "clear")
    /\ UNCHANGED <<files, now, ref, body, items, total, lost, seen>>

ClearRemove(p, x) ==
    /\ pc[p] = "clear" /\ First(x, names[p])
    /\ names' = [names EXCEPT ![p] = @ \ {x}]
    /\ \/ /\ x[2] = 0 /\ meta[x[1]] # NoFile
          /\ RemoveMeta(p, x[1]) /\ UNCHANGED pc
       \/ /\ x[2] = 1 /\ zst[x[1]] # NoFile
          /\ RemoveZst(p, x[1]) /\ UNCHANGED pc
       \/ /\ (IF x[2] = 0 THEN meta[x[1]] ELSE zst[x[1]]) = NoFile
          /\ Goto(p, "clearErr") /\ UNCHANGED <<files, lost, seen>>
    /\ UNCHANGED <<now, ref, body, items, total>>

ClearFail(p) ==
    /\ "io" \in Faults
    /\ pc[p] = "clear"
    /\ Jump(p, "clearErr")

ClearEnd(p) ==
    /\ pc[p] = "clear" /\ names[p] = {}
    /\ Jump(p, "cleared")

-----------------------------------------------------------------------------
(* Get: the .zst is read through one open handle, the .json afterwards.    *)
GetBegin(p, r) ==
    /\ pc[p] = "idle"
    /\ ref'  = [ref EXCEPT ![p] = r]
    /\ lost' = [lost EXCEPT ![p] = r \notin Held]
    /\ Goto(p, IF r = NoRef THEN "gotErr" ELSE "open")
    /\ UNCHANGED <<files, now, body, sweep, seen>>

(* Mutants: the decoder's error ignored; the hash not compared; the limit  *)
(* taken for the first length that is too long. *)
AnyContents(p, b)  == b # NoFile /\ Length[b] <= ReadMax(p)
AnyOriginal(p, b)  == b \in Originals /\ Length[b] <= ReadMax(p)
ShorterOnly(p, b)  == b \in Originals /\ Length[b] < ReadMax(p) /\ Ref[b] = ref[p]

Acceptable(p, b) == b \in Originals /\ Length[b] <= ReadMax(p) /\ Ref[b] = ref[p]

GetOpen(p) ==
    /\ pc[p] = "open"
    /\ IF Acceptable(p, zst[ref[p]])
         THEN body' = [body EXCEPT ![p] = zst[ref[p]]] /\ Goto(p, "readMeta")
         ELSE Goto(p, "gotErr") /\ UNCHANGED body
    /\ UNCHANGED <<files, now, ref, sweep, lost, seen>>

GetMeta(p) ==
    /\ pc[p] = "readMeta"
    /\ Jump(p, IF meta[ref[p]] = body[p] THEN "gotOk" ELSE "gotErr")

GetFail(p) ==
    /\ "io" \in Faults
    /\ pc[p] \in {"open", "readMeta"}
    /\ Jump(p, "gotErr")

-----------------------------------------------------------------------------
Forget(p) ==
    /\ Goto(p, "idle")
    /\ ref' = [ref EXCEPT ![p] = NoRef] /\ body' = [body EXCEPT ![p] = NoFile]
    /\ names' = [names EXCEPT ![p] = {}] /\ items' = [items EXCEPT ![p] = {}]
    /\ total' = [total EXCEPT ![p] = 0]
    /\ lost' = [lost EXCEPT ![p] = FALSE] /\ seen' = [seen EXCEPT ![p] = {}]
    /\ UNCHANGED <<files, now>>

Finished(p) ==
    \/ pc[p] \in {"emitted", "failOpen", "cleared", "clearErr", "gotOk", "gotErr"}
    \/ p \in Pruners /\ pc[p] \in {"pruned", "aborted"}

Return(p) == Finished(p) /\ Forget(p)

(* The host kills a hook at its timeout; a command is interrupted.         *)
Crash(p) ==
    /\ "crash" \in Faults
    /\ pc[p] # "idle" /\ ~Finished(p)
    /\ Forget(p)

Tick ==
    /\ now < MaxTime
    /\ now'  = now + 1
    /\ seen' = [q \in Procs |-> IF pc[q] \in Visiting THEN seen[q] \cup {"tick"} ELSE seen[q]]
    /\ UNCHANGED <<files, pc, ref, body, sweep, lost>>

(* A file of the cache is edited, exchanged or removed by something else.  *)
Damage(r) ==
    /\ "damage" \in Faults
    /\ \/ /\ zst' = [zst EXCEPT ![r] = NoFile]
          /\ mtime' = [mtime EXCEPT ![r] = 0] /\ UNCHANGED meta
       \/ /\ \E v \in Contents : zst' = [zst EXCEPT ![r] = v]
          /\ mtime' = [mtime EXCEPT ![r] = now] /\ UNCHANGED meta
       \/ /\ \E v \in Files : meta' = [meta EXCEPT ![r] = v]
          /\ UNCHANGED <<zst, mtime>>
    /\ lost' = [q \in Procs |-> lost[q] \/ ref[q] = r]
    /\ seen' = [q \in Procs |->
                  IF pc[q] \in Visiting THEN seen[q] \cup {"wrote", "removed"} ELSE seen[q]]
    /\ UNCHANGED <<now, pc, ref, body, sweep>>

-----------------------------------------------------------------------------
SweepStep(p) ==
    \/ PruneList(p) \/ PruneEnd(p)
    \/ \E x \in names[p] : PruneScan(p, x)
    \/ \E x \in items[p] : PruneKeep(p, x) \/ PruneDropZst(p, x) \/ PruneDropMeta(p, x)

HookStep(p)  == PutZst(p) \/ TooLarge(p) \/ PutMeta(p) \/ SweepStep(p) \/ Emit(p)
ClearStep(p) == ClearEnd(p) \/ \E x \in names[p] : ClearRemove(p, x)
GetStep(p)   == GetOpen(p) \/ GetMeta(p)

Start ==
    \/ \E p \in Hooks, b \in Originals : HookBegin(p, b)
    \/ \E p \in Pruners : PruneBegin(p)
    \/ \E p \in Clearers : ClearBegin(p)
    \/ \E p \in Readers, r \in Refs \cup {NoRef} : GetBegin(p, r)

Proceed(p) ==
    \/ p \in Hooks /\ HookStep(p)
    \/ p \in Pruners /\ SweepStep(p)
    \/ p \in Clearers /\ ClearStep(p)
    \/ p \in Readers /\ GetStep(p)
    \/ Return(p)

(* A system call of p fails. *)
Fail(p) ==
    \/ p \in Hooks /\ PutFail(p)
    \/ p \in Hooks \cup Pruners /\ PruneFail(p)
    \/ p \in Clearers /\ ClearFail(p)
    \/ p \in Readers /\ GetFail(p)

Next ==
    \/ Start
    \/ \E p \in Procs : Proceed(p) \/ Fail(p) \/ Crash(p)
    \/ Tick
    \/ \E r \in Refs : Damage(r)

Spec == Init /\ [][Next]_vars

Fairness == \A p \in Procs : WF_vars(Proceed(p))
-----------------------------------------------------------------------------
(* What the directory holds, as a sweep that nobody disturbs counts it.    *)
Listed    == {r \in Refs : zst[r] # NoFile}
DiskTotal == MapThenSumSet(Size, Listed)

Expired(p, r)  == now - mtime[r] > Retention[p]
OverBudget(p)  == Limit[p] > 0 /\ DiskTotal > Limit[p]
Older(r, s)    == mtime[r] < mtime[s] \/ (mtime[r] = mtime[s] /\ r < s)

(* Every variable has its type.                                            *)
TypeOK ==
    /\ zst \in [Refs -> Files] /\ meta \in [Refs -> Files]
    /\ mtime \in [Refs -> Nat] /\ now \in Nat
    /\ pc \in [Procs -> Labels]
    /\ ref \in [Procs -> Refs \cup {NoRef}]
    /\ body \in [Procs -> Originals \cup {NoFile}]
    /\ names \in [Procs -> SUBSET Name] /\ items \in [Procs -> SUBSET Item]
    /\ total \in [Procs -> Int]
    /\ lost \in [Procs -> BOOLEAN] /\ seen \in [Procs -> SUBSET Event]

(* From the end of its Put until the marker is out, a hook's original can  *)
(* be read back unless somebody else took one of its files: the sweep the  *)
(* hook itself runs never costs it the entry the marker will name.         *)
Stored == {"list", "sweep", "dropMeta", "pruned", "aborted", "emitted"}

EmittedUnlessTaken ==
    \A p \in Hooks : pc[p] \in Stored => lost[p] \/ ref[p] \in Held

(* Why EmittedUnlessTaken and ImplementsPromise hold: what each hook and   *)
(* each reader can rely on at every point, while nobody else took a file.  *)
HookKeeps(p) ==
    /\ pc[p] \in {"putZst", "putMeta"} \cup Stored =>
          body[p] \in Originals /\ ref[p] = Ref[body[p]]
    /\ pc[p] \in {"putMeta"} \cup Stored => lost[p] \/ zst[ref[p]] = body[p]
    /\ pc[p] \in Stored => lost[p] \/ meta[ref[p]] = body[p]
    /\ pc[p] = "dropMeta" =>
          \A x \in items[p] : Oldest(x, items[p]) => x.ref # ref[p]

ReaderKnows(p) ==
    /\ pc[p] \in {"idle", "open", "readMeta", "gotOk", "gotErr"}
    /\ pc[p] = "idle" => ref[p] = NoRef
    /\ pc[p] \in {"open", "readMeta"} => ref[p] \in Refs /\ (lost[p] \/ ref[p] \in Held)
    /\ pc[p] \in {"readMeta", "gotOk"} => Acceptable(p, body[p])

StoreInv ==
    /\ TypeOK
    /\ \A p \in Hooks : HookKeeps(p)
    /\ \A p \in Readers : ReaderKnows(p)

(* A sweep that ends undisturbed leaves nothing expired but `keep`, and a  *)
(* directory within its budget unless `keep` is all there is: the running  *)
(* total that Prune decrements agrees with the disk.                       *)
SweepMeetsBudget ==
    \A p \in Procs : pc[p] = "pruned" /\ seen[p] = {} =>
        /\ \A r \in Listed \ {ref[p]} : ~Expired(p, r)
        /\ OverBudget(p) => Listed \subseteq {ref[p]}

(* An undisturbed sweep removes an entry only because it is expired or     *)
(* the directory is over budget, and never while an older one other than   *)
(* `keep` is still there.                                                  *)
Victim(r) == zst[r] # NoFile /\ zst'[r] = NoFile

SweepTakesOldest ==
    [][\A p \in Procs, r \in Refs :
         pc[p] = "sweep" /\ pc'[p] = "dropMeta" /\ seen[p] = {} /\ Victim(r) =>
            /\ Expired(p, r) \/ OverBudget(p)
            /\ \A s \in Listed \ {ref[p]} : ~Older(s, r)]_vars

(* With no size limit, a sweep removes only what is older than somebody's  *)
(* retention.                                                              *)
RetentionIsKept ==
    [][\A r \in Refs : Victim(r) => \E p \in Procs : Expired(p, r)]_vars

(* A clear that reports success, with nobody writing meanwhile, leaves     *)
(* neither originals nor metadata behind.                                  *)
ClearLeavesNothing ==
    \A p \in Clearers : pc[p] = "cleared" /\ "wrote" \notin seen[p] =>
        \A r \in Refs : zst[r] = NoFile /\ meta[r] = NoFile

(* Every invocation comes to an end, whatever the others do to the         *)
(* directory meanwhile: no sweep, clear or read can be kept going.  (For   *)
(* each process: not idle leads to idle.)                                  *)
EveryCallReturns == \A p \in Procs : []<>(pc[p] = "idle")

(* Readers see the store that OriginalStore promises.                      *)
ClientPhase(p) ==
    IF pc[p] \in {"open", "readMeta"} THEN "asking"
    ELSE IF pc[p] = "gotOk"  THEN "answered"
    ELSE IF pc[p] = "gotErr" THEN "failed"
    ELSE "idle"

ClientSteady(p) == pc[p] \in {"open", "readMeta", "gotOk", "gotErr"} /\ ~lost[p]
ClientReply(p)  == IF pc[p] = "gotOk" THEN body[p] ELSE NoFile

Phases  == [p \in Readers |-> ClientPhase(p)]
Asked   == [p \in Readers |-> ref[p]]
Steady  == [p \in Readers |-> ClientSteady(p)]
Replies == [p \in Readers |-> ClientReply(p)]

Promise == INSTANCE OriginalStore WITH
    Clients   <- Readers,
    NoReply   <- NoFile,
    Readable  <- [p \in Readers |-> {b \in Originals : Length[b] <= ReadMax(p)}],
    IOMayFail <- "io" \in Faults,
    held      <- Held,
    phase     <- Phases,
    asked     <- Asked,
    steady    <- Steady,
    reply     <- Replies

ImplementsPromise == Promise!Spec
=============================================================================
