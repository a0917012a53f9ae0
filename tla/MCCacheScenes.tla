--------------------------- MODULE MCCacheScenes ---------------------------
(* Three scenes in one run, which share nothing but their beginning: all of *)
(* CacheStore with every process and every fault at once has too many      *)
(* states.  None has a system call that fails.                              *)
EXTENDS MCCacheStore

CONSTANTS h1, pr, h2, rd

(* Of the three entries any two fit in 5, and all of them (2 + 2 + 3) do    *)
(* not.  The reader accepts a alone, and for h2 b is too long.              *)
SceneLimit == [p \in Procs |-> IF p = rd THEN 2 ELSE IF p = h2 THEN 4 ELSE 5]

VARIABLE scene

SceneInit == Init /\ scene \in {"sweeping", "reading", "pruning"}

(* A hook sweeps beside `cache prune` while time passes.                    *)
Sweeping ==
    \/ \E o \in Originals : HookBegin(h1, o)
    \/ PruneBegin(pr)
    \/ \E p \in {h1, pr} : Proceed(p) \/ Fail(p) \/ Crash(p)
    \/ Tick

(* Another stores what a reader asks for, and somebody else exchanges it.   *)
Reading ==
    \/ \E o \in Originals : HookBegin(h2, o)
    \/ \E r \in {Ref[o] : o \in {a, c}} \cup {NoRef} : GetBegin(rd, r)
    \/ \E p \in {h2, rd} : Proceed(p) \/ Fail(p) \/ Crash(p)
    \/ \E o \in {a, c} : Damage(Ref[o])

(* `cache prune` and a reader meet over what somebody else puts there and   *)
(* takes away, while time passes.                                           *)
Pruning == Next /\ \A p \in {h1, h2} : pc'[p] = "idle"

(* Whoever damages the cache deals in the originals S and what is no file   *)
(* of it.                                                                   *)
Confined(S) ==
    \A o \in Originals :
        {zst'[Ref[o]], meta'[Ref[o]]}
            \subseteq IF o \in S THEN S \cup {Garbage, NoFile} ELSE {NoFile}

SceneNext ==
    \/ scene = "sweeping" /\ Sweeping /\ UNCHANGED scene
    \/ scene = "reading" /\ Reading /\ Confined({a, c}) /\ UNCHANGED scene
    \/ scene = "pruning" /\ Pruning /\ Confined({a}) /\ UNCHANGED scene

SceneSpec == SceneInit /\ [][SceneNext]_<<vars, scene>>
=============================================================================
