---------------------------- MODULE MCCacheStore ----------------------------
(* Small instances of CacheStore: with three originals for the sweep, and   *)
(* with two for the rest.                                                   *)
EXTENDS CacheStore, TLC

CONSTANTS a, b, c

ThreeRef    == (a :> 1 @@ b :> 2 @@ c :> 3)
ThreeLength == (a :> 2 @@ b :> 5 @@ c :> 4 @@ Garbage :> 1)
ThreePacked == (a :> 1 @@ b :> 1 @@ c :> 2 @@ Garbage :> 1)

TwoRef    == (a :> 1 @@ b :> 2)
TwoLength == (a :> 2 @@ b :> 4 @@ Garbage :> 1)
TwoPacked == (a :> 1 @@ b :> 2 @@ Garbage :> 1)

(* Two entries together (2 + 3) exceed Tight; any one of them fits.  The    *)
(* reader accepts exactly a, whose length is its limit, and not b.          *)
Tight     == [p \in Procs |-> IF p \in Readers THEN 2 ELSE 4]
Unlimited == [p \in Procs |-> 0]
Short     == [p \in Procs |-> 1]

(* A hook's sweep drops whatever is a tick old, `cache prune` only what is  *)
(* two ticks old: with a clock of one tick it goes by the budget alone.     *)
Mixed     == [p \in Procs |-> IF p \in Pruners THEN 1 ELSE 0]

(* Every process keeps running, for what must come to an end.  A reference  *)
(* that is none is refused before anything is read: nobody asks for it.     *)
FairNext == Next /\ \A p \in Readers : pc'[p] # "idle" => ref'[p] # NoRef

FairSpec == Init /\ [][FairNext]_vars /\ Fairness
=============================================================================
