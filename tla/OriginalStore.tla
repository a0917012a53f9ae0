---------------------------- MODULE OriginalStore ----------------------------
(***************************************************************************)
(* What the cache of originals promises to whoever holds a marker,         *)
(* whatever hooks, sweeps, clears and accidents do to its directory:       *)
(*                                                                         *)
(*   - a successful read returns exactly the original with the asked       *)
(*     reference, never other bytes;                                       *)
(*   - a read fails only if the original was not there when it was asked   *)
(*     for, or was disturbed since, or is longer than the reader accepts,  *)
(*     or a system call failed.                                            *)
(***************************************************************************)
CONSTANTS
    Clients, Originals, Refs, NoRef, NoReply,
    Ref,          \* Ref[b]: the name of original b
    Readable,     \* Readable[c]: the originals within c's input limit
    IOMayFail     \* whether a read can fail for a reason outside the program

VARIABLES
    held,    \* references whose original can be read back
    phase,   \* what each client is doing
    asked,   \* the reference it asked for
    steady,  \* held when asked for and undisturbed since
    reply    \* what it was given

vars == <<held, phase, asked, steady, reply>>

Init ==
    /\ held = {}
    /\ phase = [c \in Clients |-> "idle"] /\ asked = [c \in Clients |-> NoRef]
    /\ steady = [c \in Clients |-> FALSE] /\ reply = [c \in Clients |-> NoReply]

Store(r) ==
    /\ held' = held \cup {r}
    /\ UNCHANGED <<phase, asked, steady, reply>>

Disturb(r) ==
    /\ held' \in {held \ {r}, held \cup {r}}
    /\ steady' = [c \in Clients |-> steady[c] /\ asked[c] # r]
    /\ UNCHANGED <<phase, asked, reply>>

Ask(c, r) ==
    /\ phase[c] = "idle"
    /\ phase'  = [phase EXCEPT ![c] = "asking"]
    /\ asked'  = [asked EXCEPT ![c] = r]
    /\ steady' = [steady EXCEPT ![c] = r \in held]
    /\ UNCHANGED <<held, reply>>

Refuse(c) ==
    /\ phase[c] = "idle"
    /\ phase' = [phase EXCEPT ![c] = "failed"]
    /\ UNCHANGED <<held, asked, steady, reply>>

Answer(c, b) ==
    /\ phase[c] = "asking"
    /\ Ref[b] = asked[c] /\ b \in Readable[c]
    /\ phase' = [phase EXCEPT ![c] = "answered"]
    /\ reply' = [reply EXCEPT ![c] = b]
    /\ UNCHANGED <<held, asked, steady>>

MustAnswer(c) == steady[c] /\ \E b \in Readable[c] : Ref[b] = asked[c]

Fail(c) ==
    /\ phase[c] = "asking"
    /\ MustAnswer(c) => IOMayFail
    /\ phase' = [phase EXCEPT ![c] = "failed"]
    /\ UNCHANGED <<held, asked, steady, reply>>

Leave(c) ==
    /\ phase'  = [phase EXCEPT ![c] = "idle"]
    /\ asked'  = [asked EXCEPT ![c] = NoRef]
    /\ steady' = [steady EXCEPT ![c] = FALSE]
    /\ reply'  = [reply EXCEPT ![c] = NoReply]
    /\ UNCHANGED held

Next ==
    \/ \E r \in Refs : Store(r) \/ Disturb(r)
    \/ \E c \in Clients :
         \/ Refuse(c) \/ Fail(c) \/ Leave(c)
         \/ \E r \in Refs : Ask(c, r)
         \/ \E b \in Originals : Answer(c, b)

Spec == Init /\ [][Next]_vars
=============================================================================
