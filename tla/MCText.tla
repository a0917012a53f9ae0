-------------------------------- MODULE MCText --------------------------------
(* The two algorithms of Process on text share no variable: a behavior is   *)
(* one of Compress and the guard, or one of the loop that sizes the marker. *)
EXTENDS MCMarker, MCReducer

VARIABLE algorithm

MarkerIdle  == body = 0 /\ fixed = 0 /\ i = 0 /\ finalSize = 0 /\ stated = 0 /\ done = FALSE
ReducerIdle ==
    /\ input = [original |-> <<>>] /\ context = NoContext /\ pass = "idle" /\ clean = <<>> /\ lines = <<>> /\ pos = 1 /\ out = <<>>
    /\ count = 0 /\ diagnostic = FALSE /\ effects = <<>> /\ cursor = 0

TextInit ==
    \/ algorithm = "compress" /\ ReducerInit /\ MarkerIdle
    \/ algorithm = "marker" /\ Init /\ ReducerIdle

TextNext ==
    /\ UNCHANGED algorithm
    /\ \/ algorithm = "compress" /\ ReducerNext /\ UNCHANGED vars
       \/ algorithm = "marker" /\ Next /\ UNCHANGED reducerVars

TextSpec == TextInit /\ [][TextNext]_<<algorithm, vars, reducerVars>>
=============================================================================
