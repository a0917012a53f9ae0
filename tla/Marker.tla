------------------------------- MODULE Marker -------------------------------
(***************************************************************************)
(* The loop of Engine.Process that sizes the recovery marker.  The marker  *)
(* states, in decimal, how many bytes the output has with the marker in    *)
(* it, so its own length depends on the number it states: the loop formats *)
(* it again until the number is right, and stops after five rounds.     *)
(***************************************************************************)
EXTENDS Integers

CONSTANTS
    Bodies,  \* len(a)+len(b): sizes of the reduced output without the marker
    Fixed    \* lengths of the marker without that number: the compressor's
             \* name and the original's size vary

(* The input limit is at most 1024 MiB, and the text around the number     *)
(* ("\n[TokenSlim ref=ts_<sha256> ...]\n") is longer than 100 bytes.       *)
ASSUME MarkerAssumption ==
    /\ \A n \in Bodies : n \in Nat /\ n <= 2000000000
    /\ \A n \in Fixed : n \in Nat /\ n >= 100 /\ n <= 1000

VARIABLES body, fixed, i, finalSize, stated, done

vars == <<body, fixed, i, finalSize, stated, done>>

Digits(n) ==
    LET atLeast(k) == IF n >= k THEN 1 ELSE 0
    IN  1 + atLeast(10) + atLeast(100) + atLeast(1000) + atLeast(10000) + atLeast(100000)
          + atLeast(1000000) + atLeast(10000000) + atLeast(100000000) + atLeast(1000000000)

TwoRounds == 2 \* Mutant: too few rounds.
Rounds    == 5

Init ==
    /\ body \in Bodies /\ fixed \in Fixed
    /\ i = 0 /\ finalSize = body /\ stated = 0 /\ done = FALSE

Length(n) == body + fixed + Digits(n)

(* One turn of the loop: format with the current guess, then compare.      *)
Format ==
    /\ ~done
    /\ LET settled == Length(finalSize) = finalSize
       IN  /\ stated' = finalSize /\ finalSize' = Length(finalSize)
           /\ i' = IF settled THEN i ELSE i + 1
           /\ done' = (settled \/ i' = Rounds)
    /\ UNCHANGED <<body, fixed>>

Next == Format
Spec == Init /\ [][Next]_vars

-----------------------------------------------------------------------------
(* The number in the marker is the size of the output that contains it,    *)
(* which is also the size the budget, the metadata and the metrics use.    *)
MarkerIsTrue ==
    done => stated = Length(stated) /\ finalSize = stated

(* Why: from the second round on the guess has the digits of body + fixed  *)
(* or one more, it never shrinks, and the third round settles it.          *)
Base == body + fixed

MarkerInv ==
    /\ body \in Bodies /\ fixed \in Fixed /\ i \in 0..3 /\ done \in BOOLEAN
    /\ i = 0 => finalSize = body /\ ~done
    /\ i > 0 => finalSize \in Base + 1 .. Base + 10
    /\ i = 1 => finalSize <= Base + Digits(Base)
    /\ i = 2 => /\ finalSize - Base \in {Digits(Base), Digits(Base) + 1}
                /\ finalSize <= Length(finalSize)
    /\ i = 3 => finalSize = Length(finalSize)
    /\ done => stated = finalSize /\ finalSize = Length(finalSize)
=============================================================================
