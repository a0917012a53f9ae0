------------------------------ MODULE MCMarker ------------------------------
EXTENDS Marker
(* The shortest and the longest text around the number: for the family     *)
(* "php" and an original of three digits, for "kubernetes-log" and one of  *)
(* ten; and one in between.  With them the bodies give outputs from at     *)
(* least 25 bytes below each power of ten to as many above it.             *)
MCFixed  == {126, 132, 144}
MCBodies == (0..40) \cup UNION {(10^k - 190)..(10^k - 90) : k \in 3..9}
=============================================================================
