--------------------------- MODULE MCRgb11Transfer ---------------------------
(* Instances of Rgb11Transfer for TLC. *)
EXTENDS Rgb11Transfer

CONSTANTS t1, t2

Both == [t \in {t1, t2} |-> IF t = t1 THEN "out-of-band" ELSE "address"]
=============================================================================
