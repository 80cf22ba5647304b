---------------------------- MODULE MCDkvsReplica ----------------------------
(* Two directories and the requests of the wallet. *)
EXTENDS DkvsReplica
CONSTANTS k1, k2

\* Two directories with one key each; the request spans both.
TwoPaths == <<"accounts", "rgb11">>
KeyEach  == [k \in {k1, k2} |-> IF k = k1 THEN "accounts" ELSE "rgb11"]
Spanning == {[reads |-> {k1, k2}, writes |-> {k1, k2}]}
=============================================================================
