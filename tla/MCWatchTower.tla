---------------------------- MODULE MCWatchTower ----------------------------
(* WatchTower on two channels.  The first is spliced once: its commitments *)
(* 1 and 2 spend the old channel point, 3 (and 2) the new one.             *)
EXTENDS WatchTower

MCChanOf == [c \in Commits |-> IF c = 4 THEN "b" ELSE "a"]

MCInputs == [c \in Commits |->
  CASE c = 1 -> {"old"} [] c = 2 -> {"old", "new"} [] c = 3 -> {"new"}
    [] OTHER -> {"other"}]
=============================================================================
