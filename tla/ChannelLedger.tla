---------------------------- MODULE ChannelLedger ----------------------------
(***************************************************************************)
(* What a caller may expect of the channel that is kept on disk: it is a   *)
(* ledger.  A payment enters it whole, with the next height, or not at all;*)
(* it is open until layer 2 has seen it, and then settled; nothing that    *)
(* entered is ever taken out again.                                        *)
(***************************************************************************)
EXTENDS Naturals

CONSTANT Payments

VARIABLES height, paid, open

ledger == <<height, paid, open>>

Init ==
  /\ height = 0
  /\ paid = {}
  /\ open = {}

\* A payment is applied; one that layer 2 has seen already is not open.
Apply(t) ==
  /\ t \notin paid
  /\ height' = height + 1
  /\ paid' = paid \cup {t}
  /\ open' \in {open, open \cup {t}}

Settle(t) ==
  /\ t \in open
  /\ open' = open \ {t}
  /\ UNCHANGED <<height, paid>>

Next == \E t \in Payments : Apply(t) \/ Settle(t)

Spec == Init /\ [][Next]_ledger
=============================================================================
