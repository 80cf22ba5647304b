----------------------------- MODULE MCUtxoLocker -----------------------------
(* UtxoLocker on small instances. *)
EXTENDS UtxoLocker, TLC

\* The contexts, outpoints and reservations are interchangeable.
Symmetry == Permutations(Contexts) \cup Permutations(Utxos) \cup Permutations(Owners)
=============================================================================
