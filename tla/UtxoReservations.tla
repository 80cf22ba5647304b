--------------------------- MODULE UtxoReservations ---------------------------
(***************************************************************************)
(* What the lock table promises the operations that use it: an outpoint    *)
(* has one owner at most, ownership never moves from one operation to      *)
(* another without being given up or lost in between, and a reservation    *)
(* that is released leaves behind the ordinary lock it found.              *)
(***************************************************************************)
CONSTANTS
    Utxos,
    Owners,
    Reasons,   \* reasons of ordinary locks
    Settled,   \* the reason a finalized reservation leaves behind
    InUse      \* the reason shown while an outpoint is reserved

None == "none"

VARIABLES
    owner,     \* the operation an outpoint is reserved for, None when free
    base       \* the ordinary lock under the reservation, None when none

vars == <<owner, base>>

Update(f, S, new(_)) == [u \in Utxos |-> IF u \in S THEN new(u) ELSE f[u]]

Init ==
    /\ owner = [u \in Utxos |-> None]
    /\ base = [u \in Utxos |-> None]

Available(u, o) == owner[u] \in {None, o}

\* All of S or nothing.
Reserve(S, o) ==
    /\ \A u \in S : Available(u, o)
    /\ owner' = Update(owner, S, LAMBDA u : o)
    /\ UNCHANGED base

\* A reservation is taken up again from its operation's journal, which says
\* which ordinary lock a release has to restore.
Adopt(S, o, journal) ==
    /\ \A u \in S : /\ Available(u, o)
                    /\ owner[u] = None => base[u] \in {None, InUse, journal[u]}
    /\ owner' = Update(owner, S, LAMBDA u : o)
    /\ base' = Update(base, S, LAMBDA u : journal[u])

Release(S, o) ==
    /\ \A u \in S : owner[u] = o
    /\ owner' = Update(owner, S, LAMBDA u : None)
    /\ UNCHANGED base

Finalize(S, o) ==
    /\ \A u \in S : Available(u, o)
    /\ owner' = Update(owner, S, LAMBDA u : None)
    /\ base' = Update(base, S, LAMBDA u : Settled)

\* An ordinary lock is set or changed on an outpoint nobody reserved.
Relock(u, reason) ==
    /\ owner[u] = None
    /\ base' = [base EXCEPT ![u] = reason]
    /\ UNCHANGED owner

\* The outpoint was unlocked or spent.
Strip(u) ==
    /\ owner' = [owner EXCEPT ![u] = None]
    /\ base' = [base EXCEPT ![u] = None]

Next ==
    \/ \E S \in SUBSET Utxos, o \in Owners :
        \/ Reserve(S, o)
        \/ Release(S, o)
        \/ Finalize(S, o)
        \/ \E journal \in [Utxos -> {None, Settled}] : Adopt(S, o, journal)
    \/ \E u \in Utxos : Strip(u) \/ \E reason \in Reasons : Relock(u, reason)

Spec == Init /\ [][Next]_vars
=============================================================================
