--------------------------- MODULE ChannelPayment ---------------------------
(***************************************************************************)
(* The client side of a payment over an STP channel: unlocking assets from *)
(* the channel, locking assets into it, and recovering a payment that the  *)
(* layer-2 chain confirmed but the channel does not know of.  A payment    *)
(* replaces both commitment transactions: each side signs the other's next *)
(* one, verifies its own, gives up the secret of its current one, and only *)
(* then advances the commitment height.                                    *)
(*                                                                         *)
(* The hard part is where the state lives.  A channel exists as records on *)
(* disk (the channel and its backup) and as objects in memory: an attempt  *)
(* advances one object, loads another from disk to fall back on, and a     *)
(* failed attempt puts the second in the channel map in place of the first.*)
(* Every lock is the lock of an object, so whoever fetched the first one   *)
(* before it was replaced works on, and saves, a channel nobody looks at.  *)
(*                                                                         *)
(* An asset amount is not represented: a balance is the set of the payments*)
(* applied to it.  A commitment transaction is its height and balance.     *)
(***************************************************************************)
EXTENDS Naturals, FiniteSets

CONSTANTS
  MaxPay,       \* bound: attempts are numbered 1 .. MaxPay
  MaxObj,       \* bound: channel objects in memory are numbered 1 .. MaxObj
  Kinds,        \* the operations the caller uses
  Faults,       \* what may go wrong
  Serial        \* TRUE: the caller starts an attempt only when nothing runs

Pay == 1 .. MaxPay
Objects == 1 .. MaxObj
None == 0
Monitor == MaxPay + 1
Actors == 1 .. Monitor   \* the goroutine of attempt p is actor p

AllKinds == {"unlock", "lock", "recover"}

\* refused: a request is refused, or a local step fails, before the local
\* secret leaves.  late: the answer to the secret, or a step after it, fails.
\* store: a database write fails.  offline: a broadcast fails.  timeout: an
\* attempt runs past the reservation time limit.  crash: the process restarts.
AllFaults == {"refused", "late", "store", "offline", "timeout", "crash"}

ASSUME BoundsAssumption == MaxPay \in Nat \ {0} /\ MaxObj \in Nat \ {0}
ASSUME KindsAssumption == Kinds \subseteq AllKinds
ASSUME FaultsAssumption == Faults \subseteq AllFaults
ASSUME SerialAssumption == Serial \in BOOLEAN

VARIABLES
  heap,       \* the channel objects
  nobj,       \* how many of them exist
  chanMap,    \* the object the manager's channel map holds
  lock,       \* per object, the attempt that holds its mutex
  dbChan,     \* the stored channel
  dbBackup,   \* the stored backup of the channel
  dbResv,     \* per attempt, the stored status of its reservation
  att,        \* the attempts
  resv,       \* per attempt, the status of its reservation in memory
  listed,     \* the attempts whose reservation the monitor visits
  run,        \* per actor, its progress through HandlePaymentStarted
  tower,      \* the remote commitments the watch tower can punish
  released,   \* the heights whose local commitment secret left the wallet
  peer,       \* the peer's committed height and balance
  onL2,       \* the payment transactions broadcast on layer 2
  confirmed   \* those the layer-2 chain confirmed

mem == <<heap, nobj, chanMap, lock>>
disk == <<dbChan, dbBackup, dbResv>>
book == <<resv, listed>>
net == <<onL2, confirmed>>
vars == <<mem, disk, att, book, run, tower, released, peer, net>>

Commitments == [height : Nat, paid : SUBSET Pay]
Commitment(h, s) == [height |-> h, paid |-> s]

\* Channel and ChannelInDB: pending is PendingUtxosL2, last is
\* LastPaymentTxId, busy is ResvId (kept in memory only).
Channels == [height : Nat, paid : SUBSET Pay, pending : SUBSET Pay,
             last : Pay \cup {None}, local : Commitments,
             remote : Commitments, busy : Pay \cup {None}]

Active == {"req", "sign", "ack", "fin", "commit", "listed", "saved"}
Stages == Active \cup {"idle", "wait", "done", "dead"}

Attempts == [kind : AllKinds, st : Stages, obj : Objects, old : Objects,
             tx : Pay, punish : BOOLEAN]

Statuses == {"none", "init", "started", "broadcast", "closed"}

TypeOK ==
  /\ heap \in [Objects -> Channels]
  /\ nobj \in Objects
  /\ chanMap \in 1 .. nobj
  /\ lock \in [Objects -> Pay \cup {None}]
  /\ dbChan \in Channels
  /\ dbBackup \in Channels
  /\ dbResv \in [Pay -> Statuses]
  /\ att \in [Pay -> Attempts]
  /\ \A p \in Pay : att[p].obj <= nobj /\ att[p].old <= nobj
  /\ resv \in [Pay -> Statuses]
  /\ listed \in SUBSET Pay
  /\ run \in [Actors -> [st : {"off", "start", "lock", "mark"},
                         pay : Pay, obj : Objects]]
  /\ \A a \in Actors : run[a].obj <= nobj
  /\ tower \in SUBSET Commitments
  /\ released \in SUBSET Nat
  /\ peer \in Commitments
  /\ onL2 \in SUBSET Pay
  /\ confirmed \in SUBSET Pay

FirstCommitment == Commitment(0, {})

FirstChannel ==
  [height |-> 0, paid |-> {}, pending |-> {}, last |-> None,
   local |-> FirstCommitment, remote |-> FirstCommitment, busy |-> None]

\* A channel that is open and ready, loaded from disk at start-up.
Init ==
  /\ heap = [o \in Objects |-> FirstChannel]
  /\ nobj = 1
  /\ chanMap = 1
  /\ lock = [o \in Objects |-> None]
  /\ dbChan = FirstChannel
  /\ dbBackup = FirstChannel
  /\ dbResv = [p \in Pay |-> "none"]
  /\ att = [p \in Pay |-> [kind |-> "unlock", st |-> "idle", obj |-> 1,
                           old |-> 1, tx |-> p, punish |-> FALSE]]
  /\ resv = [p \in Pay |-> "none"]
  /\ listed = {}
  /\ run = [a \in Actors |-> [st |-> "off", pay |-> 1, obj |-> 1]]
  /\ tower = {}
  /\ released = {}
  /\ peer = FirstCommitment
  /\ onL2 = {}
  /\ confirmed = {}

-----------------------------------------------------------------------------
(* The parts of a payment.                                                 *)

\* ResvId is not part of the record on disk.
Stored(c) == [c EXCEPT !.busy = None]

\* CreatePaymentTx and UpdateCommitWithPaymentResv: the channel spends its
\* output to the payment transaction t and moves the balance.
WithPayment(c, t) ==
  [c EXCEPT !.pending = @ \cup {t}, !.last = t, !.paid = @ \cup {t}]

\* SignNextCommitment: the remote commitment is overwritten by the next one.
WithRemoteNext(c) == [c EXCEPT !.remote = Commitment(c.height + 1, c.paid)]

\* ReceiveNewCommitment: so is the local one, once the peer's signature is
\* verified over the transaction rebuilt here.
\* Mutant: nothing is verified.
WithLocalSame(c) == c
WithLocalNext(c) == [c EXCEPT !.local = Commitment(c.height + 1, c.paid)]

\* A signature verifies only when both sides rebuild the same transaction.
PeerAgrees(c) == c.height = peer.height

PeerSigns(c, t) == PeerAgrees(c) /\ c.paid = peer.paid \cup {t}

PeerAdvanced(c) == Commitment(c.height + 1, c.paid)

\* RevokeCurrentCommitment: the secret of the current height leaves.
Revoked(c) == released \cup {c.height}

\* ReceiveRevocation: the peer's old commitment goes to the watch tower.
\* Mutant: it does not.
WatchedNever(p) == tower
Watched(p) == tower \cup {heap[att[p].old].remote}

\* CommitHeight += 1, ResvId = 0.
Advanced(c) == [c EXCEPT !.height = @ + 1, !.busy = None]

\* EnableUtxo_SatsNet.  Mutant: it is forgotten.
EnabledNot(c, t) == c
Enabled(c, t) == [c EXCEPT !.pending = @ \ {t}]

MayRefuse(c, t) == "refused" \in Faults \/ ~PeerSigns(c, t)

-----------------------------------------------------------------------------
(* The attempt.                                                            *)

Quiet ==
  /\ \A p \in Pay : att[p].st \in {"idle", "done", "dead"}
  /\ \A a \in Actors : run[a].st = "off"
  /\ \A p \in listed : resv[p] \notin {"init", "started"}

At(p, st) == att[p].st = st
ObjOf(p) == heap[att[p].obj]
Free(o) == lock[o] = None

Move(p, st) == att' = [att EXCEPT ![p].st = st]

\* The caller looks the channel up in the map before it waits for its mutex.
Fetch(p, k, t) ==
  /\ At(p, "idle")
  /\ \A q \in Pay : q < p => ~At(q, "idle")
  /\ Serial => Quiet
  /\ IF k = "recover" THEN t \in confirmed ELSE t = p
  /\ att' = [att EXCEPT ![p].st = "wait", ![p].kind = k, ![p].obj = chanMap,
                        ![p].tx = t]
  /\ UNCHANGED <<mem, disk, book, run, tower, released, peer, net>>

\* It then holds the mutex of that object to the end of the attempt.  The
\* object to fall back on is read from disk, and saved as the backup.
Acquire(p) ==
  LET o == att[p].obj IN
  /\ At(p, "wait") /\ att[p].kind # "recover"
  /\ Free(o)
  /\ nobj < MaxObj
  /\ lock' = [lock EXCEPT ![o] = p]
  /\ nobj' = nobj + 1
  /\ heap' = [heap EXCEPT ![nobj + 1] = dbChan]
  /\ dbBackup' = dbChan
  /\ att' = [att EXCEPT ![p].st = "req", ![p].old = nobj + 1]
  /\ UNCHANGED <<chanMap, dbChan, dbResv, book, run, tower, released, peer,
                 net>>

\* Only the recovery asks whether another attempt left the channel busy.
AcquireRecover(p) ==
  LET o == att[p].obj IN
  /\ At(p, "wait") /\ att[p].kind = "recover"
  /\ Free(o)
  /\ IF heap[o].busy # None
       THEN lock' = lock /\ Move(p, "dead")
       ELSE lock' = [lock EXCEPT ![o] = p] /\ Move(p, "req")
  /\ UNCHANGED <<heap, nobj, chanMap, disk, book, run, tower, released, peer,
                 net>>

\* SendUnlockReq, then everything up to the signature of the peer's next
\* commitment.
UnlockRequest(p) ==
  LET c == ObjOf(p) IN
  /\ At(p, "req") /\ att[p].kind = "unlock"
  /\ PeerAgrees(c)
  /\ heap' = [heap EXCEPT ![att[p].obj] =
       WithRemoteNext(WithPayment([c EXCEPT !.busy = p], p))]
  /\ Move(p, "sign")
  /\ UNCHANGED <<nobj, chanMap, lock, disk, book, run, tower, released, peer,
                 net>>

\* SendUnlockCommitSigReq and SendRecoverPaymentCommitSigReq: the peer gives
\* its old secret and signs the local commitment; the local secret is made
\* ready.
SignExchange(p) ==
  LET c == ObjOf(p) IN
  /\ At(p, "sign")
  /\ PeerSigns(c, att[p].tx)
  /\ tower' = Watched(p)
  /\ heap' = [heap EXCEPT ![att[p].obj] = WithLocalNext(c)]
  /\ att' = [att EXCEPT ![p].st = "ack", ![p].punish = TRUE]
  /\ UNCHANGED <<nobj, chanMap, lock, disk, book, run, released, peer, net>>

\* SendUnlockRevokeAndAckReq and SendRecoverPaymentRevokeAndAckReq: the local
\* secret leaves, and the peer advances.
UnlockAck(p) ==
  LET c == ObjOf(p) IN
  /\ At(p, "ack") /\ att[p].kind # "lock"
  /\ PeerSigns(c, att[p].tx)
  /\ released' = Revoked(c)
  /\ peer' = PeerAdvanced(c)
  /\ Move(p, "commit")
  /\ UNCHANGED <<mem, disk, book, run, tower, net>>

\* Locking turns the exchange round: the channel is changed before the
\* request, and the peer signs in its answer to it.
LockChange(p) == [heap EXCEPT ![att[p].obj] = WithPayment(@, p)]

LockRequest(p) ==
  LET c == WithPayment(ObjOf(p), p) IN
  /\ At(p, "req") /\ att[p].kind = "lock"
  /\ PeerSigns(c, p)
  /\ heap' = [heap EXCEPT ![att[p].obj] =
       WithRemoteNext(WithLocalNext([c EXCEPT !.busy = p]))]
  /\ Move(p, "ack")
  /\ UNCHANGED <<nobj, chanMap, lock, disk, book, run, tower, released, peer,
                 net>>

\* SendLockCommitSigAndRevokeReq: the local secret leaves first, the peer's
\* comes back.
LockAck(p) ==
  LET c == ObjOf(p) IN
  /\ At(p, "ack") /\ att[p].kind = "lock"
  /\ PeerSigns(c, p)
  /\ released' = Revoked(c)
  /\ tower' = Watched(p)
  /\ att' = [att EXCEPT ![p].st = "fin", ![p].punish = TRUE]
  /\ UNCHANGED <<mem, disk, book, run, peer, net>>

\* SendLockAckReq.
LockFinish(p) ==
  LET c == ObjOf(p) IN
  /\ At(p, "fin")
  /\ PeerSigns(c, p)
  /\ peer' = PeerAdvanced(c)
  /\ Move(p, "commit")
  /\ UNCHANGED <<mem, disk, book, run, tower, released, net>>

\* RS_PAYMENT_STARTED: the monitor sees the reservation before it is saved,
\* and before the channel is advanced.
ListReservation(p) ==
  /\ At(p, "commit") /\ att[p].kind # "recover"
  /\ resv' = [resv EXCEPT ![p] = "started"]
  /\ listed' = listed \cup {p}
  /\ Move(p, "listed")
  /\ UNCHANGED <<mem, disk, run, tower, released, peer, net>>

SaveReservation(p) ==
  /\ At(p, "listed")
  /\ dbResv' = [dbResv EXCEPT ![p] = resv[p]]
  /\ Move(p, "saved")
  /\ UNCHANGED <<mem, dbChan, dbBackup, book, run, tower, released, peer, net>>

\* The error of this save of the channel is dropped.
SaveAdvanced(c) ==
  \/ dbChan' = Stored(c)
  \/ "store" \in Faults /\ UNCHANGED dbChan

Advance(p) ==
  LET c == Advanced(ObjOf(p)) IN
  /\ At(p, "saved")
  /\ heap' = [heap EXCEPT ![att[p].obj] = c]
  /\ SaveAdvanced(c)
  /\ lock' = [lock EXCEPT ![att[p].obj] = None]
  /\ run' = [run EXCEPT ![p] = [@ EXCEPT !.st = "start", !.pay = p]]
  /\ Move(p, "done")
  /\ UNCHANGED <<nobj, chanMap, dbBackup, dbResv, book, tower, released, peer,
                 net>>

\* What the peer made of a last message whose answer was lost: nothing, it
\* advanced, or it only broadcast the payment.
LateOutcome(p) ==
  LET c == ObjOf(p) IN
  \/ UNCHANGED <<peer, onL2>>
  \/ /\ \/ At(p, "ack") /\ att[p].kind # "lock"
        \/ At(p, "fin")
     /\ PeerSigns(c, att[p].tx)
     /\ \/ peer' = PeerAdvanced(c) /\ UNCHANGED onL2
        \/ onL2' = onL2 \cup {att[p].tx} /\ UNCHANGED peer

\* When an attempt may fail, and what has left the wallet by then.
Fails(p) ==
  \/ /\ At(p, "req") \/ At(p, "sign")
     /\ MayRefuse(WithPayment(ObjOf(p), att[p].tx), att[p].tx)
     /\ UNCHANGED <<released, peer, onL2>>
  \/ /\ At(p, "ack")
     /\ "late" \in Faults \/ ~PeerSigns(ObjOf(p), att[p].tx)
     /\ released' = Revoked(ObjOf(p))
     /\ LateOutcome(p)
  \/ /\ \/ "late" \in Faults /\ (At(p, "fin") \/ At(p, "commit"))
        \/ "store" \in Faults /\ At(p, "listed")
     /\ UNCHANGED released
     /\ LateOutcome(p)

\* The end of InitUnlockProcess and InitLockProcess on an error: the punish
\* transaction is dropped, the object loaded at the start is saved and takes
\* the place of the one the attempt changed.
\* Mutant: the punish transaction stays.
UnwatchedForgotten(p) == tower' \in {tower, Watched(p)}
Unwatched(p) ==
  \/ ~att[p].punish /\ tower' = tower
  \/ /\ att[p].punish \/ At(p, "sign")
     /\ tower' = tower \ {heap[att[p].old].remote}

FallBack(p) == heap[att[p].old]

Rollback(p) ==
  /\ att[p].kind # "recover"
  /\ Fails(p)
  /\ heap' = [(IF At(p, "req") /\ att[p].kind = "lock"
                 THEN LockChange(p) ELSE heap)
                EXCEPT ![att[p].obj].busy = None]
  /\ Unwatched(p)
  /\ dbChan' = Stored(FallBack(p))
  /\ chanMap' = att[p].old
  /\ lock' = [lock EXCEPT ![att[p].obj] = None]
  /\ listed' = listed \ {p}
  /\ Move(p, "dead")
  /\ UNCHANGED <<nobj, dbBackup, dbResv, resv, run, confirmed>>

-----------------------------------------------------------------------------
(* Recovery of a confirmed payment.                                        *)

\* A payment that is applied already spends no current channel output.
\* Mutant: nobody asks.
SpendsAnything(c, t) == TRUE
SpendsCurrent(c, t) == t \notin c.paid

\* SendRecoverPaymentReq, PrepareRecoverPaymentReservationLocked and the
\* signature; the reservation is listed from here on.
RecoverRequest(p) ==
  LET c == ObjOf(p)
      t == att[p].tx IN
  /\ At(p, "req") /\ att[p].kind = "recover"
  /\ PeerAgrees(c)
  /\ SpendsCurrent(c, t)
  /\ nobj < MaxObj
  /\ nobj' = nobj + 1
  /\ heap' = [heap EXCEPT ![nobj + 1] = dbChan,
       ![att[p].obj] = WithRemoteNext(WithPayment([c EXCEPT !.busy = p], t))]
  /\ dbBackup' = dbChan
  /\ resv' = [resv EXCEPT ![p] = "init"]
  /\ listed' = listed \cup {p}
  /\ att' = [att EXCEPT ![p].st = "sign", ![p].old = nobj + 1]
  /\ UNCHANGED <<chanMap, lock, dbChan, dbResv, run, tower, released, peer, net>>

\* FinalizeRecoveredPaymentLocked.
RecoverFinish(p) ==
  LET c == Advanced(Enabled(ObjOf(p), att[p].tx)) IN
  /\ At(p, "commit") /\ att[p].kind = "recover"
  /\ heap' = [heap EXCEPT ![att[p].obj] = c]
  /\ dbChan' = Stored(c)
  /\ dbResv' = [dbResv EXCEPT ![p] = "closed"]
  /\ resv' = [resv EXCEPT ![p] = "closed"]
  /\ listed' = listed \ {p}
  /\ lock' = [lock EXCEPT ![att[p].obj] = None]
  /\ Move(p, "done")
  /\ UNCHANGED <<nobj, chanMap, dbBackup, run, tower, released, peer, net>>

\* An error leaves the channel as it is: half changed, and busy.
RecoverAbandon(p) ==
  /\ att[p].kind = "recover"
  /\ \/ Fails(p)
     \/ /\ At(p, "req") /\ ~SpendsCurrent(ObjOf(p), att[p].tx)
        /\ UNCHANGED <<released, peer, onL2>>
  /\ lock' = [lock EXCEPT ![att[p].obj] = None]
  /\ Move(p, "dead")
  /\ \/ UNCHANGED tower
     \/ At(p, "sign") /\ tower' = Watched(p)
  /\ UNCHANGED <<heap, nobj, chanMap, disk, book, run, confirmed>>

\* The reservation, or after it the channel, could not be saved.
RecoverStoreFails(p) ==
  LET c == Enabled(ObjOf(p), att[p].tx) IN
  /\ "store" \in Faults
  /\ At(p, "commit") /\ att[p].kind = "recover"
  /\ \/ heap' = [heap EXCEPT ![att[p].obj] = c] /\ UNCHANGED dbResv
     \/ /\ heap' = [heap EXCEPT ![att[p].obj] = Advanced(c)]
        /\ dbResv' = [dbResv EXCEPT ![p] = "closed"]
  /\ resv' = [resv EXCEPT ![p] = "closed"]
  /\ lock' = [lock EXCEPT ![att[p].obj] = None]
  /\ Move(p, "dead")
  /\ UNCHANGED <<nobj, chanMap, dbChan, dbBackup, listed, run, tower, released,
                 peer, net>>

-----------------------------------------------------------------------------
(* HandlePaymentStarted, run by the goroutine of the attempt and by the    *)
(* monitor, and the rest of the monitor's tick.                            *)

\* Mutant: a payment whose first broadcast failed is not tried again.
DueOnceSeen(p) == p \in listed \cap onL2 /\ resv[p] = "started"
Due(p) == p \in listed /\ resv[p] = "started"

MonitorStarts(p) ==
  /\ run[Monitor].st = "off"
  /\ Due(p)
  /\ run' = [run EXCEPT ![Monitor] = [@ EXCEPT !.st = "start", !.pay = p]]
  /\ UNCHANGED <<mem, disk, att, book, tower, released, peer, net>>

\* The payment is broadcast, and the channel map is read.
Broadcast(a) ==
  /\ run[a].st = "start"
  /\ onL2' = onL2 \cup {run[a].pay}
  /\ run' = [run EXCEPT ![a].st = "lock", ![a].obj = chanMap]
  /\ UNCHANGED <<mem, disk, att, book, tower, released, peer, confirmed>>

BroadcastFails(a) ==
  /\ "offline" \in Faults
  /\ run[a].st = "start"
  /\ run' = [run EXCEPT ![a].st = "off"]
  /\ UNCHANGED <<mem, disk, att, book, tower, released, peer, net>>

\* enableUtxosInChannel: under the mutex of the object that was in the map.
EnableUtxo(a) ==
  LET o == run[a].obj
      c == Enabled(heap[o], run[a].pay) IN
  /\ run[a].st = "lock"
  /\ Free(o)
  /\ heap' = [heap EXCEPT ![o] = c]
  /\ dbChan' = Stored(c)
  /\ run' = [run EXCEPT ![a].st = "mark"]
  /\ UNCHANGED <<nobj, chanMap, lock, dbBackup, dbResv, att, book, tower,
                 released, peer, net>>

MarkBroadcast(a) ==
  LET p == run[a].pay IN
  /\ run[a].st = "mark"
  /\ resv' = [resv EXCEPT ![p] = "broadcast"]
  /\ dbResv' = [dbResv EXCEPT ![p] = "broadcast"]
  /\ run' = [run EXCEPT ![a].st = "off"]
  /\ UNCHANGED <<mem, dbChan, dbBackup, att, listed, tower, released, peer,
                 net>>

\* HandlePaymentFinished, once the transaction the attempt's object names is
\* confirmed.
MonitorFinishes(p) ==
  LET t == ObjOf(p).last IN
  /\ run[Monitor].st = "off"
  /\ p \in listed /\ resv[p] = "broadcast"
  /\ t \in confirmed
  /\ resv' = [resv EXCEPT ![p] = "closed"]
  /\ dbResv' = [dbResv EXCEPT ![p] = "closed"]
  /\ listed' = listed \ {p}
  /\ UNCHANGED <<mem, dbChan, dbBackup, att, run, tower, released, peer, net>>

\* handleChannelActionTimeout: the backup replaces the channel.
MonitorTimesOut(p) ==
  /\ "timeout" \in Faults
  /\ run[Monitor].st = "off"
  /\ p \in listed /\ resv[p] = "init"
  /\ ObjOf(p).busy = p
  /\ nobj < MaxObj
  /\ nobj' = nobj + 1
  /\ heap' = [heap EXCEPT ![nobj + 1] = dbBackup]
  /\ dbChan' = dbBackup
  /\ chanMap' = nobj + 1
  /\ listed' = listed \ {p}
  /\ dbResv' = [dbResv EXCEPT ![p] = "none"]
  /\ UNCHANGED <<lock, dbBackup, att, resv, run, tower, released, peer, net>>

\* Layer 2 confirms a broadcast payment.
ChainConfirms(t) ==
  /\ t \in onL2 \ confirmed
  /\ confirmed' = confirmed \cup {t}
  /\ UNCHANGED <<mem, disk, att, book, run, tower, released, peer, onL2>>

\* The process stops and starts again: the channel is loaded from disk.  The
\* open reservations are loaded too, but without their channel, and the
\* monitor visits none of those.
Restart ==
  /\ "crash" \in Faults
  /\ nobj < MaxObj
  /\ nobj' = nobj + 1
  /\ heap' = [heap EXCEPT ![nobj + 1] = dbChan]
  /\ chanMap' = nobj + 1
  /\ lock' = [o \in Objects |-> None]
  /\ att' = [p \in Pay |->
       IF att[p].st \in {"idle", "done"} THEN att[p]
       ELSE [att[p] EXCEPT !.st = "dead"]]
  /\ run' = [a \in Actors |-> [run[a] EXCEPT !.st = "off"]]
  /\ resv' = dbResv
  /\ listed' = {}
  /\ UNCHANGED <<disk, tower, released, peer, net>>

AttemptStep(p) ==
  \/ Acquire(p)
  \/ AcquireRecover(p)
  \/ UnlockRequest(p)
  \/ SignExchange(p)
  \/ UnlockAck(p)
  \/ LockRequest(p)
  \/ LockAck(p)
  \/ LockFinish(p)
  \/ ListReservation(p)
  \/ SaveReservation(p)
  \/ Advance(p)
  \/ Rollback(p)
  \/ RecoverRequest(p)
  \/ RecoverFinish(p)
  \/ RecoverAbandon(p)
  \/ RecoverStoreFails(p)

HandlerStep(a) ==
  \/ Broadcast(a)
  \/ BroadcastFails(a)
  \/ EnableUtxo(a)
  \/ MarkBroadcast(a)

MonitorStep(p) ==
  \/ MonitorStarts(p)
  \/ MonitorFinishes(p)
  \/ MonitorTimesOut(p)

Next ==
  \/ \E p \in Pay :
       \/ \E k \in Kinds, t \in Pay : Fetch(p, k, t)
       \/ AttemptStep(p)
       \/ MonitorStep(p)
       \/ ChainConfirms(p)
  \/ \E a \in Actors : HandlerStep(a)
  \/ Restart

Spec == Init /\ [][Next]_vars

\* What the running process keeps doing: a goroutine and the monitor's ticker
\* are scheduled, and an attempt goes on, for a request ends with an answer or
\* with the time limit of the HTTP client.  A broadcast that is retried for
\* ever gets through, and layer 2 confirms what was broadcast.
Fairness ==
  /\ \A p \in Pay :
       /\ WF_vars(AttemptStep(p))
       /\ WF_vars(MonitorStarts(p)) /\ WF_vars(MonitorFinishes(p))
       /\ WF_vars(ChainConfirms(p))
  /\ \A a \in Actors :
       SF_vars(Broadcast(a)) /\ WF_vars(EnableUtxo(a)) /\ WF_vars(MarkBroadcast(a))

FairSpec == Spec /\ Fairness

-----------------------------------------------------------------------------
(* Properties.                                                             *)

\* A local secret leaves the wallet only while the channel object of the
\* attempt holds a verified local commitment for the next height that pays
\* the balance the attempt agreed: RevokeCurrentCommitment after
\* ReceiveNewCommitment, and nobody touches the object in between.
SecretAfterCommitment ==
  [][\A h \in released' \ released : \E p \in Pay :
       /\ At(p, "ack") /\ lock[att[p].obj] = p
       /\ ObjOf(p).height = h
       /\ ObjOf(p).local = Commitment(h + 1, ObjOf(p).paid)]_vars

\* When nothing runs, the local commitment the wallet would close with is one
\* whose secret it has not given away.
LocalNotRevoked == Quiet => heap[chanMap].local.height \notin released

\* Whatever else failed, the watch tower can punish every remote commitment
\* that a completed attempt left behind.
PastIsWatched ==
  \A p \in Pay : At(p, "done") => heap[att[p].old].remote \in tower

\* The attempts that failed did so before the peer's secret came: a rollback
\* could still undo all they had done.  An abandoned recovery is not undone.
UndoneInTime == \A p \in Pay : At(p, "dead") => att[p].kind # "recover" /\ ~att[p].punish

\* When nothing runs, and whatever was refused, rolled back, recovered or cut
\* off by a restart before: the channel the manager uses is the one on disk,
\* it stands where the peer stands, both commitments are for that height and
\* balance, and the watch tower does not hold the peer's current one.
SettledInStep ==
  Quiet /\ UndoneInTime => LET c == heap[chanMap] IN
    /\ Stored(c) = dbChan
    /\ Commitment(c.height, c.paid) = peer
    /\ c.local = peer /\ c.remote = peer
    /\ c.remote \notin tower

NoneFailed == \A p \in Pay : ~At(p, "dead")

\* A payment whose reservation is past broadcasting is no longer pending in
\* the channel the manager uses, although its own goroutine, the monitor and
\* the next attempt work on the channel at the same time.
EnabledOnceBroadcast ==
  NoneFailed => \A p \in Pay :
    At(p, "done") /\ resv[p] \in {"broadcast", "closed"} =>
      p \notin heap[chanMap].pending

\* Every payment that was committed is closed, and its caller told, unless an
\* attempt that overlaps it fails: HandlePaymentFinished asks for the payment
\* the attempt's object names last, which may be one that was refused.
CommittedIsClosed ==
  \A p \in Pay : At(p, "done") ~> p \notin listed \/ ~NoneFailed

\* The wallet never stands at a greater height than the peer, neither in
\* memory nor on disk: it advances only on the peer's last answer.
NeverAhead ==
  /\ \A o \in 1 .. nobj : heap[o].height <= peer.height
  /\ dbChan.height <= peer.height /\ dbBackup.height <= peer.height

\* Why SecretAfterCommitment and NeverAhead hold: a running attempt has the
\* mutex of its object from its first request to its end (nobody but it and
\* the object's other users can change that object), it verified the next
\* local commitment before it goes on to the secret, and it counts the height
\* up only behind the peer.
MutexHeld(p) == att[p].st \in Active => lock[att[p].obj] = p

SuccessorVerified(p) == At(p, "ack") =>
  ObjOf(p).local = Commitment(ObjOf(p).height + 1, ObjOf(p).paid)

PeerWentFirst(p) == att[p].st \in {"commit", "listed", "saved"} =>
  ObjOf(p).height < peer.height

ExchangeInv ==
  /\ \A p \in Pay : MutexHeld(p) /\ SuccessorVerified(p) /\ PeerWentFirst(p)
  /\ NeverAhead

\* Why EnabledOnceBroadcast holds.  While no attempt failed the map holds the
\* object that every attempt and every handler works on.  An attempt is
\* committed once the peer has advanced, and told once its reservation is.
Committed(p) == att[p].st \in {"commit", "listed", "saved", "done"}
Told(p) == att[p].st \in {"listed", "saved", "done"}

\* A committed payment is part of channel c, unless the peer is ahead of it.
Includes(c, p) == p \in c.paid \/ c.height < peer.height
NotPending(p) == p \notin heap[chanMap].pending \cup dbChan.pending

\* From its first change of the channel on, the payment of an attempt is in it
\* with all that was committed before.
CarriesAll(p) == att[p].st \in Active \ {"req"} =>
  \A q \in Pay : q = p \/ Committed(q) => q \in heap[chanMap].paid

\* A recovery has nothing to recover.
AttemptInStep(p) ==
  /\ att[p].st \in Active \cup {"wait"} => att[p].obj = chanMap
  /\ att[p].kind = "recover" =>
       \/ att[p].st = "idle"
       \/ att[p].st \in {"wait", "req"} /\ att[p].tx \in confirmed
  /\ CarriesAll(p)
  /\ Committed(p) => Includes(heap[chanMap], p) /\ Includes(dbChan, p)

ReservationInStep(p) ==
  /\ {resv[p], dbResv[p]} \subseteq {"none", "started", "broadcast", "closed"}
  /\ ~Told(p) => p \notin listed \cup onL2 /\ resv[p] = "none" /\ dbResv[p] = "none"
  /\ att[p].st \in Active /\ Told(p) => resv[p] = "started"
  /\ {resv[p], dbResv[p]} \cap {"broadcast", "closed"} # {} => NotPending(p)

HandlerInStep(a) ==
  /\ run[a].st # "off" => Told(run[a].pay)
  /\ run[a].st = "lock" => run[a].obj = chanMap
  /\ run[a].st = "mark" => NotPending(run[a].pay) /\ att[run[a].pay].st = "done"

BroadcastInv ==
  NoneFailed =>
    /\ \A p \in Pay : AttemptInStep(p) /\ ReservationInStep(p)
    /\ \A a \in Actors : HandlerInStep(a)
    /\ confirmed \subseteq onL2
    /\ dbChan.height <= heap[chanMap].height

\* Why a caller that starts an attempt only when nothing runs, over storage
\* that does not fail, finds SettledInStep, PastIsWatched, RecoveryReachesMap
\* and ImplementsLedger.  One payment is open at a time; an abandoned recovery
\* stays open until a restart.
Open(p) ==
  \/ att[p].st \in Active \cup {"wait"}
  \/ p \in listed /\ resv[p] \in {"init", "started"}
  \/ \E a \in Actors : run[a].st # "off" /\ run[a].pay = p

OneOpen == \A p, q \in Pay : Open(p) /\ Open(q) => p = q

\* The channel on disk is always whole, and stands where the peer stands
\* unless the peer is ahead.
DiskWhole ==
  /\ dbChan.busy = None
  /\ dbChan.pending \subseteq dbChan.paid
  /\ dbChan.local = Commitment(dbChan.height, dbChan.paid)
  /\ dbChan.remote = Commitment(dbChan.height, dbChan.paid)
  /\ dbChan.height = peer.height => dbChan.paid = peer.paid

\* So is the channel in the map, unless an attempt is changing it or a
\* recovery was abandoned half way.
Touches(p) == \/ att[p].st \in Active \ {"req"}
              \/ p \in listed /\ resv[p] = "init"

MapIsDisk == (\A p \in Pay : ~Touches(p)) => heap[chanMap] = dbChan

\* What an attempt has made of the channel, by its stage.
Change(p) ==
  LET c == ObjOf(p)
      next == Commitment(dbChan.height + 1, c.paid) IN
  att[p].st \in Active \ {"req"} =>
    /\ att[p].tx \notin dbChan.paid
    /\ c.height = dbChan.height
    /\ c.paid = dbChan.paid \cup {att[p].tx}
    /\ c.pending = dbChan.pending \cup {att[p].tx}
    /\ c.remote = next
    /\ ~At(p, "sign") => c.local = next
    /\ IF att[p].st \in {"sign", "ack", "fin"}
         THEN peer = Commitment(dbChan.height, dbChan.paid)
         ELSE peer = next

\* The object an attempt falls back on is the channel on disk.
HasFallBack(p) == att[p].st \in Active /\ ~(At(p, "req") /\ att[p].kind = "recover")

Request(p) ==
  /\ att[p].st \in Active \cup {"wait"} => att[p].obj = chanMap
  /\ IF att[p].kind = "recover"
       THEN att[p].st \in Active \cup {"wait"} => att[p].tx \in confirmed
       ELSE att[p].tx = p
  /\ At(p, "fin") \/ At(p, "listed") \/ At(p, "saved") => att[p].kind # "recover"
  /\ HasFallBack(p) => heap[att[p].old] = dbChan /\ att[p].old # chanMap

\* The commitment an attempt leaves behind is watched before it is done, and
\* is older than the channel's from then on.
PastWatched(p) ==
  /\ att[p].st \in {"fin", "commit", "listed", "saved", "done"} =>
       att[p].punish /\ heap[att[p].old].remote \in tower
  /\ At(p, "ack") /\ att[p].kind # "lock" =>
       att[p].punish /\ heap[att[p].old].remote \in tower
  /\ At(p, "done") =>
       /\ heap[att[p].old].remote.height < dbChan.height
       /\ att[p].old # chanMap
       /\ \A q \in Pay : HasFallBack(q) => att[q].old # att[p].old

\* The tower and the peer differ from the channel on disk only by what a
\* running attempt did, or one that failed too late to be undone.
TowerBehind ==
  /\ \A w \in tower : w.height <= dbChan.height
  /\ UndoneInTime =>
       \/ \A w \in tower : w.height < dbChan.height
       \/ \E p \in Pay : att[p].st \in Active /\ att[p].punish

PeerLevel ==
  UndoneInTime => \/ dbChan.height = peer.height
                  \/ \E p \in Pay : att[p].st \in {"commit", "listed", "saved"}

\* A payment is seen outside only once its attempt is told or has failed.
Seen(p) ==
  /\ p \in dbChan.paid => At(p, "done") \/ At(p, "dead")
  /\ p \in onL2 => Told(p) \/ At(p, "dead")
  /\ p \in listed => att[p].st \notin {"idle", "wait", "req"}
  /\ p \in listed /\ resv[p] = "init" => att[p].kind = "recover"
  /\ att[p].kind = "recover" /\ att[p].st \in Active \ {"req"} =>
       p \in listed /\ resv[p] = "init"
  /\ p \in listed /\ resv[p] = "started" => att[p].kind # "recover" /\ Told(p)

Handles(a) ==
  /\ run[a].st # "off" => att[run[a].pay].kind # "recover" /\ Told(run[a].pay)
  /\ run[a].st = "lock" => run[a].obj = chanMap

SerialInv ==
  /\ OneOpen /\ DiskWhole /\ MapIsDisk /\ TowerBehind /\ PeerLevel
  /\ confirmed \subseteq onL2
  /\ \A p \in Pay : Change(p) /\ Request(p) /\ PastWatched(p) /\ Seen(p)
  /\ \A a \in Actors : Handles(a)

\* A recovery that completes brings the channel the manager uses, and the one
\* on disk, to where the peer stands, with the recovered payment settled.
RecoveryReachesMap ==
  [][\A p \in Pay :
       At(p, "commit") /\ att[p].kind = "recover" /\ att'[p].st = "done" =>
         /\ Stored(heap'[chanMap']) = dbChan'
         /\ Commitment(dbChan'.height, dbChan'.paid) = peer
         /\ dbChan'.local = peer /\ dbChan'.remote = peer
         /\ att[p].tx \in dbChan'.paid \ dbChan'.pending]_vars

\* The channel on disk is a ledger of the payments.
Ledger == INSTANCE ChannelLedger
  WITH Payments <- Pay, height <- dbChan.height, paid <- dbChan.paid,
       open <- dbChan.pending

ImplementsLedger == Ledger!Spec
=============================================================================
