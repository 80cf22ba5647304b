---------------------------- MODULE Rgb11Transfer ----------------------------
(***************************************************************************)
(* Sending RGB11 assets (sdk/wallet/rgb11_manager.go, rgb11_dkvs.go,       *)
(* rgb11_chain_reconciliation.go).                                         *)
(*                                                                         *)
(* An RGB11 asset sits on bitcoin outputs, its carriers.  A transfer       *)
(* selects carriers, reserves them in the UTXO locker, signs one bitcoin   *)
(* transaction that spends them and writes itself into a journal; it is    *)
(* then handed to the recipient, broadcast, and followed on the chain by a *)
(* refresh that moves the journal, the proofs of the carriers and the      *)
(* locks.  Three views have to agree: the journal, the locks and the       *)
(* chain.  API calls hold only the read side of a lock and so overlap; the *)
(* refresh runs beside them, in a background worker or in a call.          *)
(*                                                                         *)
(* A transfer has one recipient and its identity is also that of its       *)
(* transaction, of its reservation and of its change output: the outpoint  *)
(* t is the change of transfer t.  Amounts and fee inputs are left out: a  *)
(* transfer takes any nonempty set of the carriers it may take.            *)
(***************************************************************************)
EXTENDS Naturals, FiniteSets

CONSTANTS
  Transfers,     \* the transfers that may be prepared
  Carriers,      \* confirmed outputs that hold the asset at the start
  Callers,       \* threads that call the wallet's API
  Transport,     \* how the recipient of each transfer is reached
  Faults,        \* what may go wrong: see FaultKinds
  MaxReorg,      \* how often a transaction is dropped from the chain
  MaxRestart,    \* how often the wallet is restarted
  Overlap,       \* whether a cancellation may overlap other calls
  None           \* no transfer

FaultKinds == {"restart", "reorg", "foreign", "refused", "lost", "unnamed"}

ASSUME ConstantsAssumption ==
  /\ Transport \in [Transfers -> {"out-of-band", "address", "relay"}]
  /\ Faults \subseteq FaultKinds
  /\ MaxReorg \in Nat /\ MaxRestart \in Nat /\ Overlap \in BOOLEAN
  /\ Transfers \cap Carriers = {}
  /\ None \notin Transfers \cup Carriers

Outpoints == Carriers \cup Transfers

VARIABLES
  status,        \* journal: the state of each transfer
  inputs,        \* journal: the outpoints its transaction spends
  lock,          \* the UTXO locker: owner, reason, and reason to restore
  proof,         \* the allocation proof of each outpoint
  tx,            \* the chain: where each transaction is
  foreign,       \* the chain: carriers spent by a transaction of another device
  op,            \* what each caller is doing
  refresh,       \* the refresh in progress (RefreshRGB11State)
  worker,        \* the background reconciliation worker runs
  consistency,   \* consistencyStatus
  reorgs, restarts

vars == <<status, inputs, lock, proof, tx, foreign, op, refresh, worker,
          consistency, reorgs, restarts>>
chain == <<tx, foreign, reorgs>>
journal == <<status, inputs>>

Statuses == {"none", "prepared", "delivered", "relayed", "broadcast", "pending",
             "settled", "conflicted", "rejected"}
Reasons == {"none", "rgb", "pending"}
Locks == [owner : Transfers \cup {None}, reason : Reasons, prev : Reasons]
Proofs == {"none", "valid", "settled", "spending", "inconsistent"}

Unlocked == [owner |-> None, reason |-> "none", prev |-> "none"]
(* What a caller or the refresh does; fields a step does not need are at
   their idle values. *)
Idle == [kind |-> "idle", t |-> None, at |-> "none", ins |-> {},
         read |-> [t \in Transfers |-> "none"]]
Kinds == {"idle", "prepare", "deliver", "broadcast", "cancel"}
Ops == [kind : Kinds, t : Transfers \cup {None},
        at : {"none", "reserve", "change", "save", "send", "release", "read", "rebuild"},
        ins : SUBSET Outpoints, read : [Transfers -> Statuses]]
NoRefresh == [at |-> "none", by |-> "api", cur |-> None, got |-> "none", todo |-> {},
              expected |-> {}, conflicted |-> {}, unsure |-> FALSE]
Refreshes == [at : {"none", "transfers", "transfer"}, by : {"api", "worker"},
              cur : Transfers \cup {None}, got : Statuses, todo : SUBSET Transfers,
              expected : SUBSET Outpoints, conflicted : SUBSET Outpoints, unsure : BOOLEAN]

(* Mutant: a transfer handed over, and not yet broadcast, is forgotten. *)
KeepsInputsUnlessDelivered == {"prepared", "broadcast", "pending", "settled"}
(* rgb11TransferKeepsInputsLocked *)
KeepsInputsLocked == {"prepared", "delivered", "broadcast", "pending", "settled"}
Live(st) == {t \in Transfers : st[t] \in KeepsInputsLocked}

(***************************************************************************)
(* The chain, as the indexer tells it.                                     *)
(***************************************************************************)
Visible(t) == tx[t] # "unknown"
Exists(o) == o \in Carriers \cup {t \in Transfers : Visible(t)}
Confirmed(o) == o \in Carriers \cup {t \in Transfers : tx[t] = "confirmed"}
Spenders(o) == {t \in Transfers : Visible(t) /\ o \in inputs[t]}
Spent(o) == o \in foreign \/ Spenders(o) # {}

(* GetUTXO answers only for an output that exists and is unspent. *)
Unspent(o) == Exists(o) /\ ~Spent(o)

TypeOK ==
  /\ status \in [Transfers -> Statuses]
  /\ inputs \in [Transfers -> SUBSET Outpoints]
  /\ lock \in [Outpoints -> Locks]
  /\ proof \in [Outpoints -> Proofs]
  /\ tx \in [Transfers -> {"unknown", "mempool", "confirmed"}]
  /\ foreign \subseteq Carriers
  /\ op \in [Callers -> Ops]
  /\ \A c \in Callers : op[c].kind # "idle" => op[c].t # None
  /\ refresh \in Refreshes
  /\ refresh.at = "transfer" => refresh.cur # None
  /\ worker \in BOOLEAN
  /\ consistency \in {"ok", "warning", "broken"}
  /\ reorgs \in 0..MaxReorg /\ restarts \in 0..MaxRestart

Init ==
  /\ status = [t \in Transfers |-> "none"]
  /\ inputs = [t \in Transfers |-> {}]
  /\ lock = [o \in Outpoints |->
               IF o \in Carriers THEN [Unlocked EXCEPT !.reason = "rgb"] ELSE Unlocked]
  /\ proof = [o \in Outpoints |-> IF o \in Carriers THEN "settled" ELSE "none"]
  /\ tx = [t \in Transfers |-> "unknown"]
  /\ foreign = {}
  /\ op = [c \in Callers |-> Idle]
  /\ refresh = NoRefresh
  /\ worker = FALSE
  /\ consistency = "ok"
  /\ reorgs = 0 /\ restarts = 0

(***************************************************************************)
(* The UTXO locker, as the transfers use it; one call is atomic.           *)
(***************************************************************************)
SetLockReason(l, S, r) == [o \in Outpoints |-> IF o \in S THEN [l[o] EXCEPT !.reason = r] ELSE l[o]]

(* Mutant: the reason alone decides, whoever owns the lock. *)
ReservableByReason(o, t, claimable) ==
  lock[o] = Unlocked \/ lock[o].owner = t \/ lock[o].reason \in claimable
(* TryReserve: all or nothing; an owned lock is refused, an unowned one is
   taken only for a claimable reason. *)
Reservable(o, t, claimable) ==
  \/ lock[o] = Unlocked
  \/ lock[o].owner = t
  \/ lock[o].owner = None /\ lock[o].reason \in claimable
Reserve(l, S, t) ==
  [o \in Outpoints |->
     IF o \notin S THEN l[o]
     ELSE [owner |-> t, reason |-> "pending",
           prev |-> IF l[o].owner = t THEN l[o].prev ELSE l[o].reason]]

(* ReleaseReservation: refused as a whole when one of the locks is not the
   operation's own; a claimed lock gets its earlier reason back. *)
Releasable(S, t) == \A o \in S : lock[o] = Unlocked \/ lock[o].owner = t
Release(l, S) ==
  [o \in Outpoints |-> IF o \in S /\ l[o].owner # None
                       THEN [Unlocked EXCEPT !.reason = l[o].prev] ELSE l[o]]

(* EnsureReservation: adopts what is free, or locked for the reason that the
   journal expects. *)
Adoptable(l, t, S) ==
  \A o \in S : \/ l[o].owner = t
               \/ /\ l[o].owner = None
                  /\ \/ l[o].reason \in {"none", "pending"}
                     \/ l[o].reason = "rgb" /\ o \in inputs[t] /\ proof[o] # "none"
Adopt(l, t, S) ==
  [o \in Outpoints |->
     IF o \notin S THEN l[o]
     ELSE [owner |-> t, reason |-> "pending",
           prev |-> IF o \in inputs[t] /\ proof[o] # "none" THEN "rgb" ELSE "none"]]

(* FinalizeReservation of the change of t. *)
Finalizable(l, t) == l[t].owner \in {t, None}
Finalize(l, t) == [l EXCEPT ![t] = [Unlocked EXCEPT !.reason = "rgb"]]

(***************************************************************************)
(* rebuildRGB11Locks: the owners are reconstructed from a reading of the   *)
(* journal, what no live transfer owns is released, and the reasons are    *)
(* set.  It fails when an outpoint has another owner than the journal      *)
(* says, or at a carrier that is inconsistent; what it did before is kept. *)
(***************************************************************************)
Group(read, t) == inputs[t] \cup (IF read[t] = "settled" THEN {} ELSE {t})

GroupFails(read, t) ==
  \/ ~Adoptable(lock, t, Group(read, t))
  \/ read[t] = "settled" /\ ~Finalizable(lock, t)
(* whichever of the two groups comes second finds the other's owner *)
Clash(t, u) == t # u /\ (inputs[t] \cup {t}) \cap inputs[u] # {}
Agree(G) == \A t, u \in G : ~Clash(t, u)

AdoptAll(read, G) ==
  [o \in Outpoints |->
     IF \E t \in G : o \in Group(read, t)
     THEN LET t == CHOOSE t \in G : o \in Group(read, t)
          IN  Adopt(lock, t, Group(read, t))[o]
     ELSE IF o \in G THEN Finalize(lock, o)[o] ELSE lock[o]]

Stale(l, read) ==
  {o \in Outpoints : /\ l[o].owner # None
                     /\ ~(l[o].owner \in Live(read) /\ o \in Group(read, l[o].owner))}
Reconciled(read) == LET l == AdoptAll(read, Live(read)) IN Release(l, Stale(l, read))

SpentBy(S) == UNION {inputs[t] : t \in S}
CarrierReason(o, read) ==
  IF proof[o] = "inconsistent" \/ (proof[o] = "settled" /\ o \notin SpentBy(Live(read)))
  THEN "rgb" ELSE "pending"

RebuildLocks(read) ==
  LET failing == {t \in Live(read) : GroupFails(read, t)}
      base == SetLockReason(Reconciled(read), SpentBy(Live(read)) \cup Live(read), "pending")
      known == {o \in Outpoints : proof[o] # "none"}
      bad == {o \in known : proof[o] = "inconsistent"}
      Set(S) == [o \in Outpoints |->
                   IF o \in S THEN [base[o] EXCEPT !.reason = CarrierReason(o, read)]
                   ELSE base[o]]
  IN  IF failing = {} /\ Agree(Live(read))
      THEN IF bad = {} THEN lock' = Set(known) /\ consistency' = "ok"
           ELSE /\ \E o \in bad : \E S \in SUBSET (known \ bad) : lock' = Set(S \cup {o})
                /\ consistency' = "broken"
      ELSE /\ \E G \in SUBSET (Live(read) \ failing) : Agree(G) /\ lock' = AdoptAll(read, G)
           /\ consistency' = "broken"

(* Mutant: a transfer in the mempool is taken for done. *)
HasBroadcast(st) == \E t \in Transfers : st[t] = "broadcast"
HasPending(st) == \E t \in Transfers : st[t] \in {"broadcast", "pending"}

(* The wallet is closed or crashes, and is opened and unlocked again. *)
Restart ==
  /\ "restart" \in Faults /\ restarts < MaxRestart
  /\ restarts' = restarts + 1
  /\ op' = [c \in Callers |-> Idle]
  /\ refresh' = NoRefresh
  /\ RebuildLocks(status)
  /\ worker' = HasPending(status)
  /\ UNCHANGED <<journal, proof, tx, foreign, reorgs>>

(***************************************************************************)
(* PrepareRGB11Transfer.  Selection reads the proofs and the locks and     *)
(* takes no lock; the reservation that follows decides.                    *)
(***************************************************************************)
Begin(c, kind, t, at, ins) ==
  /\ op[c].kind = "idle"
  /\ \/ Overlap
     \/ \A d \in Callers : op[d].kind \in (IF kind = "cancel" THEN {"idle"} ELSE Kinds \ {"cancel"})
  /\ op' = [op EXCEPT ![c] = [Idle EXCEPT !.kind = kind, !.t = t, !.at = at, !.ins = ins]]
End(c) == op' = [op EXCEPT ![c] = Idle]
At(c, kind, at) == op[c].kind = kind /\ op[c].at = at
Goes(c, at) == op' = [op EXCEPT ![c].at = at]

Selectable(o) == proof[o] \in {"valid", "settled"} /\ lock[o].reason # "pending" /\ Unspent(o)

PrepareSelects(c, t) ==
  /\ status[t] = "none" /\ \A d \in Callers : op[d].kind # "idle" => op[d].t # t
  /\ \E S \in SUBSET {o \in Outpoints : Selectable(o)} :
       S # {} /\ Begin(c, "prepare", t, "reserve", S)
  /\ UNCHANGED <<journal, lock, proof, chain, refresh, worker, consistency, restarts>>

PrepareReserves(c) ==
  /\ At(c, "prepare", "reserve")
  /\ IF \A o \in op[c].ins : Reservable(o, op[c].t, {"rgb"})
     THEN lock' = Reserve(lock, op[c].ins, op[c].t) /\ Goes(c, "change")
     ELSE End(c) /\ UNCHANGED lock
  /\ UNCHANGED <<journal, proof, chain, refresh, worker, consistency, restarts>>

(* Mutant: only the inputs are reserved. *)
PrepareSkipsChange(c) ==
  /\ At(c, "prepare", "change")
  /\ Goes(c, "save")
  /\ UNCHANGED <<journal, lock, proof, chain, refresh, worker, consistency, restarts>>
(* The transaction is signed, and its change output is reserved as well. *)
PrepareReservesChange(c) ==
  /\ At(c, "prepare", "change")
  /\ LET t == op[c].t IN Reservable(t, t, {}) /\ lock' = Reserve(lock, {t}, t)
  /\ Goes(c, "save")
  /\ UNCHANGED <<journal, proof, chain, refresh, worker, consistency, restarts>>

PrepareSaves(c) ==
  /\ At(c, "prepare", "save")
  /\ status' = [status EXCEPT ![op[c].t] = "prepared"]
  /\ inputs' = [inputs EXCEPT ![op[c].t] = op[c].ins]
  /\ End(c)
  /\ UNCHANGED <<lock, proof, chain, refresh, worker, consistency, restarts>>

(* Signing or writing failed: the deferred release, whose error is dropped. *)
PrepareFails(c) ==
  /\ "refused" \in Faults /\ (At(c, "prepare", "change") \/ At(c, "prepare", "save"))
  /\ LET S == op[c].ins \cup (IF op[c].at = "save" THEN {op[c].t} ELSE {}) IN
       lock' = IF Releasable(S, op[c].t) THEN Release(lock, S) ELSE lock
  /\ End(c)
  /\ UNCHANGED <<journal, proof, chain, refresh, worker, consistency, restarts>>

(***************************************************************************)
(* Handing the transfer to its recipient: the journal entry is loaded, the *)
(* consignment is put in the DKVS store or posted to the proxy, and the    *)
(* loaded entry is written back with its new status.                       *)
(***************************************************************************)
Deliverable(t) ==
  CASE Transport[t] = "address" -> {"prepared", "delivered"}
    [] Transport[t] = "relay"   -> Statuses \ {"none", "rejected"}
    [] OTHER                    -> {}

DeliverLoads(c, t) ==
  /\ status[t] \in Deliverable(t)
  /\ Begin(c, "deliver", t, "save", {})
  /\ UNCHANGED <<journal, lock, proof, chain, refresh, worker, consistency, restarts>>

DeliverSaves(c) ==
  /\ At(c, "deliver", "save")
  /\ status' = [status EXCEPT ![op[c].t] =
                  IF Transport[op[c].t] = "address" THEN "delivered" ELSE "relayed"]
  /\ End(c)
  /\ UNCHANGED <<inputs, lock, proof, chain, refresh, worker, consistency, restarts>>

(* The call ends in an error before it writes: whatever it does on the
   network may have happened. *)
CallFails(c) ==
  /\ "refused" \in Faults
  /\ \/ At(c, "deliver", "save") \/ At(c, "broadcast", "send") \/ At(c, "cancel", "save")
  /\ End(c)
  /\ UNCHANGED <<journal, lock, proof, chain, refresh, worker, consistency, restarts>>

(***************************************************************************)
(* BroadcastRGB11AddressTransfer, BroadcastRGB11OutOfBand,                 *)
(* BroadcastRGB11Batch.  A node accepts the transaction when its inputs    *)
(* are there and unspent; of one it has already it says so, as a success   *)
(* or as an error.                                                         *)
(***************************************************************************)
Broadcastable(t) ==
  CASE Transport[t] = "address"     -> {"delivered"}
    [] Transport[t] = "out-of-band" -> Statuses \ {"none", "rejected"}
    [] OTHER                        -> Statuses \ {"none", "prepared", "rejected"}

BroadcastLoads(c, t) ==
  /\ status[t] \in Broadcastable(t)
  /\ Begin(c, "broadcast", t, "send", {})
  /\ UNCHANGED <<journal, lock, proof, chain, refresh, worker, consistency, restarts>>

Acceptable(t) == \A o \in inputs[t] : Exists(o) /\ o \notin foreign /\ Spenders(o) \subseteq {t}

BroadcastSends(c) ==
  /\ At(c, "broadcast", "send")
  /\ LET t == op[c].t IN
       IF Acceptable(t)
       THEN /\ tx' = [tx EXCEPT ![t] = IF Visible(t) THEN tx[t] ELSE "mempool"]
            /\ \/ Goes(c, "save")
               \/ ("lost" \in Faults \/ Visible(t)) /\ End(c)
       ELSE End(c) /\ UNCHANGED tx
  /\ UNCHANGED <<journal, lock, proof, foreign, reorgs, refresh, worker, consistency, restarts>>

BroadcastSaves(c) ==
  /\ At(c, "broadcast", "save")
  /\ status' = [status EXCEPT ![op[c].t] = "broadcast"]
  /\ End(c)
  /\ UNCHANGED <<inputs, lock, proof, chain, refresh, worker, consistency, restarts>>

(***************************************************************************)
(* CancelRGB11OutOfBandTransfer, which asks the chain first, and           *)
(* CancelRGB11BatchByNack, which has the recipient's signed refusal; both  *)
(* end in cancelRGB11PendingBatch.                                         *)
(***************************************************************************)
Cancellable(t) ==
  CASE Transport[t] = "out-of-band" -> IF Visible(t) THEN {} ELSE {"prepared"}
    [] Transport[t] = "relay"       -> Statuses \ {"none", "prepared"}
    [] OTHER                        -> {}

CancelLoads(c, t) ==
  /\ status[t] \in Cancellable(t)
  /\ Begin(c, "cancel", t, "save", {})
  /\ UNCHANGED <<journal, lock, proof, chain, refresh, worker, consistency, restarts>>

CancelSaves(c) ==
  /\ At(c, "cancel", "save")
  /\ status' = [status EXCEPT ![op[c].t] = "rejected"]
  /\ Goes(c, "release")
  /\ UNCHANGED <<inputs, lock, proof, chain, refresh, worker, consistency, restarts>>

CancelReleases(c) ==
  /\ At(c, "cancel", "release")
  /\ LET t == op[c].t  S == inputs[t] \cup {t} IN
       /\ lock' = IF Releasable(S, t) THEN Release(lock, S) ELSE lock
       /\ IF Releasable(S, t) /\ status[t] = "rejected" THEN Goes(c, "read") ELSE End(c)
  /\ UNCHANGED <<journal, proof, chain, refresh, worker, consistency, restarts>>

CancelReads(c) ==
  /\ At(c, "cancel", "read")
  /\ op' = [op EXCEPT ![c].at = "rebuild", ![c].read = status]
  /\ UNCHANGED <<journal, lock, proof, chain, refresh, worker, consistency, restarts>>

CancelRebuilds(c) ==
  /\ At(c, "cancel", "rebuild")
  /\ RebuildLocks(op[c].read)
  /\ End(c)
  /\ UNCHANGED <<journal, proof, chain, refresh, worker, restarts>>

(***************************************************************************)
(* RefreshRGB11State, under a mutex of its own; the background worker and  *)
(* the API call it.  It goes through the transfers of a listing, then      *)
(* through the proofs.                                                     *)
(***************************************************************************)
(* Mutant: the step the refresh is at is not reset. *)
EndRefreshInPlace(error, st) ==
  /\ refresh' = [NoRefresh EXCEPT !.at = refresh.at]
  /\ worker' = IF refresh.by = "worker"
               THEN error # "inconsistent" /\ (error # "none" \/ HasPending(st)) ELSE worker
EndRefresh(error, st) ==
  /\ refresh' = NoRefresh
  /\ worker' = IF refresh.by = "worker"
               THEN error # "inconsistent" /\ (error # "none" \/ HasPending(st)) ELSE worker

RefreshBegins(by) ==
  /\ refresh.at = "none"
  /\ by = "worker" => worker
  /\ IF \E t, u \in Live(status) : t # u /\ inputs[t] \cap inputs[u] # {}
     THEN /\ consistency' = "broken"
          /\ worker' = (worker /\ by # "worker")
          /\ UNCHANGED refresh
     ELSE /\ refresh' = [NoRefresh EXCEPT
                         !.at = "transfers", !.by = by,
                         !.todo = {t \in Transfers : status[t] \in {"broadcast", "pending", "settled"}},
                         !.expected = SpentBy(Live(status))]
          /\ UNCHANGED <<consistency, worker>>
  /\ UNCHANGED <<journal, lock, proof, chain, op, restarts>>

RefreshLoads(t) ==
  /\ refresh.at = "transfers" /\ t \in refresh.todo
  /\ IF status[t] \in KeepsInputsLocked
     THEN /\ refresh' = [refresh EXCEPT !.at = "transfer", !.cur = t, !.got = status[t], !.todo = @ \ {t}]
          /\ UNCHANGED <<consistency, worker>>
     ELSE consistency' = "broken" /\ EndRefresh("inconsistent", status)
  /\ UNCHANGED <<journal, lock, proof, chain, op, restarts>>

Writes(t, s) == status' = [status EXCEPT ![t] = s]
Followed(r) == [r EXCEPT !.at = "transfers", !.cur = None, !.got = "none"]
NextTransfer == refresh' = Followed(refresh) /\ UNCHANGED worker

(* applyRGB11LocalChange: the change becomes a carrier, the inputs are being
   spent; the entry is written back, and a settled change is given free. *)
RefreshApplies ==
  LET t == refresh.cur
      final == Confirmed(t)
      spending == {o \in inputs[t] : proof[o] \notin {"none", "spending"}}
      reasons == SetLockReason(SetLockReason(lock, {t}, IF final THEN "rgb" ELSE "pending"),
                               spending, "pending")
  IN  /\ refresh.at = "transfer" /\ Visible(t) /\ Unspent(t)
      /\ proof' = [o \in Outpoints |-> IF o = t THEN (IF final THEN "settled" ELSE "valid")
                                       ELSE IF o \in spending THEN "spending" ELSE proof[o]]
      /\ Writes(t, IF final THEN "settled" ELSE "pending")
      /\ IF final /\ Finalizable(lock, t)
         THEN lock' = Finalize(reasons, t) /\ NextTransfer
         ELSE /\ lock' = reasons
              /\ IF final THEN EndRefresh("owner", status') ELSE NextTransfer
      /\ UNCHANGED <<inputs, chain, op, consistency, restarts>>

(* The change cannot be read, because it is spent already (or the indexer
   fails): the transfer is put back to pending. *)
PutBack ==
  /\ refresh.at = "transfer" /\ Visible(refresh.cur)
  /\ Writes(refresh.cur, "pending") /\ NextTransfer
  /\ UNCHANGED <<inputs, lock, proof, chain, op, consistency, restarts>>
RefreshCannotApply == PutBack /\ Spent(refresh.cur)

(* The transaction is gone and another one has an input of it.  A spender may
   have no name; when none has, the transfer is left as it was loaded. *)
RefreshConflicts ==
  LET t == refresh.cur
      spent == {o \in inputs[t] : Spent(o)}
  IN  /\ refresh.at = "transfer" /\ ~Visible(t) /\ \A o \in inputs[t] : Exists(o)
      /\ spent # {}
      /\ \E named \in IF "unnamed" \in Faults THEN SUBSET spent ELSE {spent} :
           LET next == [Followed(refresh) EXCEPT !.conflicted = @ \cup named,
                                                 !.unsure = @ \/ named # spent]
           IN  \/ /\ named = {}
                  /\ Writes(t, refresh.got)
                  /\ refresh' = next
                  /\ UNCHANGED <<lock, worker>>
               \/ /\ named # {}
                  /\ Writes(t, "conflicted")
                  /\ IF Releasable(inputs[t] \cup {t}, t)
                     THEN /\ lock' = Release(lock, inputs[t] \cup {t})
                          /\ refresh' = next
                          /\ UNCHANGED worker
                     ELSE UNCHANGED lock /\ EndRefresh("owner", status')
      /\ UNCHANGED <<inputs, proof, chain, op, consistency, restarts>>

(* rollbackRGB11LocalChange: the transaction is gone and its inputs are
   unspent.  The reason follows the confirmations of the carrier. *)
RefreshRollsBack ==
  LET t == refresh.cur
      back == {o \in inputs[t] : proof[o] = "spending"}
      gone == {o \in back : ~Confirmed(o)}
  IN  /\ refresh.at = "transfer" /\ ~Visible(t)
      /\ \A o \in inputs[t] : Exists(o) /\ ~Spent(o)
      /\ IF refresh.got \in {"settled", "pending"}
         THEN /\ proof' = [o \in Outpoints |->
                             IF o = t THEN "none"
                             ELSE IF o \in back THEN (IF o \in gone THEN "valid" ELSE "settled")
                             ELSE proof[o]]
              /\ lock' = SetLockReason(SetLockReason(lock, back \ gone, "rgb"), gone, "pending")
              /\ Writes(t, "broadcast")
         ELSE Writes(t, refresh.got) /\ UNCHANGED <<proof, lock>>
      /\ NextTransfer
      /\ UNCHANGED <<inputs, chain, op, consistency, restarts>>

(* An input does not exist any more, so nothing tells what became of the
   transfer; or the indexer does not answer. *)
Stop == EndRefresh("evidence", status) /\ UNCHANGED <<journal, lock, proof, chain, op, consistency, restarts>>
RefreshFails ==
  /\ refresh.at = "transfer" /\ ~Visible(refresh.cur)
  /\ \E o \in inputs[refresh.cur] : ~Exists(o)
  /\ Stop
IndexerFails ==
  /\ "refused" \in Faults /\ refresh.at # "none"
  /\ PutBack \/ Stop

(***************************************************************************)
(* The second part of the refresh: each proof gets the status that the     *)
(* chain and the listing of live transfers give it.  It stops at a carrier *)
(* the indexer does not know.                                              *)
(***************************************************************************)
Expected(o) == o \in refresh.expected
Unknown(o) == o \notin refresh.conflicted /\ ~(Expected(o) /\ proof[o] = "spending") /\ ~Exists(o)
ProofStatus(o) ==
  CASE o \in refresh.conflicted               -> "inconsistent"
    [] Expected(o) /\ proof[o] = "spending"   -> "spending"
    [] Spent(o)                               -> IF Expected(o) THEN "spending" ELSE "inconsistent"
    [] Confirmed(o)                           -> "settled"
    [] OTHER                                  -> "valid"
ProofReason(o) == IF ProofStatus(o) \in {"inconsistent", "settled"} THEN "rgb" ELSE "pending"

RefreshProofs ==
  LET known == {o \in Outpoints : proof[o] # "none"}
      lost == {o \in known : Unknown(o)}
      bad == refresh.conflicted \cup {o \in known \ lost : ProofStatus(o) = "inconsistent"}
      Sets(S) == /\ proof' = [o \in Outpoints |-> IF o \in S THEN ProofStatus(o) ELSE proof[o]]
                 /\ lock' = [o \in Outpoints |->
                               IF o \in S THEN [lock[o] EXCEPT !.reason = ProofReason(o)] ELSE lock[o]]
  IN  /\ refresh.at = "transfers" /\ refresh.todo = {}
      /\ IF lost # {}
         THEN /\ \E S \in SUBSET (known \ lost) : Sets(S)
              /\ EndRefresh("evidence", status) /\ UNCHANGED consistency
         ELSE /\ Sets(known)
              /\ consistency' = IF bad # {} THEN "broken" ELSE IF refresh.unsure THEN "warning" ELSE "ok"
              /\ EndRefresh(IF bad # {} THEN "inconsistent" ELSE "none", status)
      /\ UNCHANGED <<journal, chain, op, restarts>>

(***************************************************************************)
(* The chain.                                                              *)
(***************************************************************************)
Confirm(t) ==
  /\ tx[t] = "mempool" /\ \A o \in inputs[t] : Confirmed(o)
  /\ tx' = [tx EXCEPT ![t] = "confirmed"]
  /\ UNCHANGED <<journal, lock, proof, foreign, reorgs, op, refresh, worker, consistency, restarts>>

(* A transaction falls out of the mempool, or out of a block that is
   reorganised; those that spend its output have gone before. *)
Drop(t) ==
  /\ "reorg" \in Faults /\ reorgs < MaxReorg /\ Visible(t) /\ ~Spent(t)
  /\ tx' = [tx EXCEPT ![t] = "unknown"]
  /\ reorgs' = reorgs + 1
  /\ UNCHANGED <<journal, lock, proof, foreign, op, refresh, worker, consistency, restarts>>

(* Another device of the same account spends a carrier. *)
ForeignSpend(o) ==
  /\ "foreign" \in Faults /\ ~Spent(o)
  /\ foreign' = foreign \cup {o}
  /\ UNCHANGED <<journal, lock, proof, tx, reorgs, op, refresh, worker, consistency, restarts>>

(***************************************************************************)
(* The specification.                                                      *)
(***************************************************************************)
Call(c) ==
  \/ \E t \in Transfers : PrepareSelects(c, t) \/ DeliverLoads(c, t) \/ BroadcastLoads(c, t) \/ CancelLoads(c, t)
  \/ PrepareReserves(c) \/ PrepareReservesChange(c) \/ PrepareSaves(c) \/ PrepareFails(c)
  \/ DeliverSaves(c) \/ BroadcastSends(c) \/ BroadcastSaves(c) \/ CallFails(c)
  \/ CancelSaves(c) \/ CancelReleases(c) \/ CancelReads(c) \/ CancelRebuilds(c)

RefreshStep ==
  \/ \E t \in Transfers : RefreshLoads(t)
  \/ RefreshApplies \/ RefreshCannotApply \/ RefreshConflicts \/ RefreshRollsBack
  \/ RefreshFails \/ RefreshProofs

Chain == (\E t \in Transfers : Confirm(t) \/ Drop(t)) \/ (\E o \in Carriers : ForeignSpend(o))

Next ==
  \/ \E c \in Callers : Call(c)
  \/ \E by \in {"worker", "api"} : RefreshBegins(by)
  \/ RefreshStep \/ IndexerFails
  \/ Chain
  \/ Restart

Spec == Init /\ [][Next]_vars

Reconciling == RefreshBegins("worker") \/ RefreshStep

(* The worker's loop goes on by itself: after each refresh it waits and
   starts the next (runRGB11ChainReconciliation).  Nothing makes a user call
   or the chain move. *)
FairSpec == Spec /\ WF_vars(RefreshBegins("worker")) /\ WF_vars(RefreshStep)

(***************************************************************************)
(* Properties.                                                             *)
(***************************************************************************)

(* A live transfer whose transaction the chain can still take. *)
Viable == {t \in Live(status) : inputs[t] \cap foreign = {}}

(* No carrier is an input of two transfers that can both be broadcast: the
   first would make the other a double spend, and from then on every refresh
   and every rebuild refuses to run (rgb11ExpectedInputs). *)
SoleSpender ==
  \A t, u \in Viable : t # u => inputs[t] \cap inputs[u] = {}

(* The locks agree with the journal: the inputs of a transfer that can still
   be broadcast are held for it, through crashes, refreshes and rollbacks. *)
HeldWhileLive ==
  \A t \in Viable : \A o \in inputs[t] : lock[o].owner = t

(* The change of such a transfer is locked, by reservation or by reason:
   plain bitcoin selection must not spend the output that carries the rest
   of the asset.  Only a transfer that was built on this change and given up
   may leave it unlocked: the rebuild that adopted the change for it notes no
   reason to restore when the proof is rolled back at that moment. *)
ChangeIsLocked ==
  \A t \in Viable :
    lock[t].reason # "none" \/ \E u \in Transfers \ Viable : t \in inputs[u]

(* When nothing but the worker acts any more, each transfer that it follows
   and the chain has confirmed gets settled, unless its change is spent; the
   worker does not stop before, whatever happened on the way. *)
Reconciles ==
  <>[][Reconciling]_vars =>
  \A t \in Transfers :
    worker /\ status[t] \in {"broadcast", "pending"} ~>
      status[t] = "settled" \/ ~Confirmed(t) \/ Spent(t) \/ consistency = "broken"

(* "reconcileRGB11Reservations reconstructs operation ownership from persisted
   pending transfers and receive reservations, then removes owner tokens that
   no longer correspond to an active operation" (rgb11_manager.go:326).  It
   does not when a settled transfer's change is an input of the next one: it
   fails there, and so does each later start. *)
RestartRestores ==
  [][restarts' # restarts /\ consistency # "broken" => consistency' # "broken"]_vars
=============================================================================
