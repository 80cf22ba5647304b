------------------------------ MODULE UtxoLocker ------------------------------
(***************************************************************************)
(* The lock table of sdk/wallet/utxolocker.go.  Every context of the       *)
(* wallet (the extension's background page and its worker, or one native   *)
(* process) keeps a copy of the locks in memory; all contexts share one    *)
(* key-value store, which also holds a marker: the millisecond of the last *)
(* change.  A context reloads its copy when the marker differs from the    *)
(* one it saw last.  A call holds the mutex of its own context from its    *)
(* first read to its last write, so a context has one call in progress at  *)
(* most, but nothing excludes the calls of the other contexts: every store *)
(* access of the extension build awaits a promise.                         *)
(***************************************************************************)
EXTENDS Integers

CONSTANTS
    Contexts,       \* the processes or extension contexts sharing the store
    Utxos,          \* outpoints
    Owners,         \* reservation IDs, one per RGB11 operation
    MaxTime,        \* bound on the millisecond clock
    SplitBatch,     \* the extension's batch: one set(), then one remove()
    Faults          \* how a write may fail:
                    \*   "reported"  the caller gets the error and returns
                    \*   "ignored"   of a delete or of the marker, whose error
                    \*               the callers drop
                    \*   "silent"    the extension's set() and remove() never
                    \*               report a failure

None == "none"   \* the empty string of an unset field

ASSUME OwnersAssumption == None \notin Owners
ASSUME MaxTimeAssumption == MaxTime \in Nat \ {0}
ASSUME StorageAssumption ==
    SplitBatch \in BOOLEAN /\ Faults \subseteq {"reported", "ignored", "silent"}

Rgb         == "rgb"           \* carrier of a settled RGB11 allocation
Pending     == "pending-rgb"   \* carrier in use by an RGB11 operation
Broadcasted == "broadcasted"   \* input of a transaction the wallet sent
Reasons     == {Rgb, Pending, Broadcasted}

\* A LockedUtxo record, and the absence of one.
Lock   == [reason : Reasons, owner : Owners \cup {None}, prev : Reasons \cup {None}]
NoLock == [reason |-> None, owner |-> None, prev |-> None]
Slot   == Lock \cup {NoLock}
Table  == [Utxos -> Slot]
Empty  == [u \in Utxos |-> NoLock]
Time   == 0 .. MaxTime

VARIABLES
    store,        \* the lock records in the key-value store
    marker,       \* the last change time in the store, 0 when absent
    clock,        \* the wall clock, in milliseconds
    lockmap,      \* per context: its copy of the lock records
    refreshTime,  \* per context: the marker its copy belongs to
    job,          \* per context: the writes its call still has to make
    granted       \* per reservation: the outpoints it was told it owns

vars == <<store, marker, clock, lockmap, refreshTime, job, granted>>

\* What a call that has decided still has to write.  "batch" calls write all
\* records and the marker, then remove, then update the copy; "direct" calls
\* write record after record, then the marker.
NoJob == [stage |-> "idle", puts |-> Empty, dels |-> {}, by |-> None, time |-> 0]
Job   == [stage : {"idle", "batch", "remove", "direct"}, puts : Table,
          dels : SUBSET Utxos, by : Owners \cup {None}, time : Time]

Locked(l)      == l.reason # None
OwnedBy(l, o)  == Locked(l) /\ l.owner = o
Idle(c)        == job[c].stage = "idle"
Puts(c)        == {u \in Utxos : Locked(job[c].puts[u])}
Apply(t, j)    == [u \in Utxos |-> IF u \in j.dels THEN NoLock
                                   ELSE IF Locked(j.puts[u]) THEN j.puts[u]
                                   ELSE t[u]]

\* reload(): the copy is kept when the marker is the one it was read with.
Fresh(c) == marker # 0 /\ marker = refreshTime[c]
View(c)  == IF Fresh(c) THEN lockmap[c] ELSE store

Reload(c) ==
    /\ lockmap' = [lockmap EXCEPT ![c] = View(c)]
    /\ refreshTime' = [refreshTime EXCEPT ![c] = marker]

Init ==
    /\ store = Empty
    /\ marker = 0
    /\ clock = 1
    /\ lockmap = [c \in Contexts |-> Empty]
    /\ refreshTime = [c \in Contexts |-> 0]
    /\ job = [c \in Contexts |-> NoJob]
    /\ granted = [o \in Owners |-> {}]

\* The caller gives up S, or the outpoints are unlocked under every owner.
Forfeit(o, S) == granted' = [granted EXCEPT ![o] = @ \ S]
ForfeitAll(S) == granted' = [o \in Owners |-> granted[o] \ S]

Start(c, stage, puts, dels, by) ==
    job' = [job EXCEPT ![c] = [stage |-> stage, puts |-> puts, dels |-> dels,
                               by |-> by, time |-> 0]]

\* The records of t for the outpoints of S, and nothing elsewhere.
PutFor(S, t) == [u \in Utxos |-> IF u \in S THEN t[u] ELSE NoLock]

\* The record each call leaves in place of the record l.
Plain(reason)        == [reason |-> reason, owner |-> None, prev |-> None]
Reserved(l, o)       == IF OwnedBy(l, o) THEN [l EXCEPT !.reason = Pending]
                        ELSE [reason |-> Pending, owner |-> o, prev |-> l.reason]
Adopted(o, previous) == [reason |-> Pending, owner |-> o, prev |-> previous]
Relabelled(l, reason) == [l EXCEPT !.reason = reason]
-----------------------------------------------------------------------------
(* Calls that reload first and write in one batch.                         *)

\* Reload, GetLockedUtxoList, CheckUtxos, and every call that is refused.
ReloadOnly(c) ==
    /\ Idle(c)
    /\ Reload(c)
    /\ UNCHANGED <<store, marker, clock, job, granted>>

TryReserve(c, S, o, claimable) ==
    LET L == View(c) IN
    /\ Idle(c)
    /\ \A u \in S : \/ ~Locked(L[u])
                    \/ L[u].owner = o
                    \/ L[u].owner = None /\ L[u].reason \in claimable
    /\ Reload(c)
    /\ Start(c, "batch", PutFor(S, [u \in Utxos |-> Reserved(L[u], o)]), {}, o)
    /\ UNCHANGED <<store, marker, clock, granted>>

\* Mutant: the owner of an existing lock is not looked at.
EnsureAnyOwner(c, S, o, previous) ==
    LET L == View(c) IN
    /\ Idle(c)
    /\ \A u \in S : ~Locked(L[u]) \/ L[u].reason \in {Pending, previous[u]}
    /\ Reload(c)
    /\ Start(c, "batch", PutFor(S, [u \in Utxos |-> Adopted(o, previous[u])]), {}, o)
    /\ UNCHANGED <<store, marker, clock, granted>>

EnsureReservation(c, S, o, previous) ==
    LET L == View(c) IN
    /\ Idle(c)
    /\ \A u \in S : \/ ~Locked(L[u])
                    \/ L[u].owner = o
                    \/ L[u].owner = None /\ L[u].reason \in {Pending, previous[u]}
    /\ Reload(c)
    /\ Start(c, "batch", PutFor(S, [u \in Utxos |-> Adopted(o, previous[u])]), {}, o)
    /\ UNCHANGED <<store, marker, clock, granted>>

\* Mutant: the previous reason is not reset.
FinalizeKeepsPrevious(c, S, o) ==
    LET L == View(c) IN
    /\ Idle(c)
    /\ \A u \in S : L[u].owner \in {None, o}
    /\ Reload(c)
    /\ Start(c, "batch", PutFor(S, [u \in Utxos |->
                 [reason |-> Rgb, owner |-> None, prev |-> L[u].prev]]), {}, None)
    /\ Forfeit(o, S)
    /\ UNCHANGED <<store, marker, clock>>

FinalizeReservation(c, S, o) ==
    /\ Idle(c)
    /\ \A u \in S : View(c)[u].owner \in {None, o}
    /\ Reload(c)
    /\ Start(c, "batch", PutFor(S, [u \in Utxos |-> Plain(Rgb)]), {}, None)
    /\ Forfeit(o, S)
    /\ UNCHANGED <<store, marker, clock>>

\* Mutant: the lock of another reservation is released.
ReleaseAnyOwner(c, S, o) ==
    LET L == View(c)
        Held == {u \in S : Locked(L[u])}
        Claimed == {u \in Held : L[u].prev # None}
    IN  /\ Idle(c)
        /\ Held # {}
        /\ Reload(c)
        /\ Start(c, "batch", PutFor(Claimed, [u \in Utxos |-> Plain(L[u].prev)]),
                 Held \ Claimed, None)
        /\ Forfeit(o, S)
        /\ UNCHANGED <<store, marker, clock>>

\* An outpoint that carried a lock when it was reserved gets it back.
ReleaseReservation(c, S, o) ==
    LET L == View(c)
        Held == {u \in S : Locked(L[u])}
        Claimed == {u \in Held : L[u].prev # None}
    IN  /\ Idle(c)
        /\ \A u \in Held : L[u].owner = o
        /\ Held # {}
        /\ Reload(c)
        /\ Start(c, "batch", PutFor(Claimed, [u \in Utxos |-> Plain(L[u].prev)]),
                 Held \ Claimed, None)
        /\ Forfeit(o, S)
        /\ UNCHANGED <<store, marker, clock>>

SetLockReason(c, u, reason) ==
    LET L == View(c) IN
    /\ Idle(c)
    /\ L[u].reason # reason
    /\ Reload(c)
    /\ Start(c, "batch", PutFor({u}, [v \in Utxos |-> Relabelled(L[v], reason)]), {}, None)
    /\ UNCHANGED <<store, marker, clock, granted>>

\* batch.Flush(): all records and the marker go out together; the removals
\* go with them, or follow in a call of their own.
FlushPuts(c) ==
    /\ job[c].stage = "batch"
    /\ \/ /\ store' = [u \in Utxos |->
                          IF u \in Puts(c) THEN job[c].puts[u]
                          ELSE IF ~SplitBatch /\ u \in job[c].dels THEN NoLock
                          ELSE store[u]]
          /\ marker' = clock
       \/ /\ "silent" \in Faults
          /\ UNCHANGED <<store, marker>>
    /\ job' = [job EXCEPT ![c] = [@ EXCEPT !.stage = "remove", !.time = clock]]
    /\ UNCHANGED <<clock, lockmap, refreshTime, granted>>

\* Mutant: the removed records stay in the copy.
FlushKeepsCopies(c) ==
    /\ job[c].stage = "remove"
    /\ store' = [u \in Utxos |-> IF u \in job[c].dels THEN NoLock ELSE store[u]]
    /\ lockmap' = [lockmap EXCEPT ![c] = Apply(@, [job[c] EXCEPT !.dels = {}])]
    /\ refreshTime' = [refreshTime EXCEPT ![c] = job[c].time]
    /\ granted' = [o \in Owners |-> IF o = job[c].by THEN granted[o] \cup Puts(c)
                                    ELSE granted[o]]
    /\ job' = [job EXCEPT ![c] = NoJob]
    /\ UNCHANGED <<marker, clock>>

\* The rest of Flush, and the copy brought up to date after it.
FlushRemoves(c) ==
    /\ job[c].stage = "remove"
    /\ \/ store' = [u \in Utxos |-> IF u \in job[c].dels THEN NoLock ELSE store[u]]
       \/ "silent" \in Faults /\ UNCHANGED store
    /\ lockmap' = [lockmap EXCEPT ![c] = Apply(@, job[c])]
    /\ refreshTime' = [refreshTime EXCEPT ![c] = job[c].time]
    /\ granted' = [o \in Owners |-> IF o = job[c].by THEN granted[o] \cup Puts(c)
                                    ELSE granted[o]]
    /\ job' = [job EXCEPT ![c] = NoJob]
    /\ UNCHANGED <<marker, clock>>

\* The batch is refused by the store: nothing was written, the call fails.
FlushFails(c) ==
    /\ "reported" \in Faults
    /\ job[c].stage = "batch"
    /\ job' = [job EXCEPT ![c] = NoJob]
    /\ UNCHANGED <<store, marker, clock, lockmap, refreshTime, granted>>
-----------------------------------------------------------------------------
(* Calls that work on the copy as it is and write record by record.        *)

\* LockUtxo, LockUtxos, LockUtxosWithTx: an outpoint already locked is left.
LockUtxos(c, S, reason) ==
    LET Unlocked == {u \in S : ~Locked(lockmap[c][u])} IN
    /\ Idle(c)
    /\ Start(c, "direct", PutFor(Unlocked, [u \in Utxos |-> Plain(reason)]), {}, None)
    /\ UNCHANGED <<store, marker, clock, lockmap, refreshTime, granted>>

\* UnlockUtxo, UnlockUtxosWithTx: whoever owns the lock.
UnlockUtxos(c, S) ==
    /\ Idle(c)
    /\ Start(c, "direct", Empty, {u \in S : Locked(lockmap[c][u])}, None)
    /\ ForfeitAll(S)
    /\ UNCHANGED <<store, marker, clock, lockmap, refreshTime>>

\* CheckBlock, CheckExisting: the locks of spent outpoints are dropped.
DropSpent(c, S) ==
    LET Spent == {u \in S : Locked(View(c)[u])} IN
    /\ Idle(c)
    /\ Spent # {}
    /\ Reload(c)
    /\ Start(c, "direct", Empty, Spent, None)
    /\ ForfeitAll(Spent)
    /\ UNCHANGED <<store, marker, clock>>

CheckBlock(c, inputs)      == DropSpent(c, inputs)
CheckExisting(c, existing) == DropSpent(c, Utxos \ existing)

WriteLock(c) ==
    /\ job[c].stage = "direct"
    /\ \E u \in Puts(c) :
        /\ \/ store' = [store EXCEPT ![u] = job[c].puts[u]]
           \/ "silent" \in Faults /\ UNCHANGED store
        /\ lockmap' = [lockmap EXCEPT ![c][u] = job[c].puts[u]]
        /\ job' = [job EXCEPT ![c].puts[u] = NoLock]
    /\ UNCHANGED <<marker, clock, refreshTime, granted>>

\* saveLockedUtxo fails: the call returns, without writing the marker.
WriteLockFails(c) ==
    /\ "reported" \in Faults
    /\ job[c].stage = "direct"
    /\ Puts(c) # {}
    /\ job' = [job EXCEPT ![c] = NoJob]
    /\ UNCHANGED <<store, marker, clock, lockmap, refreshTime, granted>>

\* unlockUtxo and the block checks drop the copy whatever the delete returns.
DeleteLock(c) ==
    /\ job[c].stage = "direct"
    /\ \E u \in job[c].dels :
        /\ \/ store' = [store EXCEPT ![u] = NoLock]
           \/ Faults \cap {"ignored", "silent"} # {} /\ UNCHANGED store
        /\ lockmap' = [lockmap EXCEPT ![c][u] = NoLock]
        /\ job' = [job EXCEPT ![c].dels = @ \ {u}]
    /\ UNCHANGED <<marker, clock, refreshTime, granted>>

\* refreshTime = now; saveLastLockTime, whose error is dropped.
WriteMarker(c) ==
    /\ job[c].stage = "direct"
    /\ Puts(c) = {} /\ job[c].dels = {}
    /\ refreshTime' = [refreshTime EXCEPT ![c] = clock]
    /\ \/ marker' = clock
       \/ Faults \cap {"ignored", "silent"} # {} /\ UNCHANGED marker
    /\ job' = [job EXCEPT ![c] = NoJob]
    /\ UNCHANGED <<store, clock, lockmap, granted>>
-----------------------------------------------------------------------------
\* A context is killed and started again: NewUtxoLocker, then Init().
Restart(c) ==
    /\ lockmap' = [lockmap EXCEPT ![c] = store]
    /\ refreshTime' = [refreshTime EXCEPT ![c] = marker]
    /\ job' = [job EXCEPT ![c] = NoJob]
    /\ UNCHANGED <<store, marker, clock, granted>>

Tick ==
    /\ clock < MaxTime
    /\ clock' = clock + 1
    /\ UNCHANGED <<store, marker, lockmap, refreshTime, job, granted>>

Call(c) ==
    \/ \E S \in SUBSET Utxos \ {{}}, o \in Owners :
        \/ \E claimable \in {{}, {Rgb}} : TryReserve(c, S, o, claimable)
        \/ \E previous \in [Utxos -> {None, Rgb}] : EnsureReservation(c, S, o, previous)
        \/ FinalizeReservation(c, S, o)
        \/ ReleaseReservation(c, S, o)
    \/ \E u \in Utxos, reason \in {Rgb, Pending} : SetLockReason(c, u, reason)
    \/ \E S \in SUBSET Utxos \ {{}} :
        \/ \E reason \in {Rgb, Broadcasted} : LockUtxos(c, S, reason)
        \/ UnlockUtxos(c, S)
        \/ CheckBlock(c, S)
        \/ CheckExisting(c, Utxos \ S)

Next ==
    \/ \E c \in Contexts :
        \/ ReloadOnly(c)
        \/ Call(c)
        \/ FlushPuts(c)
        \/ FlushRemoves(c)
        \/ FlushFails(c)
        \/ WriteLock(c)
        \/ WriteLockFails(c)
        \/ DeleteLock(c)
        \/ WriteMarker(c)
        \/ Restart(c)
    \/ Tick

Spec == Init /\ [][Next]_vars
-----------------------------------------------------------------------------
\* The shape of the records in the store, the copies and the pending writes.
TypeOK ==
    /\ store \in Table
    /\ marker \in Time
    /\ clock \in 1 .. MaxTime
    /\ lockmap \in [Contexts -> Table]
    /\ refreshTime \in [Contexts -> Time]
    /\ job \in [Contexts -> Job]
    /\ granted \in [Owners -> SUBSET Utxos]

\* The previous reason of a lock, which ReleaseReservation restores, is kept
\* exactly as long as the lock has an owner: a stale one would bring back a
\* reason of an earlier reservation.
PrevSound(t) == \A u \in Utxos : t[u].owner = None => t[u].prev = None

PreviousOnlyWhileOwned ==
    PrevSound(store) /\ \A c \in Contexts : PrevSound(lockmap[c]) /\ PrevSound(job[c].puts)

\* Between calls, a copy whose marker matches the store's is the store's
\* content: reload() may rely on the marker alone.
MarkerVouchesForCopy ==
    \A c \in Contexts : Idle(c) /\ Fresh(c) => lockmap[c] = store

\* An outpoint a reservation was granted, and neither gave up nor lost to an
\* unlock or a spend, is that reservation's in the store: no other operation
\* took it, and a restart does not forget it.
GrantBacked ==
    \A o \in Owners : \A u \in granted[o] : OwnedBy(store[u], o)

\* An outpoint passes from one reservation to another only through a state in
\* which nobody owns it: TryReserve and EnsureReservation refuse an outpoint
\* another live reservation owns.
NeverTaken ==
    [][\A u \in Utxos : store[u].owner # None =>
            store'[u].owner \in {store[u].owner, None}]_store

\* What makes GrantBacked inductive when a context has the store to itself:
\* its copy knows the owner of every granted outpoint, no planned write
\* touches another's grant, and a planned grant is in the store before it is
\* given.
GrantSound(c) ==
    \A o \in Owners : \A u \in granted[o] :
        /\ OwnedBy(lockmap[c][u], o)
        /\ u \notin job[c].dels
        /\ u \in Puts(c) => job[c].puts[u].owner = o

PlanSound(c) ==
    /\ Idle(c) => job[c] = NoJob
    /\ \A u \in job[c].dels : job[c].puts[u] = NoLock
    /\ job[c].by # None => \A u \in Puts(c) : job[c].puts[u].owner = job[c].by
    /\ job[c].stage = "remove" => \A u \in Puts(c) : store[u] = job[c].puts[u]

SoleInv == GrantBacked /\ \A c \in Contexts : GrantSound(c) /\ PlanSound(c)

\* What makes MarkerVouchesForCopy inductive when, besides, no error is
\* dropped: the copy is the store's content except between the two halves of
\* a batch, when applying the batch to it gives what the store will hold.
CopySound(c) ==
    IF job[c].stage = "remove"
    THEN Apply(lockmap[c], job[c]) =
            [u \in Utxos |-> IF u \in job[c].dels THEN NoLock ELSE store[u]]
    ELSE lockmap[c] = store

CopyInv == \A c \in Contexts : CopySound(c) /\ PlanSound(c)

\* What a lock is to the operation that releases its reservation.
Base(l) == IF l.owner = None THEN l.reason ELSE l.prev

\* A batch reserves or adopts outpoints nobody else owns, finalizes them,
\* releases what one operation owns, or changes a reason.
ReservesFor(c, o) ==
    /\ job[c].dels = {}
    /\ \A u \in Puts(c) :
        /\ store[u].owner \in {None, o}
        /\ job[c].puts[u].owner = o
        /\ job[c].puts[u].prev = Base(store[u])

AdoptsFor(c, o) ==
    /\ job[c].dels = {}
    /\ \A u \in Puts(c) :
        /\ store[u].owner \in {None, o}
        /\ store[u].owner = None => store[u].reason \in {None, Pending, job[c].puts[u].prev}
        /\ job[c].puts[u].owner = o
        /\ job[c].puts[u].prev \in {None, Rgb}

FinalizesFor(c, o) ==
    /\ job[c].dels = {}
    /\ \A u \in Puts(c) : store[u].owner \in {None, o} /\ job[c].puts[u] = Plain(Rgb)

ReleasesFor(c, o) ==
    /\ \A u \in Puts(c) : store[u].owner = o /\ job[c].puts[u] = Plain(store[u].prev)
    /\ \A u \in job[c].dels : store[u].owner = o /\ store[u].prev = None

Relabels(c) ==
    /\ job[c].dels = {}
    /\ \E u \in Utxos :
        /\ Puts(c) = {u}
        /\ job[c].puts[u] = Relabelled(store[u], job[c].puts[u].reason)

\* What a context still has to write, by what the store holds meanwhile: the
\* removals of a release are of outpoints it still owns, and an ordinary lock
\* is only put where there is none.
WriteSound(c) ==
    /\ job[c].stage = "batch" =>
        \/ Relabels(c)
        \/ \E o \in Owners : \/ ReservesFor(c, o) \/ AdoptsFor(c, o)
                             \/ FinalizesFor(c, o) \/ ReleasesFor(c, o)
    /\ job[c].stage = "remove" /\ job[c].dels # {} =>
        \E o \in Owners : \A u \in job[c].dels :
            store[u] = NoLock \/ (store[u].owner = o /\ store[u].prev = None)
    /\ job[c].stage = "direct" =>
        \A u \in Puts(c) : ~Locked(store[u]) /\ job[c].puts[u].owner = None

WriteInv == \A c \in Contexts : WriteSound(c)

\* With a single context the store implements UtxoReservations.
Reservations == INSTANCE UtxoReservations WITH
    owner <- [u \in Utxos |-> store[u].owner],
    base <- [u \in Utxos |-> Base(store[u])],
    Settled <- Rgb,
    InUse <- Pending

\* Every write of utxolocker.go, each half of a batch included, is a step of
\* UtxoReservations or leaves its state alone: reserving is all or nothing,
\* and releasing restores exactly the lock that was claimed.
ImplementsReservations == Reservations!Spec
=============================================================================
