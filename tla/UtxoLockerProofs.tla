--------------------------- MODULE UtxoLockerProofs ---------------------------
(* What is proved of the lock table, for every value of the constants. *)
EXTENDS UtxoLocker, TLAPS

USE DEF Table, Slot, Lock, Reasons, NoLock, Locked, Rgb, Pending, Broadcasted, None

LEMMA EmptyType == Empty \in Table
BY DEF Empty

LEMMA NoJobType == NoJob \in Job
BY EmptyType, MaxTimeAssumption DEF NoJob, Job, Time

LEMMA ViewType ==
    ASSUME TypeOK, NEW c \in Contexts
    PROVE  View(c) \in Table
BY DEF View, TypeOK

LEMMA PutForType ==
    ASSUME NEW S, NEW t \in [Utxos -> Slot]
    PROVE  PutFor(S, t) \in Table
BY DEF PutFor

\* A call that has decided: only its plan, its context's copy and the grants
\* have changed.
LEMMA PlanType ==
    ASSUME TypeOK, NEW c \in Contexts,
           NEW stage \in {"batch", "direct"}, NEW puts \in Table,
           NEW dels \in SUBSET Utxos, NEW by \in Owners \cup {None},
           Start(c, stage, puts, dels, by),
           Reload(c) \/ UNCHANGED <<lockmap, refreshTime>>,
           granted' \in [Owners -> SUBSET Utxos],
           UNCHANGED <<store, marker, clock>>
    PROVE  TypeOK'
<1>1. 0 \in Time
  BY MaxTimeAssumption DEF Time
<1>2. job' \in [Contexts -> Job]
  BY <1>1 DEF Start, TypeOK, Job
<1>3. lockmap' \in [Contexts -> Table] /\ refreshTime' \in [Contexts -> Time]
  BY ViewType DEF Reload, TypeOK
<1>. QED
  BY <1>2, <1>3 DEF TypeOK

LEMMA CallType ==
    ASSUME TypeOK, NEW c \in Contexts, Call(c)
    PROVE  TypeOK'
<1> DEFINE L == View(c)
<1> L \in Table
  BY ViewType
<1>0. ASSUME NEW S, NEW o \in Owners
      PROVE  [granted EXCEPT ![o] = @ \ S] \in [Owners -> SUBSET Utxos]
  BY DEF TypeOK
<1>1. ASSUME NEW S \in SUBSET Utxos, NEW o \in Owners,
             NEW claimable \in {{}, {Rgb}}, TryReserve(c, S, o, claimable)
      PROVE  TypeOK'
  <2>1. [u \in Utxos |-> Reserved(L[u], o)] \in [Utxos -> Slot]
    BY DEF Reserved, OwnedBy
  <2>. QED
    BY <1>1, <2>1, PutForType, PlanType DEF TryReserve, TypeOK
<1>2. ASSUME NEW S \in SUBSET Utxos, NEW o \in Owners,
             NEW previous \in [Utxos -> {None, Rgb}],
             EnsureReservation(c, S, o, previous)
      PROVE  TypeOK'
  <2>1. [u \in Utxos |-> Adopted(o, previous[u])] \in [Utxos -> Slot]
    BY DEF Adopted
  <2>. QED
    BY <1>2, <2>1, PutForType, PlanType DEF EnsureReservation, TypeOK
<1>3. ASSUME NEW S \in SUBSET Utxos, NEW o \in Owners, FinalizeReservation(c, S, o)
      PROVE  TypeOK'
  <2>1. [u \in Utxos |-> Plain(Rgb)] \in [Utxos -> Slot]
    BY DEF Plain
  <2>. QED
    BY <1>0, <1>3, <2>1, PutForType, PlanType DEF FinalizeReservation, Forfeit, TypeOK
<1>4. ASSUME NEW S \in SUBSET Utxos, NEW o \in Owners, ReleaseReservation(c, S, o)
      PROVE  TypeOK'
  <2> DEFINE Held == {u \in S : Locked(L[u])}
             Claimed == {u \in Held : L[u].prev # None}
  <2>1. PutFor(Claimed, [u \in Utxos |-> Plain(L[u].prev)]) \in Table
    BY DEF PutFor, Plain
  <2>. QED
    BY <1>0, <1>4, <2>1, PlanType DEF ReleaseReservation, Forfeit, TypeOK
<1>5. ASSUME NEW u \in Utxos, NEW reason \in {Rgb, Pending}, SetLockReason(c, u, reason)
      PROVE  TypeOK'
  <2>1. PutFor({u}, [v \in Utxos |-> Relabelled(L[v], reason)]) \in Table
    BY DEF PutFor, Relabelled
  <2>. QED
    BY <1>5, <2>1, PlanType DEF SetLockReason, TypeOK
<1>6. ASSUME NEW S \in SUBSET Utxos, NEW reason \in {Rgb, Broadcasted},
             LockUtxos(c, S, reason)
      PROVE  TypeOK'
  <2>1. [u \in Utxos |-> Plain(reason)] \in [Utxos -> Slot]
    BY DEF Plain
  <2>. QED
    BY <1>6, <2>1, PutForType, PlanType DEF LockUtxos, TypeOK
<1>7. ASSUME NEW S \in SUBSET Utxos, UnlockUtxos(c, S)
      PROVE  TypeOK'
  BY <1>7, EmptyType, PlanType DEF UnlockUtxos, ForfeitAll, TypeOK
<1>8. ASSUME NEW S \in SUBSET Utxos, DropSpent(c, S)
      PROVE  TypeOK'
  BY <1>8, EmptyType, PlanType DEF DropSpent, ForfeitAll, TypeOK
<1>. QED
  BY <1>1, <1>2, <1>3, <1>4, <1>5, <1>6, <1>7, <1>8
  DEF Call, CheckBlock, CheckExisting

LEMMA WriteType ==
    ASSUME TypeOK, NEW c \in Contexts,
           \/ FlushPuts(c) \/ FlushRemoves(c) \/ FlushFails(c) \/ WriteLock(c)
           \/ WriteLockFails(c) \/ DeleteLock(c) \/ WriteMarker(c)
    PROVE  TypeOK'
<1>0. clock \in Time /\ job[c] \in Job
  BY MaxTimeAssumption DEF TypeOK, Time
<1>1. CASE FlushPuts(c)
  BY <1>0, <1>1 DEF FlushPuts, TypeOK, Job
<1>2. CASE FlushRemoves(c)
  <2>1. Apply(lockmap[c], job[c]) \in Table
    BY <1>0 DEF Apply, TypeOK, Job
  <2>2. Puts(c) \in SUBSET Utxos
    BY DEF Puts
  <2>3. store' \in Table
    BY <1>2 DEF FlushRemoves, TypeOK
  <2>4. lockmap' \in [Contexts -> Table] /\ job' \in [Contexts -> Job]
    BY <1>2, <2>1, NoJobType DEF FlushRemoves, TypeOK
  <2>5. refreshTime' \in [Contexts -> Time]
    BY <1>0, <1>2 DEF FlushRemoves, TypeOK, Job
  <2>6. granted' \in [Owners -> SUBSET Utxos]
    BY <1>2, <2>2 DEF FlushRemoves, TypeOK
  <2>. QED
    BY <1>2, <2>3, <2>4, <2>5, <2>6 DEF FlushRemoves, TypeOK
<1>3. CASE FlushFails(c)
  BY <1>3, NoJobType DEF FlushFails, TypeOK
<1>4. CASE WriteLock(c)
  <2>1. PICK u \in Puts(c) :
           /\ store' \in {store, [store EXCEPT ![u] = job[c].puts[u]]}
           /\ lockmap' = [lockmap EXCEPT ![c][u] = job[c].puts[u]]
           /\ job' = [job EXCEPT ![c].puts[u] = NoLock]
    BY <1>4 DEF WriteLock
  <2>2. u \in Utxos /\ job[c].puts[u] \in Slot
    BY <1>0 DEF Puts, Job
  <2>3. store' \in Table
    BY <2>1, <2>2 DEF TypeOK
  <2>4. lockmap' \in [Contexts -> Table]
    BY <2>1, <2>2 DEF TypeOK
  <2>5. [job[c] EXCEPT !.puts[u] = NoLock] \in Job
    BY <1>0, <2>2 DEF Job
  <2>6. job' \in [Contexts -> Job]
    BY <2>1, <2>5 DEF TypeOK
  <2>. QED
    BY <1>4, <2>3, <2>4, <2>6 DEF WriteLock, TypeOK
<1>5. CASE WriteLockFails(c)
  BY <1>5, NoJobType DEF WriteLockFails, TypeOK
<1>6. CASE DeleteLock(c)
  <2>1. PICK u \in job[c].dels :
           /\ store' \in {store, [store EXCEPT ![u] = NoLock]}
           /\ lockmap' = [lockmap EXCEPT ![c][u] = NoLock]
           /\ job' = [job EXCEPT ![c].dels = @ \ {u}]
    BY <1>6 DEF DeleteLock
  <2>2. store' \in Table /\ lockmap' \in [Contexts -> Table]
    BY <1>0, <2>1 DEF TypeOK, Job
  <2>3. [job[c] EXCEPT !.dels = @ \ {u}] \in Job
    BY <1>0 DEF Job
  <2>4. job' \in [Contexts -> Job]
    BY <2>1, <2>3 DEF TypeOK
  <2>. QED
    BY <1>6, <2>2, <2>4 DEF DeleteLock, TypeOK
<1>7. CASE WriteMarker(c)
  BY <1>0, <1>7, NoJobType DEF WriteMarker, TypeOK
<1>. QED
  BY <1>1, <1>2, <1>3, <1>4, <1>5, <1>6, <1>7

\* The types of all variables, for any number of contexts and any storage.
THEOREM TypeCorrect == Spec => []TypeOK
<1>1. Init => TypeOK
  BY EmptyType, NoJobType, MaxTimeAssumption DEF Init, TypeOK, Time
<1>2. TypeOK /\ [Next]_vars => TypeOK'
  <2> SUFFICES ASSUME TypeOK, [Next]_vars PROVE TypeOK'
    OBVIOUS
  <2>1. ASSUME NEW c \in Contexts, ReloadOnly(c) PROVE TypeOK'
    BY <2>1, ViewType DEF ReloadOnly, Reload, TypeOK
  <2>2. ASSUME NEW c \in Contexts, Restart(c) PROVE TypeOK'
    BY <2>2, NoJobType DEF Restart, TypeOK
  <2>3. CASE Tick
    BY <2>3, MaxTimeAssumption DEF Tick, TypeOK
  <2>4. CASE UNCHANGED vars
    BY <2>4 DEF vars, TypeOK
  <2>. QED
    BY <2>1, <2>2, <2>3, <2>4, CallType, WriteType DEF Next
<1>. QED
  BY <1>1, <1>2, PTL DEF Spec
-----------------------------------------------------------------------------
(* The reason a release restores, for any number of contexts and any       *)
(* storage.                                                                *)

LEMMA PlanPrev ==
    ASSUME TypeOK, PreviousOnlyWhileOwned, NEW c \in Contexts,
           NEW stage, NEW puts \in Table, NEW dels, NEW by,
           Start(c, stage, puts, dels, by), PrevSound(puts),
           Reload(c) \/ UNCHANGED lockmap, UNCHANGED store
    PROVE  PreviousOnlyWhileOwned'
<1>1. PrevSound(store')
  BY DEF PreviousOnlyWhileOwned
<1>2. ASSUME NEW d \in Contexts PROVE PrevSound(lockmap'[d])
  BY DEF PreviousOnlyWhileOwned, TypeOK, Reload, View
<1>3. ASSUME NEW d \in Contexts PROVE PrevSound(job'[d].puts)
  BY DEF PreviousOnlyWhileOwned, TypeOK, Start
<1>. QED
  BY <1>1, <1>2, <1>3 DEF PreviousOnlyWhileOwned, PrevSound

LEMMA CallPrev ==
    ASSUME TypeOK, PreviousOnlyWhileOwned, NEW c \in Contexts, Call(c)
    PROVE  PreviousOnlyWhileOwned'
<1> DEFINE L == View(c)
<1>a. L \in Table /\ PrevSound(L)
  BY ViewType DEF View, PreviousOnlyWhileOwned
<1>b. PrevSound(Empty) /\ Empty \in Table
  BY DEF PrevSound, Empty
<1> HIDE DEF L
<1>1. ASSUME NEW S \in SUBSET Utxos, NEW o \in Owners,
             NEW claimable \in {{}, {Rgb}}, TryReserve(c, S, o, claimable)
      PROVE  PreviousOnlyWhileOwned'
  <2> DEFINE puts == PutFor(S, [u \in Utxos |-> Reserved(L[u], o)])
  <2>1. puts \in Table /\ PrevSound(puts)
    BY <1>a, OwnersAssumption DEF PutFor, Reserved, OwnedBy, PrevSound
  <2>2. Start(c, "batch", puts, {}, o) /\ Reload(c) /\ UNCHANGED store
    BY <1>1 DEF TryReserve, L
  <2> HIDE DEF puts
  <2>. QED
    BY <2>1, <2>2, PlanPrev
<1>2. ASSUME NEW S \in SUBSET Utxos, NEW o \in Owners,
             NEW previous \in [Utxos -> {None, Rgb}],
             EnsureReservation(c, S, o, previous)
      PROVE  PreviousOnlyWhileOwned'
  <2> DEFINE puts == PutFor(S, [u \in Utxos |-> Adopted(o, previous[u])])
  <2>1. puts \in Table /\ PrevSound(puts)
    BY OwnersAssumption DEF PutFor, Adopted, PrevSound
  <2>2. Start(c, "batch", puts, {}, o) /\ Reload(c) /\ UNCHANGED store
    BY <1>2 DEF EnsureReservation
  <2> HIDE DEF puts
  <2>. QED
    BY <2>1, <2>2, PlanPrev
<1>3. ASSUME NEW S \in SUBSET Utxos, NEW o \in Owners, FinalizeReservation(c, S, o)
      PROVE  PreviousOnlyWhileOwned'
  <2> DEFINE puts == PutFor(S, [u \in Utxos |-> Plain(Rgb)])
  <2>1. puts \in Table /\ PrevSound(puts)
    BY DEF PutFor, Plain, PrevSound
  <2>2. Start(c, "batch", puts, {}, None) /\ Reload(c) /\ UNCHANGED store
    BY <1>3 DEF FinalizeReservation
  <2> HIDE DEF puts
  <2>. QED
    BY <2>1, <2>2, PlanPrev
<1>4. ASSUME NEW S \in SUBSET Utxos, NEW o \in Owners, ReleaseReservation(c, S, o)
      PROVE  PreviousOnlyWhileOwned'
  <2> DEFINE Held == {u \in S : Locked(L[u])}
             Claimed == {u \in Held : L[u].prev # None}
             puts == PutFor(Claimed, [u \in Utxos |-> Plain(L[u].prev)])
             dels == Held \ Claimed
  <2>1. puts \in Table /\ PrevSound(puts)
    BY <1>a DEF PutFor, Plain, PrevSound
  <2>2. Start(c, "batch", puts, dels, None) /\ Reload(c) /\ UNCHANGED store
    BY <1>4 DEF ReleaseReservation, L
  <2> HIDE DEF puts, dels
  <2>. QED
    BY <2>1, <2>2, PlanPrev
<1>5. ASSUME NEW u \in Utxos, NEW reason \in {Rgb, Pending}, SetLockReason(c, u, reason)
      PROVE  PreviousOnlyWhileOwned'
  <2> DEFINE puts == PutFor({u}, [v \in Utxos |-> Relabelled(L[v], reason)])
  <2>1. puts \in Table /\ PrevSound(puts)
    BY <1>a DEF PutFor, Relabelled, PrevSound
  <2>2. Start(c, "batch", puts, {}, None) /\ Reload(c) /\ UNCHANGED store
    BY <1>5 DEF SetLockReason, L
  <2> HIDE DEF puts
  <2>. QED
    BY <2>1, <2>2, PlanPrev
<1>6. ASSUME NEW S \in SUBSET Utxos, NEW reason \in {Rgb, Broadcasted},
             LockUtxos(c, S, reason)
      PROVE  PreviousOnlyWhileOwned'
  <2> DEFINE Unlocked == {u \in S : ~Locked(lockmap[c][u])}
             puts == PutFor(Unlocked, [u \in Utxos |-> Plain(reason)])
  <2>1. puts \in Table /\ PrevSound(puts)
    BY DEF PutFor, Plain, PrevSound
  <2>2. Start(c, "direct", puts, {}, None) /\ UNCHANGED <<lockmap, store>>
    BY <1>6 DEF LockUtxos
  <2> HIDE DEF puts
  <2>. QED
    BY <2>1, <2>2, PlanPrev
<1>7. ASSUME NEW S \in SUBSET Utxos, UnlockUtxos(c, S)
      PROVE  PreviousOnlyWhileOwned'
  BY <1>7, <1>b, PlanPrev DEF UnlockUtxos
<1>8. ASSUME NEW S \in SUBSET Utxos, DropSpent(c, S)
      PROVE  PreviousOnlyWhileOwned'
  BY <1>8, <1>b, PlanPrev DEF DropSpent
<1>. QED
  BY <1>1, <1>2, <1>3, <1>4, <1>5, <1>6, <1>7, <1>8
  DEF Call, CheckBlock, CheckExisting

LEMMA WritePrev ==
    ASSUME TypeOK, PreviousOnlyWhileOwned, NEW c \in Contexts,
           \/ FlushPuts(c) \/ FlushRemoves(c) \/ FlushFails(c) \/ WriteLock(c)
           \/ WriteLockFails(c) \/ DeleteLock(c) \/ WriteMarker(c)
           \/ ReloadOnly(c) \/ Restart(c)
    PROVE  PreviousOnlyWhileOwned'
<1>a. PrevSound(store) /\ PrevSound(lockmap[c]) /\ PrevSound(job[c].puts)
  BY DEF PreviousOnlyWhileOwned
<1>b. /\ store \in Table /\ lockmap \in [Contexts -> Table] /\ job \in [Contexts -> Job]
      /\ job[c].puts \in Table /\ job[c].dels \in SUBSET Utxos
  BY DEF TypeOK, Job
<1>c. PrevSound(NoJob.puts)
  BY DEF PrevSound, NoJob, Empty
\* Only c's copy and plan may have changed.
<1>0. ASSUME PrevSound(store'), PrevSound(lockmap'[c]), PrevSound(job'[c].puts),
             \A d \in Contexts \ {c} : lockmap'[d] = lockmap[d] /\ job'[d] = job[d]
      PROVE  PreviousOnlyWhileOwned'
  <2>1. ASSUME NEW d \in Contexts PROVE PrevSound(lockmap'[d]) /\ PrevSound(job'[d].puts)
    BY <1>0 DEF PreviousOnlyWhileOwned
  <2>. QED
    BY <1>0, <2>1 DEF PreviousOnlyWhileOwned, PrevSound
<1>1. CASE FlushPuts(c)
  <2>1. PrevSound(store')
    BY <1>1, <1>a, <1>b DEF FlushPuts, PrevSound, Puts
  <2>2. job' = [job EXCEPT ![c] = [@ EXCEPT !.stage = "remove", !.time = clock]]
    BY <1>1 DEF FlushPuts
  <2>3. job'[c] = [job[c] EXCEPT !.stage = "remove", !.time = clock]
    BY <1>b, <2>2
  <2>5. job'[c].puts = job[c].puts
    BY <1>b, <2>3 DEF Job
  <2>6. \A d \in Contexts \ {c} : job'[d] = job[d]
    BY <1>b, <2>2
  <2>4. lockmap' = lockmap
    BY <1>1 DEF FlushPuts
  <2>. QED
    BY <1>0, <1>a, <2>1, <2>4, <2>5, <2>6
<1>2. CASE FlushRemoves(c)
  <2>1. PrevSound(store')
    BY <1>2, <1>a, <1>b DEF FlushRemoves, PrevSound
  <2>2. PrevSound(Apply(lockmap[c], job[c]))
    BY <1>a, <1>b DEF PrevSound, Apply
  <2>3. /\ lockmap'[c] = Apply(lockmap[c], job[c]) /\ job'[c] = NoJob
        /\ \A d \in Contexts \ {c} : lockmap'[d] = lockmap[d] /\ job'[d] = job[d]
    BY <1>2, <1>b DEF FlushRemoves
  <2>. QED
    BY <1>0, <1>c, <2>1, <2>2, <2>3
<1>3. CASE FlushFails(c) \/ WriteLockFails(c)
  BY <1>0, <1>a, <1>b, <1>c, <1>3 DEF FlushFails, WriteLockFails
<1>4. CASE WriteLock(c)
  <2>1. PICK u \in Puts(c) :
           /\ store' \in {store, [store EXCEPT ![u] = job[c].puts[u]]}
           /\ lockmap' = [lockmap EXCEPT ![c][u] = job[c].puts[u]]
           /\ job' = [job EXCEPT ![c].puts[u] = NoLock]
    BY <1>4 DEF WriteLock
  <2>2. u \in Utxos
    BY DEF Puts
  <2>3. PrevSound(store') /\ PrevSound(lockmap'[c])
    BY <1>a, <1>b, <2>1, <2>2 DEF PrevSound
  <2>4. job'[c].puts = [job[c].puts EXCEPT ![u] = NoLock]
    BY <1>b, <2>1 DEF Job
  <2>5. PrevSound(job'[c].puts)
    BY <1>a, <1>b, <2>2, <2>4 DEF PrevSound
  <2>. QED
    BY <1>0, <1>b, <2>1, <2>3, <2>5
<1>5. CASE DeleteLock(c)
  <2>1. PICK u \in job[c].dels :
           /\ store' \in {store, [store EXCEPT ![u] = NoLock]}
           /\ lockmap' = [lockmap EXCEPT ![c][u] = NoLock]
           /\ job' = [job EXCEPT ![c].dels = @ \ {u}]
    BY <1>5 DEF DeleteLock
  <2>2. lockmap'[c] = [lockmap[c] EXCEPT ![u] = NoLock] /\ lockmap[c] \in Table
    BY <1>b, <2>1
  <2>3. PrevSound(store')
    BY <1>a, <1>b, <2>1 DEF PrevSound
  <2>4. PrevSound(lockmap'[c])
    BY <1>a, <2>2 DEF PrevSound
  <2>5. job'[c].puts = job[c].puts
    BY <1>b, <2>1 DEF Job
  <2>. QED
    BY <1>0, <1>a, <1>b, <2>1, <2>3, <2>4, <2>5
<1>6. CASE WriteMarker(c)
  BY <1>0, <1>a, <1>b, <1>c, <1>6 DEF WriteMarker
<1>7. CASE ReloadOnly(c)
  BY <1>0, <1>a, <1>b, <1>7 DEF ReloadOnly, Reload, View
<1>8. CASE Restart(c)
  BY <1>0, <1>a, <1>b, <1>c, <1>8 DEF Restart
<1>. QED
  BY <1>1, <1>2, <1>3, <1>4, <1>5, <1>6, <1>7, <1>8

\* A lock without an owner remembers no previous reason, in the store, in
\* every context's copy and in what any context is about to write, however
\* the contexts interleave and whichever writes are lost: ReleaseReservation
\* never restores the reason an earlier reservation found.
THEOREM PreviousIsCurrent == Spec => []PreviousOnlyWhileOwned
<1>1. Init => PreviousOnlyWhileOwned
  BY DEF Init, PreviousOnlyWhileOwned, PrevSound, Empty, NoJob
<1>2. TypeOK /\ PreviousOnlyWhileOwned /\ [Next]_vars => PreviousOnlyWhileOwned'
  <2> SUFFICES ASSUME TypeOK, PreviousOnlyWhileOwned, [Next]_vars
               PROVE  PreviousOnlyWhileOwned'
    OBVIOUS
  <2>1. ASSUME NEW c \in Contexts,
               \/ FlushPuts(c) \/ FlushRemoves(c) \/ FlushFails(c) \/ WriteLock(c)
               \/ WriteLockFails(c) \/ DeleteLock(c) \/ WriteMarker(c)
               \/ ReloadOnly(c) \/ Restart(c)
        PROVE  PreviousOnlyWhileOwned'
    BY <2>1, WritePrev
  <2>2. CASE Tick \/ UNCHANGED vars
    BY <2>2 DEF Tick, vars, PreviousOnlyWhileOwned
  <2>. QED
    BY <2>1, <2>2, CallPrev DEF Next
<1>. QED
  BY <1>1, <1>2, TypeCorrect, PTL DEF Spec
-----------------------------------------------------------------------------
(* A context that has the store to itself, over storage that does not lose *)
(* writes silently.                                                        *)

Sole(c) == Contexts = {c} /\ "silent" \notin Faults

\* Whichever of the two a call decides on, granted outpoints are owned in it.
LEMMA ViewOwns ==
    ASSUME SoleInv, NEW c \in Contexts, NEW o \in Owners, NEW u \in granted[o]
    PROVE  OwnedBy(View(c)[u], o) /\ OwnedBy(lockmap[c][u], o)
BY DEF SoleInv, GrantSound, GrantBacked, View

\* A plan that leaves other operations' grants alone keeps the invariant.
LEMMA PlanKeeps ==
    ASSUME TypeOK, SoleInv, NEW c, Sole(c), Idle(c),
           NEW stage \in {"batch", "direct"}, NEW puts \in Table,
           NEW dels \in SUBSET Utxos, NEW by \in Owners \cup {None},
           Start(c, stage, puts, dels, by),
           Reload(c) \/ UNCHANGED <<lockmap, refreshTime>>,
           UNCHANGED <<store, marker, clock>>,
           granted' \in [Owners -> SUBSET Utxos],
           \A o \in Owners : granted'[o] \subseteq granted[o],
           \A u \in dels : puts[u] = NoLock,
           \A o \in Owners : \A u \in granted'[o] :
               u \notin dels /\ (Locked(puts[u]) => puts[u].owner = o),
           by # None => \A u \in Utxos : Locked(puts[u]) => puts[u].owner = by
    PROVE  SoleInv'
<1>1. c \in Contexts
  BY DEF Sole
<1>2. \A o \in Owners : \A u \in granted'[o] : OwnedBy(lockmap'[c][u], o)
  <2> SUFFICES ASSUME NEW o \in Owners, NEW u \in granted'[o]
               PROVE  OwnedBy(lockmap'[c][u], o)
    OBVIOUS
  <2>1. lockmap'[c] \in {lockmap[c], View(c)}
    BY <1>1 DEF Reload, TypeOK
  <2>. QED
    BY <1>1, <2>1, ViewOwns
<1>3. job'[c] = [stage |-> stage, puts |-> puts, dels |-> dels, by |-> by, time |-> 0]
  BY <1>1 DEF Start, TypeOK
<1>4. GrantBacked'
  BY DEF SoleInv, GrantBacked
<1>5. GrantSound(c)'
  BY <1>2, <1>3 DEF GrantSound, Puts
<1>6. PlanSound(c)'
  BY <1>3 DEF PlanSound, Idle, Puts
<1>. QED
  BY <1>4, <1>5, <1>6 DEF SoleInv, Sole

LEMMA CallKeeps ==
    ASSUME TypeOK, SoleInv, NEW c, Sole(c), Call(c)
    PROVE  SoleInv'
<1> DEFINE L == View(c)
<1> c \in Contexts
  BY DEF Sole
<1>a. L \in Table /\ lockmap[c] \in Table
  BY ViewType DEF TypeOK
<1>b. \A o \in Owners : \A u \in granted[o] :
         u \in Utxos /\ o # None /\ OwnedBy(L[u], o) /\ OwnedBy(lockmap[c][u], o)
  BY OwnersAssumption, ViewOwns DEF TypeOK
<1>c. granted \in [Owners -> SUBSET Utxos]
  BY DEF TypeOK
<1> HIDE DEF L
<1>1. ASSUME NEW S \in SUBSET Utxos, NEW o \in Owners,
             NEW claimable \in {{}, {Rgb}}, TryReserve(c, S, o, claimable)
      PROVE  SoleInv'
  <2> DEFINE puts == PutFor(S, [u \in Utxos |-> Reserved(L[u], o)])
  <2>1. Idle(c) /\ Reload(c) /\ Start(c, "batch", puts, {}, o)
    BY <1>1 DEF TryReserve, L
  <2>2. puts \in Table
    BY <1>a DEF PutFor, Reserved, OwnedBy
  <2>3. \A u \in Utxos : Locked(puts[u]) => u \in S /\ puts[u].owner = o
    BY <1>a DEF PutFor, Reserved, OwnedBy
  <2>4. \A v \in Owners : \A u \in granted[v] : u \in S => v = o
    BY <1>1, <1>b DEF TryReserve, OwnedBy, L
  <2>5. UNCHANGED <<store, marker, clock, granted>>
    BY <1>1 DEF TryReserve
  <2> HIDE DEF puts
  <2>. QED
    BY <1>b, <1>c, <2>1, <2>2, <2>3, <2>4, <2>5, PlanKeeps
<1>2. ASSUME NEW S \in SUBSET Utxos, NEW o \in Owners,
             NEW previous \in [Utxos -> {None, Rgb}],
             EnsureReservation(c, S, o, previous)
      PROVE  SoleInv'
  <2> DEFINE puts == PutFor(S, [u \in Utxos |-> Adopted(o, previous[u])])
  <2>1. Idle(c) /\ Reload(c) /\ Start(c, "batch", puts, {}, o)
    BY <1>2 DEF EnsureReservation
  <2>2. puts \in Table
    BY DEF PutFor, Adopted
  <2>3. \A u \in Utxos : Locked(puts[u]) => u \in S /\ puts[u].owner = o
    BY DEF PutFor, Adopted
  <2>4. \A v \in Owners : \A u \in granted[v] : u \in S => v = o
    BY <1>2, <1>b DEF EnsureReservation, OwnedBy, L
  <2>5. UNCHANGED <<store, marker, clock, granted>>
    BY <1>2 DEF EnsureReservation
  <2> HIDE DEF puts
  <2>. QED
    BY <1>b, <1>c, <2>1, <2>2, <2>3, <2>4, <2>5, PlanKeeps
<1>3. ASSUME NEW S \in SUBSET Utxos, NEW o \in Owners, FinalizeReservation(c, S, o)
      PROVE  SoleInv'
  <2> DEFINE puts == PutFor(S, [u \in Utxos |-> Plain(Rgb)])
  <2>1. Idle(c) /\ Reload(c) /\ Start(c, "batch", puts, {}, None)
    BY <1>3 DEF FinalizeReservation
  <2>2. puts \in Table
    BY DEF PutFor, Plain
  <2>3. \A u \in Utxos : Locked(puts[u]) => u \in S
    BY DEF PutFor
  <2>4. granted' \in [Owners -> SUBSET Utxos] /\ granted' = [granted EXCEPT ![o] = @ \ S]
    BY <1>3, <1>c DEF FinalizeReservation, Forfeit
  <2>5. \A v \in Owners : granted'[v] \subseteq granted[v] /\ granted'[v] \cap S = {}
    BY <1>3, <1>b, <1>c, <2>4 DEF FinalizeReservation, OwnedBy, L
  <2>6. UNCHANGED <<store, marker, clock>>
    BY <1>3 DEF FinalizeReservation
  <2> HIDE DEF puts
  <2>. QED
    BY <1>b, <1>c, <2>1, <2>2, <2>3, <2>4, <2>5, <2>6, PlanKeeps
<1>4. ASSUME NEW S \in SUBSET Utxos, NEW o \in Owners, ReleaseReservation(c, S, o)
      PROVE  SoleInv'
  <2> DEFINE Held == {u \in S : Locked(L[u])}
             Claimed == {u \in Held : L[u].prev # None}
             puts == PutFor(Claimed, [u \in Utxos |-> Plain(L[u].prev)])
             dels == Held \ Claimed
  <2>1. Idle(c) /\ Reload(c) /\ Start(c, "batch", puts, dels, None)
    BY <1>4 DEF ReleaseReservation, L
  <2>2. puts \in Table /\ dels \in SUBSET S
    BY <1>a DEF PutFor, Plain
  <2>3. \A u \in Utxos : Locked(puts[u]) => u \in S
    BY DEF PutFor
  <2>4. granted' \in [Owners -> SUBSET Utxos] /\ granted' = [granted EXCEPT ![o] = @ \ S]
    BY <1>4, <1>c DEF ReleaseReservation, Forfeit
  <2>5. \A u \in Held : L[u].owner = o
    BY <1>4 DEF ReleaseReservation, L
  <2>6. \A v \in Owners : granted'[v] \subseteq granted[v] /\ granted'[v] \cap S = {}
    BY <1>b, <1>c, <2>4, <2>5 DEF OwnedBy
  <2>7. \A u \in dels : puts[u] = NoLock
    BY <2>2 DEF PutFor
  <2>8. UNCHANGED <<store, marker, clock>>
    BY <1>4 DEF ReleaseReservation
  <2> HIDE DEF puts, dels
  <2>. QED
    BY <1>b, <1>c, <2>1, <2>2, <2>3, <2>4, <2>6, <2>7, <2>8, PlanKeeps
<1>5. ASSUME NEW u \in Utxos, NEW reason \in {Rgb, Pending}, SetLockReason(c, u, reason)
      PROVE  SoleInv'
  <2> DEFINE puts == PutFor({u}, [v \in Utxos |-> Relabelled(L[v], reason)])
  <2>1. Idle(c) /\ Reload(c) /\ Start(c, "batch", puts, {}, None)
    BY <1>5 DEF SetLockReason, L
  <2>2. puts \in Table
    BY <1>a DEF PutFor, Relabelled
  <2>3. \A v \in Utxos : Locked(puts[v]) => v = u /\ puts[v].owner = L[u].owner
    BY <1>a DEF PutFor, Relabelled
  <2>4. \A o \in Owners : \A v \in granted[o] : Locked(puts[v]) => puts[v].owner = o
    BY <1>b, <2>3 DEF OwnedBy
  <2>5. UNCHANGED <<store, marker, clock, granted>>
    BY <1>5 DEF SetLockReason
  <2> HIDE DEF puts
  <2>. QED
    BY <1>c, <2>1, <2>2, <2>4, <2>5, PlanKeeps
<1>6. ASSUME NEW S \in SUBSET Utxos, NEW reason \in {Rgb, Broadcasted},
             LockUtxos(c, S, reason)
      PROVE  SoleInv'
  <2> DEFINE Unlocked == {u \in S : ~Locked(lockmap[c][u])}
             puts == PutFor(Unlocked, [u \in Utxos |-> Plain(reason)])
  <2>1. Idle(c) /\ Start(c, "direct", puts, {}, None)
    BY <1>6 DEF LockUtxos
  <2>2. puts \in Table
    BY DEF PutFor, Plain
  <2>3. \A u \in Utxos : Locked(puts[u]) => ~Locked(lockmap[c][u])
    BY DEF PutFor
  <2>4. UNCHANGED <<store, marker, clock, granted, lockmap, refreshTime>>
    BY <1>6 DEF LockUtxos
  <2> HIDE DEF puts
  <2>. QED
    BY <1>b, <1>c, <2>1, <2>2, <2>3, <2>4, PlanKeeps DEF OwnedBy
<1>7. ASSUME NEW S \in SUBSET Utxos, UnlockUtxos(c, S)
      PROVE  SoleInv'
  BY <1>7, <1>c, EmptyType, PlanKeeps DEF UnlockUtxos, ForfeitAll, Empty
<1>8. ASSUME NEW S \in SUBSET Utxos, DropSpent(c, S)
      PROVE  SoleInv'
  BY <1>8, <1>c, EmptyType, PlanKeeps DEF DropSpent, ForfeitAll, Empty
<1>. QED
  BY <1>1, <1>2, <1>3, <1>4, <1>5, <1>6, <1>7, <1>8
  DEF Call, CheckBlock, CheckExisting

\* What is still to be written, written: the invariant survives each write,
\* each failure and each restart.
LEMMA WriteKeeps ==
    ASSUME TypeOK, SoleInv, NEW c, Sole(c),
           \/ FlushPuts(c) \/ FlushRemoves(c) \/ FlushFails(c) \/ WriteLock(c)
           \/ WriteLockFails(c) \/ DeleteLock(c) \/ WriteMarker(c)
           \/ ReloadOnly(c) \/ Restart(c)
    PROVE  SoleInv'
<1> c \in Contexts
  BY DEF Sole
<1>a. /\ store \in Table /\ lockmap \in [Contexts -> Table] /\ job \in [Contexts -> Job]
      /\ lockmap[c] \in Table /\ job[c].puts \in Table /\ job[c].dels \in SUBSET Utxos
  BY DEF TypeOK, Job
<1>b. GrantSound(c) /\ PlanSound(c) /\ GrantBacked
  BY DEF SoleInv
<1>c. \A o \in Owners : \A u \in granted[o] :
         /\ u \in Utxos /\ u \notin job[c].dels
         /\ OwnedBy(store[u], o) /\ OwnedBy(lockmap[c][u], o)
         /\ u \in Puts(c) => job[c].puts[u].owner = o
  BY <1>b DEF GrantSound, GrantBacked, TypeOK
<1>0. ASSUME GrantBacked', GrantSound(c)', PlanSound(c)' PROVE SoleInv'
  BY <1>0 DEF SoleInv, Sole
\* The job is over, the store and the grants are as they were.
<1>d. ASSUME store' = store, granted' = granted, job'[c] = NoJob,
             lockmap'[c] \in {lockmap[c], View(c), store}
      PROVE  SoleInv'
  <2>1. GrantBacked'
    BY <1>b, <1>d DEF GrantBacked
  <2>2. GrantSound(c)'
    BY <1>c, <1>d, ViewOwns DEF GrantSound, NoJob, Puts, Empty
  <2>3. PlanSound(c)'
    BY <1>d DEF PlanSound, NoJob, Puts, Empty
  <2>. QED
    BY <1>0, <2>1, <2>2, <2>3
<1>1. CASE FlushPuts(c)
  <2>1. store' = [u \in Utxos |-> IF u \in Puts(c) THEN job[c].puts[u]
                                  ELSE IF ~SplitBatch /\ u \in job[c].dels THEN NoLock
                                  ELSE store[u]]
    BY <1>1 DEF FlushPuts, Sole
  <2>2. job'[c] = [job[c] EXCEPT !.stage = "remove", !.time = clock]
    BY <1>1, <1>a DEF FlushPuts
  <2>3. /\ job'[c].stage = "remove" /\ job'[c].puts = job[c].puts
        /\ job'[c].dels = job[c].dels /\ job'[c].by = job[c].by
    BY <1>a, <2>2 DEF Job
  <2>4. lockmap' = lockmap /\ granted' = granted
    BY <1>1 DEF FlushPuts
  <2>5. Puts(c)' = Puts(c)
    BY <2>3 DEF Puts
  <2>6. GrantBacked'
    BY <1>a, <1>c, <2>1, <2>4 DEF GrantBacked, OwnedBy, Puts
  <2>7. GrantSound(c)'
    BY <1>b, <2>3, <2>4, <2>5 DEF GrantSound
  <2>8. \A u \in Puts(c) : store'[u] = job[c].puts[u]
    BY <2>1 DEF Puts
  <2>9. PlanSound(c)'
    BY <1>b, <2>3, <2>4, <2>5, <2>8 DEF PlanSound, Idle
  <2>. QED
    BY <1>0, <2>6, <2>7, <2>9
<1>2. CASE FlushRemoves(c)
  <2>1. store' = [u \in Utxos |-> IF u \in job[c].dels THEN NoLock ELSE store[u]]
    BY <1>2, <1>a DEF FlushRemoves, Sole
  <2>2. job'[c] = NoJob /\ lockmap'[c] = Apply(lockmap[c], job[c])
    BY <1>2, <1>a DEF FlushRemoves
  <2>3. granted' = [o \in Owners |-> IF o = job[c].by THEN granted[o] \cup Puts(c)
                                     ELSE granted[o]]
    BY <1>2 DEF FlushRemoves
  <2>4. \A u \in Puts(c) : /\ u \in Utxos /\ u \notin job[c].dels
                           /\ store[u] = job[c].puts[u] /\ Locked(store[u])
    BY <1>2, <1>b DEF PlanSound, FlushRemoves, Puts
  <2>5. ASSUME NEW o \in Owners, NEW u \in granted'[o]
        PROVE  OwnedBy(store'[u], o) /\ OwnedBy(lockmap'[c][u], o)
    <3>1. CASE u \in Puts(c)
      <4>1. job[c].puts[u].owner = o
        BY <1>b, <1>c, <2>3, <3>1, OwnersAssumption DEF PlanSound
      <4>. QED
        BY <2>1, <2>2, <2>4, <3>1, <4>1 DEF OwnedBy, Apply
    <3>2. CASE u \notin Puts(c)
      <4>1. u \in granted[o]
        BY <2>3, <3>2
      <4>2. ~Locked(job[c].puts[u])
        BY <1>c, <3>2, <4>1 DEF Puts
      <4>. QED
        BY <1>c, <2>1, <2>2, <4>1, <4>2 DEF Apply
    <3>. QED
      BY <3>1, <3>2
  <2>6. GrantBacked'
    BY <2>5 DEF GrantBacked
  <2>7. GrantSound(c)' /\ PlanSound(c)'
    BY <2>2, <2>5 DEF GrantSound, PlanSound, NoJob, Puts, Empty
  <2>. QED
    BY <1>0, <2>6, <2>7
<1>3. CASE FlushFails(c) \/ WriteLockFails(c)
  BY <1>3, <1>a, <1>d DEF FlushFails, WriteLockFails
<1>4. CASE WriteLock(c)
  <2>1. PICK u \in Puts(c) :
           /\ store' = [store EXCEPT ![u] = job[c].puts[u]]
           /\ lockmap' = [lockmap EXCEPT ![c][u] = job[c].puts[u]]
           /\ job' = [job EXCEPT ![c].puts[u] = NoLock]
    BY <1>4 DEF WriteLock, Sole
  <2>2. u \in Utxos /\ Locked(job[c].puts[u])
    BY DEF Puts
  <2>3. job[c].stage = "direct" /\ granted' = granted
    BY <1>4 DEF WriteLock
  <2>4. job'[c] = [job[c] EXCEPT !.puts[u] = NoLock]
    BY <1>a, <2>1
  <2>5. job'[c].stage = "direct" /\ job'[c].dels = job[c].dels /\ job'[c].by = job[c].by
        /\ job'[c].puts = [job[c].puts EXCEPT ![u] = NoLock]
    BY <1>a, <2>3, <2>4 DEF Job
  <2>6. lockmap'[c] = [lockmap[c] EXCEPT ![u] = job[c].puts[u]]
    BY <1>a, <2>1
  <2>7. Puts(c)' \subseteq Puts(c)
        /\ \A v \in Puts(c)' : job'[c].puts[v] = job[c].puts[v]
    BY <1>a, <2>2, <2>5 DEF Puts
  <2>8. PlanSound(c)'
    BY <1>b, <1>a, <2>2, <2>3, <2>5, <2>7 DEF PlanSound, Idle
  <2>9. ASSUME NEW o \in Owners, NEW v \in granted[o]
        PROVE  OwnedBy(store'[v], o) /\ OwnedBy(lockmap'[c][v], o)
    BY <1>a, <1>c, <2>1, <2>2, <2>6 DEF OwnedBy
  <2>10. GrantBacked'
    BY <2>3, <2>9 DEF GrantBacked
  <2>11. GrantSound(c)'
    BY <1>c, <2>3, <2>5, <2>7, <2>9 DEF GrantSound
  <2>. QED
    BY <1>0, <2>8, <2>10, <2>11
<1>5. CASE DeleteLock(c)
  <2>1. PICK u \in job[c].dels :
           /\ store' \in {store, [store EXCEPT ![u] = NoLock]}
           /\ lockmap' = [lockmap EXCEPT ![c][u] = NoLock]
           /\ job' = [job EXCEPT ![c].dels = @ \ {u}]
    BY <1>5 DEF DeleteLock
  <2>2. job[c].stage = "direct" /\ granted' = granted
    BY <1>5 DEF DeleteLock
  <2>3. job'[c].stage = "direct" /\ job'[c].dels = job[c].dels \ {u}
        /\ job'[c].by = job[c].by /\ job'[c].puts = job[c].puts
    BY <1>a, <2>1, <2>2 DEF Job
  <2>4. lockmap'[c] = [lockmap[c] EXCEPT ![u] = NoLock]
    BY <1>a, <2>1
  <2>5. ASSUME NEW o \in Owners, NEW v \in granted[o]
        PROVE  OwnedBy(store'[v], o) /\ OwnedBy(lockmap'[c][v], o)
    BY <1>a, <1>c, <2>1, <2>4
  <2>6. PlanSound(c)'
    BY <1>b, <2>2, <2>3 DEF PlanSound, Idle, Puts
  <2>7. GrantBacked'
    BY <2>2, <2>5 DEF GrantBacked
  <2>8. GrantSound(c)'
    BY <1>c, <2>2, <2>3, <2>5 DEF GrantSound, Puts
  <2>. QED
    BY <1>0, <2>6, <2>7, <2>8
<1>6. CASE WriteMarker(c)
  BY <1>6, <1>a, <1>d DEF WriteMarker
<1>7. CASE ReloadOnly(c)
  <2>1. job[c] = NoJob
    BY <1>7, <1>b DEF ReloadOnly, PlanSound
  <2>. QED
    BY <1>7, <1>a, <1>d, <2>1 DEF ReloadOnly, Reload
<1>8. CASE Restart(c)
  BY <1>8, <1>a, <1>d DEF Restart
<1>. QED
  BY <1>1, <1>2, <1>3, <1>4, <1>5, <1>6, <1>7, <1>8

\* The strengthened invariant holds whenever a single context uses the store.
THEOREM SoleInvariant ==
    ASSUME NEW c, Sole(c)
    PROVE  Spec => []SoleInv
<1>1. Init => SoleInv
  BY DEF Init, SoleInv, GrantBacked, GrantSound, PlanSound, NoJob, Puts, Empty, Idle
<1>2. TypeOK /\ SoleInv /\ [Next]_vars => SoleInv'
  <2> SUFFICES ASSUME TypeOK, SoleInv, [Next]_vars PROVE SoleInv'
    OBVIOUS
  <2>1. CASE \E d \in Contexts : Call(d)
    BY <2>1, CallKeeps DEF Sole
  <2>2. CASE Tick \/ UNCHANGED vars
    <3>1. UNCHANGED <<store, marker, lockmap, job, granted>>
      BY <2>2 DEF Tick, vars
    <3>2. GrantBacked'
      BY <3>1 DEF SoleInv, GrantBacked
    <3>3. \A d \in Contexts : GrantSound(d)' /\ PlanSound(d)'
      BY <3>1 DEF SoleInv, GrantSound, PlanSound, Puts, Idle
    <3>. QED
      BY <3>2, <3>3 DEF SoleInv
  <2>. QED
    BY <2>1, <2>2, WriteKeeps DEF Next, Sole
<1>. QED
  BY <1>1, <1>2, TypeCorrect, PTL DEF Spec

\* No operation's outpoint is taken from it, in a wallet that runs in one
\* context over storage that loses no write silently: TryReserve and
\* EnsureReservation refuse it, and neither a failed batch, nor a delete or a
\* marker whose error is dropped, nor a restart forgets it, whether or not
\* the two halves of a batch go out together.
THEOREM GrantsAreSafe ==
    ASSUME NEW c, Sole(c)
    PROVE  Spec => []GrantBacked
<1>1. SoleInv => GrantBacked
  BY DEF SoleInv
<1>. QED
  BY <1>1, SoleInvariant, PTL
-----------------------------------------------------------------------------
(* The same context, when besides no write error is dropped.               *)

Exact(c) == Contexts = {c} /\ Faults \subseteq {"reported"}

LEMMA CallCopies ==
    ASSUME TypeOK, CopyInv, NEW c, Exact(c), Call(c)
    PROVE  CopySound(c)'
<1>1. c \in Contexts /\ lockmap[c] = store /\ View(c) = store
  BY DEF Exact, CopyInv, CopySound, View, Call, Idle, TryReserve, EnsureReservation,
         FinalizeReservation, ReleaseReservation, SetLockReason, LockUtxos,
         UnlockUtxos, CheckBlock, CheckExisting, DropSpent
<1>2. /\ store' = store
      /\ Reload(c) \/ UNCHANGED lockmap
      /\ \E stage \in {"batch", "direct"} : \E puts, dels, by : Start(c, stage, puts, dels, by)
  BY DEF Call, TryReserve, EnsureReservation, FinalizeReservation, ReleaseReservation,
         SetLockReason, LockUtxos, UnlockUtxos, CheckBlock, CheckExisting, DropSpent
<1>3. lockmap'[c] = store
  BY <1>1, <1>2 DEF Reload, TypeOK
<1>4. job'[c].stage # "remove"
  BY <1>1, <1>2 DEF Start, TypeOK
<1>. QED
  BY <1>2, <1>3, <1>4 DEF CopySound

LEMMA WriteCopies ==
    ASSUME TypeOK, CopyInv, NEW c, Exact(c),
           \/ FlushPuts(c) \/ FlushRemoves(c) \/ FlushFails(c) \/ WriteLock(c)
           \/ WriteLockFails(c) \/ DeleteLock(c) \/ WriteMarker(c)
           \/ ReloadOnly(c) \/ Restart(c)
    PROVE  CopySound(c)'
<1> c \in Contexts
  BY DEF Exact
<1>a. /\ store \in Table /\ lockmap \in [Contexts -> Table] /\ job \in [Contexts -> Job]
      /\ lockmap[c] \in Table /\ job[c].puts \in Table /\ job[c].dels \in SUBSET Utxos
  BY DEF TypeOK, Job
<1>b. CopySound(c) /\ PlanSound(c)
  BY DEF CopyInv
<1>c. Faults \cap {"ignored", "silent"} = {} /\ "silent" \notin Faults
  BY DEF Exact
\* The copy is the store's content and no batch is half way.
<1>0. ASSUME lockmap'[c] = store', job'[c].stage # "remove" PROVE CopySound(c)'
  BY <1>0 DEF CopySound
<1>1. CASE FlushPuts(c)
  <2>1. store' = [u \in Utxos |-> IF u \in Puts(c) THEN job[c].puts[u]
                                  ELSE IF ~SplitBatch /\ u \in job[c].dels THEN NoLock
                                  ELSE store[u]]
    BY <1>1, <1>c DEF FlushPuts
  <2>2. job'[c] = [job[c] EXCEPT !.stage = "remove", !.time = clock]
    BY <1>1, <1>a DEF FlushPuts
  <2>3. /\ job'[c].stage = "remove" /\ job'[c].puts = job[c].puts
        /\ job'[c].dels = job[c].dels
    BY <1>a, <2>2 DEF Job
  <2>4. lockmap'[c] = store
    BY <1>1, <1>b DEF FlushPuts, CopySound
  <2>5. Apply(store, job[c])
          = [u \in Utxos |-> IF u \in job[c].dels THEN NoLock ELSE store'[u]]
    BY <1>b, <2>1 DEF Apply, Puts, PlanSound
  <2>6. Apply(lockmap'[c], job'[c]) = Apply(store, job[c])
    BY <2>3, <2>4 DEF Apply
  <2>. QED
    BY <2>3, <2>5, <2>6 DEF CopySound
<1>2. CASE FlushRemoves(c)
  <2>1. store' = [u \in Utxos |-> IF u \in job[c].dels THEN NoLock ELSE store[u]]
    BY <1>2, <1>c DEF FlushRemoves
  <2>2. job'[c] = NoJob /\ lockmap'[c] = Apply(lockmap[c], job[c])
    BY <1>2, <1>a DEF FlushRemoves
  <2>. QED
    BY <1>0, <1>2, <1>b, <2>1, <2>2 DEF CopySound, NoJob, FlushRemoves
<1>3. CASE FlushFails(c) \/ WriteLockFails(c)
  BY <1>0, <1>3, <1>a, <1>b DEF FlushFails, WriteLockFails, CopySound, NoJob
<1>4. CASE WriteLock(c)
  <2>1. PICK u \in Puts(c) :
           /\ store' = [store EXCEPT ![u] = job[c].puts[u]]
           /\ lockmap' = [lockmap EXCEPT ![c][u] = job[c].puts[u]]
           /\ job' = [job EXCEPT ![c].puts[u] = NoLock]
    BY <1>4, <1>c DEF WriteLock
  <2>2. job[c].stage = "direct" /\ lockmap[c] = store
    BY <1>4, <1>b DEF WriteLock, CopySound
  <2>3. lockmap'[c] = [lockmap[c] EXCEPT ![u] = job[c].puts[u]]
    BY <1>a, <2>1
  <2>4. job'[c] = [job[c] EXCEPT !.puts[u] = NoLock]
    BY <1>a, <2>1
  <2>5. job'[c].stage = "direct"
    BY <1>a, <2>2, <2>4 DEF Job
  <2>. QED
    BY <1>0, <2>1, <2>2, <2>3, <2>5
<1>5. CASE DeleteLock(c)
  <2>1. PICK u \in job[c].dels :
           /\ store' = [store EXCEPT ![u] = NoLock]
           /\ lockmap' = [lockmap EXCEPT ![c][u] = NoLock]
           /\ job' = [job EXCEPT ![c].dels = @ \ {u}]
    BY <1>5, <1>c DEF DeleteLock
  <2>2. job[c].stage = "direct" /\ lockmap[c] = store
    BY <1>5, <1>b DEF DeleteLock, CopySound
  <2>3. lockmap'[c] = [lockmap[c] EXCEPT ![u] = NoLock]
    BY <1>a, <2>1
  <2>4. job'[c].stage = "direct"
    BY <1>a, <2>1, <2>2 DEF Job
  <2>. QED
    BY <1>0, <2>1, <2>2, <2>3, <2>4
<1>6. CASE WriteMarker(c)
  BY <1>0, <1>6, <1>a, <1>b DEF WriteMarker, CopySound, NoJob
<1>7. CASE ReloadOnly(c)
  <2>1. job[c].stage = "idle" /\ View(c) = store
    BY <1>7, <1>b DEF ReloadOnly, Idle, CopySound, View
  <2>. QED
    BY <1>0, <1>7, <1>a, <2>1 DEF ReloadOnly, Reload
<1>8. CASE Restart(c)
  BY <1>0, <1>8, <1>a DEF Restart, NoJob
<1>. QED
  BY <1>1, <1>2, <1>3, <1>4, <1>5, <1>6, <1>7, <1>8

\* The copy of a context that has the store to itself is exact.
THEOREM CopyInvariant ==
    ASSUME NEW c, Exact(c)
    PROVE  Spec => []CopyInv
<1>0. Sole(c)
  BY DEF Exact, Sole
<1>1. Init => CopyInv
  <2> SUFFICES ASSUME Init, NEW d \in Contexts PROVE CopySound(d) /\ PlanSound(d)
    BY DEF CopyInv
  <2>1. job[d] = NoJob /\ lockmap[d] = store
    BY DEF Init
  <2>2. CopySound(d)
    BY <2>1 DEF CopySound, NoJob
  <2>3. PlanSound(d)
    BY <2>1 DEF PlanSound, NoJob, Puts, Empty
  <2>. QED
    BY <2>2, <2>3
<1>2. TypeOK /\ SoleInv /\ SoleInv' /\ CopyInv /\ [Next]_vars => CopyInv'
  <2> SUFFICES ASSUME TypeOK, SoleInv', CopyInv, [Next]_vars PROVE CopyInv'
    OBVIOUS
  <2>0. ASSUME CopySound(c)' PROVE CopyInv'
    BY <2>0 DEF CopyInv, SoleInv, Exact
  <2>1. CASE \E d \in Contexts : Call(d)
    BY <2>0, <2>1, CallCopies DEF Exact
  <2>2. CASE Tick \/ UNCHANGED vars
    <3>1. UNCHANGED <<store, marker, lockmap, job>>
      BY <2>2 DEF Tick, vars
    <3>2. CopySound(c)'
      BY <3>1 DEF CopyInv, CopySound, Apply, Exact
    <3>. QED
      BY <2>0, <3>2
  <2>. QED
    BY <2>0, <2>1, <2>2, WriteCopies DEF Next, Exact
<1>. QED
  BY <1>0, <1>1, <1>2, TypeCorrect, SoleInvariant, PTL DEF Spec

\* The marker alone tells reload() whether the copy is the store's content,
\* although it only counts milliseconds and a refused batch leaves it behind.
THEOREM MarkerSuffices ==
    ASSUME NEW c, Exact(c)
    PROVE  Spec => []MarkerVouchesForCopy
<1>1. CopyInv => MarkerVouchesForCopy
  BY DEF CopyInv, CopySound, MarkerVouchesForCopy, Idle
<1>. QED
  BY <1>1, CopyInvariant, PTL
-----------------------------------------------------------------------------
(* Such a context implements UtxoReservations.                             *)

\* What a call plans, by the store its copy agrees with.
LEMMA CallWrites ==
    ASSUME TypeOK, CopyInv, NEW c, Exact(c), Call(c)
    PROVE  WriteSound(c)'
<1> c \in Contexts
  BY DEF Exact
<1>a. lockmap[c] = store /\ View(c) = store /\ store' = store /\ store \in Table
  BY DEF TypeOK, Exact, CopyInv, CopySound, View, Call, Idle, TryReserve, EnsureReservation,
         FinalizeReservation, ReleaseReservation, SetLockReason, LockUtxos,
         UnlockUtxos, CheckBlock, CheckExisting, DropSpent
<1>b. ASSUME NEW stage \in {"batch", "direct"}, NEW puts, NEW dels, NEW by,
             Start(c, stage, puts, dels, by)
      PROVE  /\ job'[c].stage = stage /\ job'[c].puts = puts /\ job'[c].dels = dels
             /\ Puts(c)' = {u \in Utxos : Locked(puts[u])}
  BY <1>b DEF Start, TypeOK, Puts
<1>1. ASSUME NEW S \in SUBSET Utxos, NEW o \in Owners,
             NEW claimable \in {{}, {Rgb}}, TryReserve(c, S, o, claimable)
      PROVE  WriteSound(c)'
  <2> DEFINE puts == PutFor(S, [u \in Utxos |-> Reserved(store[u], o)])
  <2>1. /\ job'[c].stage = "batch" /\ job'[c].puts = puts /\ job'[c].dels = {}
        /\ Puts(c)' = {u \in Utxos : Locked(puts[u])}
    BY <1>1, <1>a, <1>b DEF TryReserve
  <2>2. \A u \in Puts(c)' : u \in S /\ u \in Utxos /\ puts[u] = Reserved(store[u], o)
    BY <2>1 DEF PutFor
  <2>3. \A u \in S : store[u].owner \in {None, o}
    BY <1>1, <1>a DEF TryReserve
  <2> HIDE DEF puts
  <2>4. \A u \in Puts(c)' : /\ store[u].owner \in {None, o}
                            /\ puts[u].owner = o /\ puts[u].prev = Base(store[u])
    <3> SUFFICES ASSUME NEW u \in Puts(c)'
                 PROVE  /\ store[u].owner \in {None, o}
                        /\ puts[u].owner = o /\ puts[u].prev = Base(store[u])
      OBVIOUS
    <3>1. store[u] \in Slot /\ u \in S
      BY <1>a, <2>2
    <3>2. /\ puts[u] = Reserved(store[u], o) /\ store[u].owner \in {None, o} /\ o # None
      BY <2>2, <2>3, <3>1, OwnersAssumption
    <3>3. CASE OwnedBy(store[u], o)
      <4>1. store[u] \in Lock /\ puts[u] = [store[u] EXCEPT !.reason = Pending]
        BY <3>1, <3>2, <3>3 DEF Reserved, OwnedBy
      <4>2. puts[u].owner = store[u].owner /\ puts[u].prev = store[u].prev
        BY <4>1
      <4>. QED
        BY <3>2, <3>3, <4>2 DEF OwnedBy, Base
    <3>4. CASE ~OwnedBy(store[u], o)
      <4>1. store[u].owner = None
        BY <3>1, <3>2, <3>4 DEF OwnedBy
      <4>. QED
        BY <3>2, <3>4, <4>1 DEF Reserved, Base
    <3>. QED
      BY <3>3, <3>4
  <2>5. ReservesFor(c, o)'
    BY <1>a, <2>1, <2>4 DEF ReservesFor, Base
  <2>. QED
    BY <2>1, <2>5 DEF WriteSound
<1>2. ASSUME NEW S \in SUBSET Utxos, NEW o \in Owners,
             NEW previous \in [Utxos -> {None, Rgb}],
             EnsureReservation(c, S, o, previous)
      PROVE  WriteSound(c)'
  <2> DEFINE puts == PutFor(S, [u \in Utxos |-> Adopted(o, previous[u])])
  <2>1. /\ job'[c].stage = "batch" /\ job'[c].puts = puts /\ job'[c].dels = {}
        /\ Puts(c)' = {u \in Utxos : Locked(puts[u])}
    BY <1>2, <1>a, <1>b DEF EnsureReservation
  <2>2. \A u \in Puts(c)' : u \in S /\ u \in Utxos /\ puts[u] = Adopted(o, previous[u])
    BY <2>1 DEF PutFor
  <2>3. \A u \in S : /\ store[u].owner \in {None, o}
                     /\ store[u].owner = None =>
                            store[u].reason \in {None, Pending, previous[u]}
    BY <1>2, <1>a, OwnersAssumption DEF EnsureReservation
  <2> HIDE DEF puts
  <2>4. \A u \in Puts(c)' : /\ puts[u].owner = o /\ puts[u].prev = previous[u]
                            /\ puts[u].prev \in {None, Rgb}
                            /\ u \in S
    <3> SUFFICES ASSUME NEW u \in Puts(c)'
                 PROVE  /\ puts[u].owner = o /\ puts[u].prev = previous[u]
                        /\ puts[u].prev \in {None, Rgb} /\ u \in S
      OBVIOUS
    <3>1. u \in Utxos /\ u \in S /\ puts[u] = Adopted(o, previous[u])
      BY <2>2
    <3>2. previous[u] \in {None, Rgb}
      BY <3>1
    <3>. QED
      BY <3>1, <3>2 DEF Adopted
  <2>5. AdoptsFor(c, o)'
    BY <1>a, <2>1, <2>3, <2>4 DEF AdoptsFor
  <2>. QED
    BY <2>1, <2>5 DEF WriteSound
<1>3. ASSUME NEW S \in SUBSET Utxos, NEW o \in Owners, FinalizeReservation(c, S, o)
      PROVE  WriteSound(c)'
  <2> DEFINE puts == PutFor(S, [u \in Utxos |-> Plain(Rgb)])
  <2>1. /\ job'[c].stage = "batch" /\ job'[c].puts = puts /\ job'[c].dels = {}
        /\ Puts(c)' = {u \in Utxos : Locked(puts[u])}
    BY <1>3, <1>a, <1>b DEF FinalizeReservation
  <2>2. \A u \in Puts(c)' : u \in S /\ puts[u] = Plain(Rgb)
    BY <2>1 DEF PutFor
  <2>3. \A u \in S : store[u].owner \in {None, o}
    BY <1>3, <1>a DEF FinalizeReservation
  <2> HIDE DEF puts
  <2>4. FinalizesFor(c, o)'
    BY <1>a, <2>1, <2>2, <2>3 DEF FinalizesFor
  <2>. QED
    BY <2>1, <2>4 DEF WriteSound
<1>4. ASSUME NEW S \in SUBSET Utxos, NEW o \in Owners, ReleaseReservation(c, S, o)
      PROVE  WriteSound(c)'
  <2> DEFINE Held == {u \in S : Locked(store[u])}
             Claimed == {u \in Held : store[u].prev # None}
             puts == PutFor(Claimed, [u \in Utxos |-> Plain(store[u].prev)])
  <2>0. Start(c, "batch", puts, Held \ Claimed, None)
    BY <1>4, <1>a DEF ReleaseReservation
  <2>1. /\ job'[c].stage = "batch" /\ job'[c].puts = puts
        /\ job'[c].dels = Held \ Claimed
        /\ Puts(c)' = {u \in Utxos : Locked(puts[u])}
    BY <2>0, <1>b
  <2>2. \A u \in Puts(c)' : u \in Claimed /\ puts[u] = Plain(store[u].prev)
    BY <2>1 DEF PutFor
  <2>3. \A u \in Held : store[u].owner = o
    BY <1>4, <1>a DEF ReleaseReservation
  <2> HIDE DEF puts
  <2>4. ReleasesFor(c, o)'
    BY <1>a, <2>1, <2>2, <2>3 DEF ReleasesFor
  <2>. QED
    BY <2>1, <2>4 DEF WriteSound
<1>5. ASSUME NEW u \in Utxos, NEW reason \in {Rgb, Pending}, SetLockReason(c, u, reason)
      PROVE  WriteSound(c)'
  <2> DEFINE puts == PutFor({u}, [v \in Utxos |-> Relabelled(store[v], reason)])
  <2>1. /\ job'[c].stage = "batch" /\ job'[c].puts = puts /\ job'[c].dels = {}
        /\ Puts(c)' = {v \in Utxos : Locked(puts[v])}
    BY <1>5, <1>a, <1>b DEF SetLockReason
  <2>2. puts[u] = Relabelled(store[u], reason) /\ \A v \in Utxos : v # u => puts[v] = NoLock
    BY DEF PutFor
  <2>3. puts[u].reason = reason
    BY <1>a, <2>2 DEF Relabelled
  <2> HIDE DEF puts
  <2>4. Puts(c)' = {u}
    BY <2>1, <2>2, <2>3
  <2>5. Relabels(c)'
    BY <1>a, <2>1, <2>2, <2>3, <2>4 DEF Relabels
  <2>. QED
    BY <2>1, <2>5 DEF WriteSound
<1>6. ASSUME NEW S \in SUBSET Utxos, NEW reason \in {Rgb, Broadcasted},
             LockUtxos(c, S, reason)
      PROVE  WriteSound(c)'
  <2> DEFINE Unlocked == {u \in S : ~Locked(store[u])}
             puts == PutFor(Unlocked, [u \in Utxos |-> Plain(reason)])
  <2>0. Start(c, "direct", puts, {}, None)
    BY <1>6, <1>a DEF LockUtxos
  <2>1. /\ job'[c].stage = "direct" /\ job'[c].puts = puts
        /\ Puts(c)' = {u \in Utxos : Locked(puts[u])}
    BY <1>b, <2>0
  <2>2. \A u \in Puts(c)' : u \in Unlocked /\ puts[u] = Plain(reason)
    <3>1. \A u \in Utxos : u \notin Unlocked => puts[u] = NoLock
      BY DEF PutFor
    <3>2. \A u \in Utxos : u \in Unlocked => puts[u] = Plain(reason)
      BY DEF PutFor
    <3>3. ~Locked(NoLock)
      OBVIOUS
    <3>. QED
      BY <2>1, <3>1, <3>2, <3>3
  <2>. QED
    BY <1>a, <2>1, <2>2 DEF WriteSound, Plain
<1>7. ASSUME NEW dels, Start(c, "direct", Empty, dels, None)
      PROVE  WriteSound(c)'
  BY <1>7, <1>b DEF WriteSound, Empty
<1>8. CASE \E S \in SUBSET Utxos : \/ UnlockUtxos(c, S) \/ CheckBlock(c, S)
                                   \/ CheckExisting(c, Utxos \ S)
  BY <1>7, <1>8 DEF UnlockUtxos, CheckBlock, CheckExisting, DropSpent
<1>. QED
  BY <1>1, <1>2, <1>3, <1>4, <1>5, <1>6, <1>8 DEF Call

LEMMA StepWrites ==
    ASSUME TypeOK, CopyInv, NEW c, Exact(c), WriteSound(c),
           \/ FlushPuts(c) \/ FlushRemoves(c) \/ FlushFails(c) \/ WriteLock(c)
           \/ WriteLockFails(c) \/ DeleteLock(c) \/ WriteMarker(c)
           \/ ReloadOnly(c) \/ Restart(c)
    PROVE  WriteSound(c)'
<1> c \in Contexts
  BY DEF Exact
<1>a. /\ store \in Table /\ job \in [Contexts -> Job]
      /\ job[c].puts \in Table /\ job[c].dels \in SUBSET Utxos
  BY DEF TypeOK, Job
<1>b. PlanSound(c) /\ "silent" \notin Faults
  BY DEF CopyInv, Exact
<1>0. ASSUME job'[c] = NoJob PROVE WriteSound(c)'
  BY <1>0 DEF WriteSound, NoJob
<1>1. CASE FlushPuts(c)
  <2>1. store' = [u \in Utxos |-> IF u \in Puts(c) THEN job[c].puts[u]
                                  ELSE IF ~SplitBatch /\ u \in job[c].dels THEN NoLock
                                  ELSE store[u]]
    BY <1>1, <1>b DEF FlushPuts
  <2>2. job'[c].stage = "remove" /\ job'[c].dels = job[c].dels
    BY <1>1, <1>a DEF FlushPuts, Job
  <2>3. \A u \in job[c].dels : store'[u] \in {store[u], NoLock}
    BY <1>a, <1>b, <2>1 DEF PlanSound, Puts
  <2>4. PICK o \in Owners \cup {None} :
            \A u \in job[c].dels : store[u].owner = o /\ store[u].prev = None /\ o \in Owners
    BY <1>1 DEF FlushPuts, WriteSound, Relabels, ReservesFor, AdoptsFor, FinalizesFor, ReleasesFor
  <2>. QED
    BY <2>2, <2>3, <2>4 DEF WriteSound
<1>2. CASE FlushRemoves(c) \/ FlushFails(c) \/ WriteLockFails(c) \/ WriteMarker(c) \/ Restart(c)
  <2>1. job'[c] = NoJob
    BY <1>2, <1>a DEF FlushRemoves, FlushFails, WriteLockFails, WriteMarker, Restart
  <2>. QED
    BY <1>0, <2>1
<1>3. CASE WriteLock(c)
  <2>1. PICK u \in Puts(c) : /\ store' = [store EXCEPT ![u] = job[c].puts[u]]
                             /\ job' = [job EXCEPT ![c].puts[u] = NoLock]
    BY <1>3, <1>b DEF WriteLock
  <2>2. u \in Utxos /\ job[c].stage = "direct"
    BY <1>3 DEF Puts, WriteLock
  <2>3. /\ job'[c].stage = "direct"
        /\ job'[c].puts = [job[c].puts EXCEPT ![u] = NoLock]
    BY <1>a, <2>1, <2>2 DEF Job
  <2>4. \A v \in Puts(c)' : v # u /\ v \in Puts(c) /\ v \in Utxos
                            /\ job'[c].puts[v] = job[c].puts[v] /\ store'[v] = store[v]
    BY <1>a, <2>1, <2>2, <2>3 DEF Puts
  <2>. QED
    BY <2>2, <2>3, <2>4 DEF WriteSound
<1>4. CASE DeleteLock(c)
  <2>1. PICK u \in job[c].dels : /\ store' \in {store, [store EXCEPT ![u] = NoLock]}
                                 /\ job' = [job EXCEPT ![c].dels = @ \ {u}]
    BY <1>4 DEF DeleteLock
  <2>2. job[c].stage = "direct"
    BY <1>4 DEF DeleteLock
  <2>3. job'[c].stage = "direct" /\ job'[c].puts = job[c].puts
    BY <1>a, <2>1, <2>2 DEF Job
  <2>4. Puts(c)' = Puts(c) /\ \A v \in Utxos : store'[v] \in {store[v], NoLock}
    BY <1>a, <2>1, <2>3 DEF Puts
  <2>. QED
    BY <2>2, <2>3, <2>4 DEF WriteSound, Puts
<1>5. CASE ReloadOnly(c)
  BY <1>5, <1>0, <1>b DEF ReloadOnly, PlanSound
<1>. QED
  BY <1>1, <1>2, <1>3, <1>4, <1>5

THEOREM WriteInvariant ==
    ASSUME NEW c, Exact(c)
    PROVE  Spec => []WriteInv
<1>1. Init => WriteInv
  <2> SUFFICES ASSUME Init, NEW d \in Contexts PROVE WriteSound(d)
    BY DEF WriteInv
  <2>1. job[d].stage = "idle"
    BY DEF Init, NoJob
  <2>. QED
    BY <2>1 DEF WriteSound
<1>2. TypeOK /\ CopyInv /\ WriteInv /\ [Next]_vars => WriteInv'
  <2> SUFFICES ASSUME TypeOK, CopyInv, WriteInv, [Next]_vars PROVE WriteSound(c)'
    BY DEF WriteInv, Exact
  <2>0. WriteSound(c) /\ c \in Contexts
    BY DEF WriteInv, Exact
  <2>1. CASE \E d \in Contexts : Call(d)
    BY <2>1, CallWrites DEF Exact
  <2>2. CASE Tick \/ UNCHANGED vars
    <3>1. UNCHANGED <<store, job>>
      BY <2>2 DEF Tick, vars
    <3>. QED
      BY <2>0, <3>1 DEF WriteSound, Relabels, ReservesFor, AdoptsFor, FinalizesFor,
                        ReleasesFor, Puts
  <2>. QED
    BY <2>0, <2>1, <2>2, StepWrites DEF Next, Exact
<1>. QED
  BY <1>1, <1>2, TypeCorrect, CopyInvariant, PTL DEF Spec

\* How a lock shows in UtxoReservations.
Shows(u, o, b) == store'[u].owner = o /\ Base(store'[u]) = b
Same(u)        == Shows(u, store[u].owner, Base(store[u]))

\* The steps of UtxoReservations, outpoint by outpoint.
LEMMA ReserveMaps ==
    ASSUME NEW S \in SUBSET Utxos, NEW o \in Owners,
           \A u \in S : store[u].owner \in {None, o} /\ Shows(u, o, Base(store[u])),
           \A u \in Utxos \ S : Same(u)
    PROVE  Reservations!Next
<1>1. Reservations!Reserve(S, o)
  BY DEF Reservations!Reserve, Reservations!Available, Reservations!Update,
         Reservations!None, Shows, Same
<1>. QED
  BY <1>1 DEF Reservations!Next

LEMMA AdoptMaps ==
    ASSUME NEW S \in SUBSET Utxos, NEW o \in Owners, NEW journal \in [Utxos -> {None, Rgb}],
           \A u \in S : /\ store[u].owner \in {None, o}
                        /\ store[u].owner = None => Base(store[u]) \in {None, Pending, journal[u]}
                        /\ Shows(u, o, journal[u]),
           \A u \in Utxos \ S : Same(u)
    PROVE  Reservations!Next
<1>1. Reservations!Adopt(S, o, journal)
  BY DEF Reservations!Adopt, Reservations!Available, Reservations!Update,
         Reservations!None, Shows, Same
<1>. QED
  BY <1>1 DEF Reservations!Next, Reservations!None

LEMMA FinalizeMaps ==
    ASSUME NEW S \in SUBSET Utxos, NEW o \in Owners,
           \A u \in S : store[u].owner \in {None, o} /\ Shows(u, None, Rgb),
           \A u \in Utxos \ S : Same(u)
    PROVE  Reservations!Next
<1>1. Reservations!Finalize(S, o)
  BY DEF Reservations!Finalize, Reservations!Available, Reservations!Update,
         Reservations!None, Shows, Same
<1>. QED
  BY <1>1 DEF Reservations!Next

LEMMA ReleaseMaps ==
    ASSUME NEW S \in SUBSET Utxos, NEW o \in Owners,
           \A u \in S : store[u].owner = o /\ Shows(u, None, Base(store[u])),
           \A u \in Utxos \ S : Same(u)
    PROVE  Reservations!Next
<1>1. Reservations!Release(S, o)
  BY DEF Reservations!Release, Reservations!Update, Reservations!None, Shows, Same
<1>. QED
  BY <1>1 DEF Reservations!Next

LEMMA RelockMaps ==
    ASSUME NEW v \in Utxos, NEW reason \in Reasons,
           store[v].owner = None, Shows(v, None, reason),
           \A u \in Utxos \ {v} : Same(u)
    PROVE  Reservations!Next
<1>1. Reservations!Relock(v, reason)
  BY DEF Reservations!Relock, Reservations!None, Shows, Same
<1>. QED
  BY <1>1 DEF Reservations!Next

LEMMA StripMaps ==
    ASSUME NEW v \in Utxos, Shows(v, None, None), \A u \in Utxos \ {v} : Same(u)
    PROVE  Reservations!Next
<1>1. Reservations!Strip(v)
  BY DEF Reservations!Strip, Reservations!None, Shows, Same
<1>. QED
  BY <1>1 DEF Reservations!Next

LEMMA StutterMaps ==
    ASSUME \A u \in Utxos : Same(u)
    PROVE  UNCHANGED Reservations!vars
BY DEF Reservations!vars, Shows, Same

\* The first half of a batch, whatever call planned it.
LEMMA FlushPutsMaps ==
    ASSUME TypeOK, CopyInv, WriteInv, NEW c, Exact(c), FlushPuts(c)
    PROVE  Reservations!Next
<1> c \in Contexts
  BY DEF Exact
<1> DEFINE P == Puts(c)
           D == IF SplitBatch THEN {} ELSE job[c].dels
<1>a. /\ store \in Table /\ job[c].puts \in Table /\ job[c].dels \in SUBSET Utxos
      /\ P \in SUBSET Utxos /\ D \in SUBSET Utxos
  BY DEF TypeOK, Job, Puts
<1>b. store' = [u \in Utxos |-> IF u \in P THEN job[c].puts[u]
                                ELSE IF u \in D THEN NoLock ELSE store[u]]
  BY DEF FlushPuts, Exact
<1>c. /\ \A u \in P : u \in Utxos /\ store'[u] = job[c].puts[u] /\ Locked(store'[u])
      /\ \A u \in D : u \in Utxos /\ store'[u] = NoLock /\ u \notin P
      /\ \A u \in Utxos \ (P \cup D) : store'[u] = store[u]
  BY <1>a, <1>b DEF CopyInv, PlanSound, Puts
<1>d. \A u \in Utxos \ (P \cup D) : Same(u)
  BY <1>c DEF Same, Shows
<1>e. job[c].dels = {} => D = {}
  OBVIOUS
<1>f. D \subseteq job[c].dels
  OBVIOUS
<1> HIDE DEF P, D
<1>1. CASE Relabels(c)
  <2>1. PICK v \in Utxos : Puts(c) = {v} /\ job[c].dels = {}
                           /\ job[c].puts[v] = Relabelled(store[v], job[c].puts[v].reason)
    BY <1>1 DEF Relabels
  <2>2. P = {v} /\ D = {}
    BY <1>e, <2>1 DEF P
  <2>3. /\ store'[v] = Relabelled(store[v], job[c].puts[v].reason)
        /\ job[c].puts[v].reason \in Reasons
    BY <1>a, <1>c, <2>1, <2>2
  <2>4. store'[v].owner = store[v].owner /\ store'[v].prev = store[v].prev
        /\ store'[v].reason \in Reasons
    BY <1>a, <2>3 DEF Relabelled
  <2>5. \A u \in Utxos \ {v} : Same(u)
    BY <1>d, <2>2
  <2>6. CASE store[v].owner = None
    <3>1. Shows(v, None, store'[v].reason)
      BY <2>4, <2>6 DEF Shows, Base
    <3>. QED
      BY <2>4, <2>5, <2>6, <3>1, RelockMaps
  <2>7. CASE store[v].owner # None
    <3>1. PICK o \in Owners : store[v].owner = o
      BY <1>a, <2>7
    <3>2. Shows(v, o, Base(store[v]))
      BY <2>4, <2>7, <3>1 DEF Shows, Base
    <3>3. /\ {v} \in SUBSET Utxos /\ \A u \in Utxos \ {v} : Same(u)
          /\ \A u \in {v} : store[u].owner \in {None, o} /\ Shows(u, o, Base(store[u]))
      BY <2>5, <3>1, <3>2
    <3>. QED
      BY <3>3, ReserveMaps
  <2>. QED
    BY <2>6, <2>7
<1>2. ASSUME NEW o \in Owners, ReservesFor(c, o)
      PROVE  Reservations!Next
  <2>1. D = {} /\ \A u \in P : store[u].owner \in {None, o} /\ Shows(u, o, Base(store[u]))
    BY <1>2, <1>c, <1>e, OwnersAssumption DEF ReservesFor, Shows, Base, P
  <2>. QED
    BY <1>a, <1>d, <2>1, ReserveMaps
<1>3. ASSUME NEW o \in Owners, AdoptsFor(c, o)
      PROVE  Reservations!Next
  <2> DEFINE journal == [u \in Utxos |-> IF u \in P THEN job[c].puts[u].prev ELSE None]
  <2>1. D = {} /\ journal \in [Utxos -> {None, Rgb}]
    BY <1>3, <1>e DEF AdoptsFor, P
  <2>2. \A u \in P : /\ store[u].owner \in {None, o} /\ Shows(u, o, journal[u])
                     /\ store[u].owner = None => Base(store[u]) \in {None, Pending, journal[u]}
    <3> SUFFICES ASSUME NEW u \in P
                 PROVE  /\ store[u].owner \in {None, o} /\ Shows(u, o, journal[u])
                        /\ store[u].owner = None =>
                               Base(store[u]) \in {None, Pending, journal[u]}
      OBVIOUS
    <3>1. u \in Utxos /\ journal[u] = job[c].puts[u].prev /\ store'[u] = job[c].puts[u]
      BY <1>a, <1>c
    <3>. QED
      BY <1>3, <3>1, OwnersAssumption DEF AdoptsFor, Shows, Base, P
  <2> HIDE DEF journal
  <2>. QED
    <3>1. P \in SUBSET Utxos /\ \A u \in Utxos \ P : Same(u)
      BY <1>a, <1>d, <2>1
    <3>. QED
      BY <2>1, <2>2, <3>1, AdoptMaps
<1>4. ASSUME NEW o \in Owners, FinalizesFor(c, o)
      PROVE  Reservations!Next
  <2>1. D = {} /\ \A u \in P : store[u].owner \in {None, o} /\ Shows(u, None, Rgb)
    BY <1>4, <1>c, <1>e DEF FinalizesFor, Shows, Base, Plain, P
  <2>. QED
    BY <1>a, <1>d, <2>1, FinalizeMaps
<1>5. ASSUME NEW o \in Owners, ReleasesFor(c, o)
      PROVE  Reservations!Next
  <2>1. \A u \in P : store[u].owner = o /\ Shows(u, None, Base(store[u]))
    <3> SUFFICES ASSUME NEW u \in P
                 PROVE  store[u].owner = o /\ Shows(u, None, Base(store[u]))
      OBVIOUS
    <3>1. store[u].owner = o /\ store'[u] = Plain(store[u].prev)
      BY <1>5, <1>c DEF ReleasesFor, P
    <3>. QED
      BY <3>1, OwnersAssumption DEF Shows, Base, Plain
  <2>2. \A u \in D : store[u].owner = o /\ Shows(u, None, Base(store[u]))
    BY <1>5, <1>c, <1>f, OwnersAssumption DEF ReleasesFor, Shows, Base
  <2>. QED
    <3> DEFINE S == P \cup D
    <3>1. S \in SUBSET Utxos /\ \A u \in Utxos \ S : Same(u)
      BY <1>a, <1>d
    <3>2. \A u \in S : store[u].owner = o /\ Shows(u, None, Base(store[u]))
      BY <2>1, <2>2
    <3> HIDE DEF S
    <3>. QED
      BY <3>1, <3>2, ReleaseMaps
<1>. QED
  BY <1>1, <1>2, <1>3, <1>4, <1>5 DEF FlushPuts, WriteInv, WriteSound

LEMMA StepMaps ==
    ASSUME TypeOK, CopyInv, WriteInv, NEW c, Exact(c), [Next]_vars
    PROVE  Reservations!Next \/ UNCHANGED Reservations!vars
<1> c \in Contexts
  BY DEF Exact
<1>a. /\ store \in Table /\ job[c].puts \in Table /\ job[c].dels \in SUBSET Utxos
  BY DEF TypeOK, Job
<1>b. WriteSound(c) /\ CopySound(c) /\ PlanSound(c) /\ "silent" \notin Faults
  BY DEF WriteInv, CopyInv, Exact
<1>0. ASSUME store' = store PROVE UNCHANGED Reservations!vars
  BY <1>0, StutterMaps DEF Same, Shows
<1>1. CASE Call(c) \/ ReloadOnly(c) \/ Restart(c) \/ WriteMarker(c) \/ FlushFails(c)
           \/ WriteLockFails(c) \/ Tick \/ UNCHANGED vars
  <2>1. store' = store
    BY <1>1 DEF Call, TryReserve, EnsureReservation, FinalizeReservation, ReleaseReservation,
         SetLockReason, LockUtxos, UnlockUtxos, CheckBlock, CheckExisting, DropSpent,
         ReloadOnly, Restart, WriteMarker, FlushFails, WriteLockFails, Tick, vars
  <2>. QED
    BY <1>0, <2>1
<1>2. CASE FlushPuts(c)
  BY <1>2, FlushPutsMaps
<1>3. CASE FlushRemoves(c)
  <2>1. store' = [u \in Utxos |-> IF u \in job[c].dels THEN NoLock ELSE store[u]]
    BY <1>3, <1>b DEF FlushRemoves
  <2>2. CASE job[c].dels = {}
    BY <1>0, <1>a, <2>1, <2>2
  <2>3. CASE job[c].dels # {}
    <3>1. PICK o \in Owners : \A u \in job[c].dels :
              store[u] = NoLock \/ (store[u].owner = o /\ store[u].prev = None)
      BY <1>3, <1>b, <2>3 DEF FlushRemoves, WriteSound
    <3> DEFINE S == {u \in job[c].dels : store[u] # NoLock}
    <3>2. \A u \in S : store[u].owner = o /\ Shows(u, None, Base(store[u]))
      BY <1>a, <2>1, <3>1, OwnersAssumption DEF Shows, Base
    <3>3. \A u \in Utxos \ S : Same(u)
      BY <1>a, <2>1 DEF Same, Shows
    <3>4. S \in SUBSET Utxos
      BY <1>a
    <3> HIDE DEF S
    <3>. QED
      BY <3>2, <3>3, <3>4, ReleaseMaps
  <2>. QED
    BY <2>2, <2>3
<1>4. CASE WriteLock(c)
  <2>1. PICK v \in Puts(c) : store' = [store EXCEPT ![v] = job[c].puts[v]]
    BY <1>4, <1>b DEF WriteLock
  <2>2. v \in Utxos /\ Locked(job[c].puts[v]) /\ ~Locked(store[v])
        /\ job[c].puts[v].owner = None
    BY <1>4, <1>b DEF Puts, WriteLock, WriteSound
  <2>3. store'[v] = job[c].puts[v] /\ \A u \in Utxos \ {v} : store'[u] = store[u]
    BY <1>a, <2>1, <2>2
  <2>4. store[v].owner = None /\ job[c].puts[v].reason \in Reasons
    BY <1>a, <2>2
  <2>5. Shows(v, None, job[c].puts[v].reason)
    BY <2>2, <2>3 DEF Shows, Base
  <2>6. \A u \in Utxos \ {v} : Same(u)
    BY <2>3 DEF Same, Shows
  <2>. QED
    BY <2>2, <2>4, <2>5, <2>6, RelockMaps
<1>5. CASE DeleteLock(c)
  <2>1. PICK v \in job[c].dels : store' \in {store, [store EXCEPT ![v] = NoLock]}
    BY <1>5 DEF DeleteLock
  <2>2. CASE store' = store
    BY <1>0, <2>2
  <2>3. CASE store' = [store EXCEPT ![v] = NoLock]
    <3>1. v \in Utxos /\ Shows(v, None, None)
      BY <1>a, <2>3 DEF Shows, Base
    <3>2. \A u \in Utxos \ {v} : Same(u)
      BY <1>a, <2>3 DEF Same, Shows
    <3>. QED
      BY <3>1, <3>2, StripMaps
  <2>. QED
    BY <2>1, <2>2, <2>3
<1>. QED
  BY <1>1, <1>2, <1>3, <1>4, <1>5 DEF Next, Exact

\* The lock table of a context that has the store to itself implements
\* UtxoReservations: a reservation is all or nothing although its records,
\* its marker and its removals are written apart, a refused write leaves no
\* half of one, and a release gives back the lock it found.
THEOREM RefinesReservations ==
    ASSUME NEW c, Exact(c)
    PROVE  Spec => ImplementsReservations
<1>1. Init => Reservations!Init
  BY DEF Init, Empty, Reservations!Init, Reservations!None, Base
<1>2. TypeOK /\ CopyInv /\ WriteInv /\ [Next]_vars => [Reservations!Next]_Reservations!vars
  BY StepMaps
<1>. QED
  BY <1>1, <1>2, TypeCorrect, CopyInvariant, WriteInvariant, PTL
     DEF Spec, ImplementsReservations, Reservations!Spec
=============================================================================
