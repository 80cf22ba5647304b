------------------------- MODULE Rgb11TransferProofs -------------------------
(***************************************************************************)
(* What is proved of the transfers, for any transfers, carriers and        *)
(* callers, any number of restarts and of dropped transactions, and every  *)
(* kind of fault.                                                          *)
(***************************************************************************)
EXTENDS Rgb11Transfer, TLAPS

USE DEF chain, journal

-----------------------------------------------------------------------------
(* Type correctness.                                                       *)

Steps == {"none", "reserve", "change", "save", "send", "release", "read", "rebuild"}

LEMMA Plain ==
  /\ Unlocked \in Locks /\ Unlocked.owner = None /\ Unlocked.reason = "none" /\ Unlocked.prev = "none"
  /\ Idle \in Ops /\ Idle.kind = "idle"
  /\ NoRefresh \in Refreshes /\ NoRefresh.at = "none" /\ NoRefresh.todo = {}
BY DEF Unlocked, Locks, Reasons, Idle, Ops, Kinds, Statuses, NoRefresh, Refreshes

LEMMA Names ==
  /\ None \notin Transfers /\ None \notin Outpoints /\ Transfers \subseteq Outpoints
  /\ Carriers \subseteq Outpoints
BY ConstantsAssumption DEF Outpoints

\* A lock, field by field, as each call of the locker leaves it.
LEMMA LockWith ==
  ASSUME NEW x \in Locks, NEW r \in Reasons
  PROVE  /\ [x EXCEPT !.reason = r] \in Locks
         /\ [x EXCEPT !.reason = r].owner = x.owner
         /\ [x EXCEPT !.reason = r].prev = x.prev
         /\ [x EXCEPT !.reason = r].reason = r
BY DEF Locks

LEMMA LockOf ==
  ASSUME NEW t \in Transfers \cup {None}, NEW r \in Reasons, NEW p \in Reasons
  PROVE  [owner |-> t, reason |-> r, prev |-> p] \in Locks
BY DEF Locks

LEMMA LockerTypes ==
  ASSUME NEW l \in [Outpoints -> Locks], NEW t \in Transfers, NEW S, NEW r \in Reasons
  PROVE  /\ SetLockReason(l, S, r) \in [Outpoints -> Locks]
         /\ Reserve(l, S, t) \in [Outpoints -> Locks]
         /\ Release(l, S) \in [Outpoints -> Locks]
         /\ Adopt(l, t, S) \in [Outpoints -> Locks]
         /\ Finalize(l, t) \in [Outpoints -> Locks]
<1>1. /\ {"rgb", "pending", "none"} \subseteq Reasons
      /\ \A o \in Outpoints : l[o] \in Locks /\ l[o].reason \in Reasons /\ l[o].prev \in Reasons
  BY DEF Locks, Reasons
<1>2. SetLockReason(l, S, r) \in [Outpoints -> Locks]
  BY <1>1, LockWith DEF SetLockReason
<1>3. Reserve(l, S, t) \in [Outpoints -> Locks]
  BY <1>1, LockOf DEF Reserve
<1>4. \A q \in Reasons : [Unlocked EXCEPT !.reason = q] \in Locks
  BY Plain, LockWith
<1>5. Release(l, S) \in [Outpoints -> Locks]
  BY <1>1, <1>4 DEF Release
<1>6. Adopt(l, t, S) \in [Outpoints -> Locks]
  BY <1>1, LockOf DEF Adopt
<1>7. Finalize(l, t) \in [Outpoints -> Locks]
  BY <1>1, <1>4 DEF Finalize
<1>. QED
  BY <1>2, <1>3, <1>5, <1>6, <1>7

\* What a caller does, replaced.
LEMMA Moved ==
  ASSUME TypeOK, NEW c \in Callers, NEW x \in Ops, op' = [op EXCEPT ![c] = x],
         x.kind # "idle" => x.t # None
  PROVE  /\ op' \in [Callers -> Ops] /\ op'[c] = x
         /\ \A d \in Callers : d # c => op'[d] = op[d]
         /\ \A d \in Callers : op'[d].kind # "idle" => op'[d].t # None
BY DEF TypeOK

LEMMA Began ==
  ASSUME TypeOK, NEW c \in Callers, NEW kind \in Kinds, NEW t \in Transfers, NEW at \in Steps,
         NEW S \in SUBSET Outpoints, Begin(c, kind, t, at, S)
  PROVE  /\ op[c].kind = "idle"
         /\ \E x \in Ops : /\ x.kind = kind /\ x.t = t /\ x.at = at /\ x.ins = S
                           /\ op' = [op EXCEPT ![c] = x]
<1>1. PICK x : x = [Idle EXCEPT !.kind = kind, !.t = t, !.at = at, !.ins = S]
  OBVIOUS
<1>2. x \in Ops /\ x.kind = kind /\ x.t = t /\ x.at = at /\ x.ins = S
  BY <1>1, Plain DEF Ops, Idle, Steps, Statuses
<1>. QED
  BY <1>1, <1>2 DEF Begin

LEMMA Went ==
  ASSUME TypeOK, NEW c \in Callers, NEW at \in Steps, Goes(c, at)
  PROVE  \E x \in Ops : /\ x.kind = op[c].kind /\ x.t = op[c].t /\ x.at = at
                        /\ x.ins = op[c].ins /\ x.read = op[c].read
                        /\ op' = [op EXCEPT ![c] = x]
<1>1. op[c] \in Ops
  BY DEF TypeOK
<1>2. PICK x : x = [op[c] EXCEPT !.at = at]
  OBVIOUS
<1>3. x \in Ops /\ x.kind = op[c].kind /\ x.t = op[c].t /\ x.at = at /\ x.ins = op[c].ins /\ x.read = op[c].read
  BY <1>1, <1>2 DEF Ops, Steps
<1>4. op' = [op EXCEPT ![c] = x]
  BY <1>2 DEF Goes
<1>. QED
  BY <1>3, <1>4

\* Types of the callers, after each of the three.
CallTypes ==
  /\ op \in [Callers -> Ops]
  /\ \A c \in Callers : op[c].kind # "idle" => op[c].t # None

LEMMA BeginTypes ==
  ASSUME TypeOK, NEW c \in Callers, NEW kind \in Kinds, NEW t \in Transfers, NEW at \in Steps,
         NEW S \in SUBSET Outpoints, Begin(c, kind, t, at, S)
  PROVE  CallTypes'
BY Began, Moved, Names DEF CallTypes

LEMMA EndTypes ==
  ASSUME TypeOK, NEW c \in Callers, End(c)
  PROVE  CallTypes'
BY Moved, Plain DEF CallTypes, End

LEMMA GoesTypes ==
  ASSUME TypeOK, NEW c \in Callers, NEW at \in Steps, Goes(c, at)
  PROVE  CallTypes'
<1>1. op[c].kind # "idle" => op[c].t # None
  BY DEF TypeOK
<1>. QED
  BY <1>1, Went, Moved DEF CallTypes

-----------------------------------------------------------------------------
(* The rebuild of the locks.                                               *)

Reads == [Transfers -> Statuses]

\* The transfers whose groups have been restored own them; a settled change
\* is free; no other lock is touched.
LEMMA Adopted ==
  ASSUME TypeOK, NEW read \in Reads, NEW G \in SUBSET Live(read), NEW l,
         \A t \in G : ~GroupFails(read, t), l = AdoptAll(read, G)
  PROVE  /\ l \in [Outpoints -> Locks]
         /\ \A o \in Outpoints :
              \/ \E t \in G : /\ o \in Group(read, t) /\ lock[o].owner \in {t, None}
                              /\ l[o].owner = t /\ l[o].reason = "pending"
              \/ /\ o \in G /\ read[o] = "settled" /\ lock[o].owner \in {o, None}
                 /\ \A t \in G : o \notin Group(read, t)
                 /\ l[o].owner = None /\ l[o].reason = "rgb"
              \/ /\ l[o] = lock[o] /\ o \notin G
                 /\ \A t \in G : o \notin Group(read, t)
<1>1. Live(read) \subseteq Transfers /\ lock \in [Outpoints -> Locks]
  BY DEF Live, TypeOK
<1> SUFFICES ASSUME NEW o \in Outpoints
             PROVE  /\ l[o] \in Locks
                    /\ \/ \E t \in G : /\ o \in Group(read, t) /\ lock[o].owner \in {t, None}
                                       /\ l[o].owner = t /\ l[o].reason = "pending"
                       \/ /\ o \in G /\ read[o] = "settled" /\ lock[o].owner \in {o, None}
                          /\ \A t \in G : o \notin Group(read, t)
                          /\ l[o].owner = None /\ l[o].reason = "rgb"
                       \/ /\ l[o] = lock[o] /\ o \notin G
                          /\ \A t \in G : o \notin Group(read, t)
  <2>1. l = [o \in Outpoints |-> l[o]]
    BY DEF AdoptAll
  <2>. QED  BY <2>1
<1>2. CASE \E t \in G : o \in Group(read, t)
  <2>1. PICK t : t = CHOOSE u \in G : o \in Group(read, u)
    OBVIOUS
  <2>2. t \in G /\ o \in Group(read, t)
    BY <1>2, <2>1
  <2>3. l[o] = Adopt(lock, t, Group(read, t))[o]
    BY <1>2, <2>1 DEF AdoptAll
  <2>4. l[o] \in Locks
    BY <1>1, <2>2, <2>3, LockerTypes DEF Reasons
  <2>5. l[o].owner = t /\ l[o].reason = "pending"
    BY <2>2, <2>3 DEF Adopt
  <2>6. lock[o].owner \in {t, None}
    BY <2>2 DEF GroupFails, Adoptable
  <2>. QED  BY <2>2, <2>4, <2>5, <2>6
<1>3. CASE (\A t \in G : o \notin Group(read, t)) /\ o \in G
  <2>1. l[o] = Finalize(lock, o)[o]
    BY <1>3 DEF AdoptAll
  <2>2. l[o] = [Unlocked EXCEPT !.reason = "rgb"]
    BY <1>1, <2>1 DEF Finalize
  <2>3. l[o] \in Locks /\ l[o].owner = None /\ l[o].reason = "rgb"
    <3>1. Unlocked \in Locks /\ "rgb" \in Reasons
      BY Plain DEF Reasons
    <3>2. Unlocked.owner = None
      BY Plain
    <3>. QED  BY <2>2, <3>1, <3>2, LockWith
  <2>4. read[o] = "settled"
    BY <1>3 DEF Group
  <2>5. lock[o].owner \in {o, None}
    BY <1>3, <2>4 DEF GroupFails, Finalizable
  <2>. QED  BY <1>3, <2>3, <2>4, <2>5
<1>4. CASE (\A t \in G : o \notin Group(read, t)) /\ o \notin G
  <2>1. l[o] = lock[o]
    BY <1>4 DEF AdoptAll
  <2>. QED  BY <1>1, <1>4, <2>1
<1>. QED
  BY <1>2, <1>3, <1>4

\* What a rebuild leaves: it restored some groups; if it came to the end these
\* are all, the locks that nothing accounts for are released, and the reasons
\* of the others are set.
Rebuilt(read, G, l, m) ==
  /\ G \subseteq Live(read) /\ \A t \in G : ~GroupFails(read, t)
  /\ l = AdoptAll(read, G)
  /\ m \in [Outpoints -> Locks]
  /\ \/ m = l
     \/ G = Live(read) /\ m = Release(l, Stale(l, read))
  /\ \A o \in Outpoints : /\ lock'[o] \in Locks
                          /\ lock'[o].owner = m[o].owner /\ lock'[o].prev = m[o].prev
                          /\ lock'[o].reason \in {m[o].reason, "rgb", "pending"}

LEMMA ReasonSet ==
  ASSUME NEW x \in Locks, NEW y, NEW z,
         y \in {x, [x EXCEPT !.reason = "pending"]},
         z \in {y, [y EXCEPT !.reason = "pending"], [y EXCEPT !.reason = "rgb"]}
  PROVE  /\ z \in Locks /\ z.owner = x.owner /\ z.prev = x.prev
         /\ z.reason \in {x.reason, "rgb", "pending"}
<1>1. "rgb" \in Reasons /\ "pending" \in Reasons
  BY DEF Reasons
<1>2. y \in Locks /\ y.owner = x.owner /\ y.prev = x.prev /\ y.reason \in {x.reason, "pending"}
  <2>1. CASE y = x
    BY <2>1
  <2>2. CASE y = [x EXCEPT !.reason = "pending"]
    BY <1>1, <2>2, LockWith
  <2>. QED  BY <2>1, <2>2
<1>3. CASE z = y
  BY <1>2, <1>3
<1>4. CASE z = [y EXCEPT !.reason = "pending"]
  BY <1>1, <1>2, <1>4, LockWith
<1>5. CASE z = [y EXCEPT !.reason = "rgb"]
  BY <1>1, <1>2, <1>5, LockWith
<1>. QED
  BY <1>3, <1>4, <1>5

LEMMA RebuildSteps ==
  ASSUME TypeOK, NEW read \in Reads, RebuildLocks(read)
  PROVE  /\ \E G, l, m : Rebuilt(read, G, l, m)
         /\ lock' \in [Outpoints -> Locks]
         /\ consistency' \in {"ok", "warning", "broken"}
<1> DEFINE failing == {t \in Live(read) : GroupFails(read, t)}
           all == AdoptAll(read, Live(read))
           rest == Release(all, Stale(all, read))
           base == SetLockReason(Reconciled(read), SpentBy(Live(read)) \cup Live(read), "pending")
           After(S) == lock' = [o \in Outpoints |->
                                  IF o \in S THEN [base[o] EXCEPT !.reason = CarrierReason(o, read)]
                                  ELSE base[o]]
<1>0. Live(read) \subseteq Transfers /\ lock \in [Outpoints -> Locks]
  BY DEF Live, TypeOK
<1>1. CASE failing = {} /\ Agree(Live(read))
  <2>1. \E S : After(S)
    <3> DEFINE known == {o \in Outpoints : proof[o] # "none"}
               bad == {o \in known : proof[o] = "inconsistent"}
    <3>1. CASE bad = {}
      <4>1. After(known)
        BY <1>1, <3>1 DEF RebuildLocks
      <4>. QED  BY <4>1
    <3>2. CASE bad # {}
      <4>1. \E o \in bad : \E S \in SUBSET (known \ bad) : After(S \cup {o})
        BY <1>1, <3>2 DEF RebuildLocks
      <4> HIDE DEF After, bad, known
      <4>. QED  BY <4>1
    <3>. QED  BY <3>1, <3>2
  <2>2. all \in [Outpoints -> Locks]
    BY <1>1, Adopted
  <2>3. rest \in [Outpoints -> Locks]
    <3> HIDE DEF all
    <3>1. \A q \in Reasons : [Unlocked EXCEPT !.reason = q] \in Locks
      BY Plain, LockWith
    <3>2. \A o \in Outpoints : all[o] \in Locks /\ all[o].prev \in Reasons
      BY <2>2 DEF Locks
    <3>. QED  BY <3>1, <3>2 DEF Release
  <2>4. PICK S : After(S)
    BY <2>1
  <2>5. \A o \in Outpoints : /\ lock'[o] \in Locks
                             /\ lock'[o].owner = rest[o].owner /\ lock'[o].prev = rest[o].prev
                             /\ lock'[o].reason \in {rest[o].reason, "rgb", "pending"}
    <3>1. base = SetLockReason(rest, SpentBy(Live(read)) \cup Live(read), "pending")
      BY DEF Reconciled
    <3> TAKE o \in Outpoints
    <3>2. base[o] \in {rest[o], [rest[o] EXCEPT !.reason = "pending"]}
      <4> HIDE DEF rest
      <4>. QED  BY <3>1 DEF SetLockReason
    <3>3. CarrierReason(o, read) \in {"rgb", "pending"}
      BY DEF CarrierReason
    <3>4. lock'[o] \in {base[o], [base[o] EXCEPT !.reason = CarrierReason(o, read)]}
      <4> HIDE DEF base
      <4>. QED  BY <2>4
    <3> HIDE DEF rest, base
    <3>5. rest[o] \in Locks
      BY <2>3
    <3>. QED  BY <3>2, <3>3, <3>4, <3>5, ReasonSet
  <2>6. Rebuilt(read, Live(read), all, rest)
    <3> HIDE DEF all
    <3>1. all = AdoptAll(read, Live(read))
      BY DEF all
    <3>. QED  BY <1>1, <2>3, <2>5, <3>1 DEF Rebuilt
  <2>7. lock' \in [Outpoints -> Locks]
    <3> HIDE DEF base
    <3>1. lock' = [o \in Outpoints |-> lock'[o]]
      BY <2>4
    <3>. QED  BY <2>5, <3>1
  <2>8. consistency' \in {"ok", "warning", "broken"}
    BY <1>1 DEF RebuildLocks
  <2>. QED  BY <2>6, <2>7, <2>8
<1>2. CASE ~(failing = {} /\ Agree(Live(read)))
  <2>1. PICK G \in SUBSET (Live(read) \ failing) : lock' = AdoptAll(read, G)
    BY <1>2 DEF RebuildLocks
  <2>2. G \subseteq Live(read) /\ \A t \in G : ~GroupFails(read, t)
    BY <2>1
  <2>3. lock' \in [Outpoints -> Locks]
    BY <2>1, <2>2, Adopted
  <2>4. Rebuilt(read, G, lock', lock')
    BY <2>1, <2>2, <2>3 DEF Rebuilt
  <2>5. consistency' \in {"ok", "warning", "broken"}
    BY <1>2 DEF RebuildLocks
  <2>. QED  BY <2>3, <2>4, <2>5
<1>. QED
  BY <1>1, <1>2

-----------------------------------------------------------------------------
LEMMA InitType == Init => TypeOK
<1> SUFFICES ASSUME Init PROVE TypeOK
  OBVIOUS
<1>1. lock \in [Outpoints -> Locks]
  BY Plain, LockWith DEF Init, Reasons
<1>2. op = [c \in Callers |-> Idle] /\ refresh = NoRefresh
  BY DEF Init
<1>3. op \in [Callers -> Ops] /\ \A c \in Callers : op[c].kind = "idle"
  BY <1>2, Plain
<1>4. refresh \in Refreshes /\ refresh.at = "none"
  BY <1>2, Plain
<1>5. reorgs \in 0..MaxReorg /\ restarts \in 0..MaxRestart
  BY ConstantsAssumption DEF Init
<1>6. /\ status \in [Transfers -> Statuses]
      /\ inputs \in [Transfers -> SUBSET Outpoints]
      /\ proof \in [Outpoints -> Proofs]
      /\ tx \in [Transfers -> {"unknown", "mempool", "confirmed"}]
      /\ foreign \subseteq Carriers
  BY DEF Init, Statuses, Proofs
<1>7. worker \in BOOLEAN /\ consistency \in {"ok", "warning", "broken"}
  BY DEF Init
<1>. QED
  BY <1>1, <1>3, <1>4, <1>5, <1>6, <1>7 DEF TypeOK

\* What TypeOK says of the parts a call or a refresh changes.
RestTypes ==
  /\ status \in [Transfers -> Statuses]
  /\ inputs \in [Transfers -> SUBSET Outpoints]
  /\ lock \in [Outpoints -> Locks]
  /\ proof \in [Outpoints -> Proofs]
  /\ tx \in [Transfers -> {"unknown", "mempool", "confirmed"}]
  /\ foreign \subseteq Carriers
RefreshTypes ==
  /\ refresh \in Refreshes
  /\ refresh.at = "transfer" => refresh.cur # None
  /\ worker \in BOOLEAN
  /\ consistency \in {"ok", "warning", "broken"}
CountTypes == reorgs \in 0..MaxReorg /\ restarts \in 0..MaxRestart

LEMMA TypeParts ==
  /\ TypeOK <=> RestTypes /\ RefreshTypes /\ CallTypes /\ CountTypes
  /\ TypeOK' <=> RestTypes' /\ RefreshTypes' /\ CallTypes' /\ CountTypes'
BY DEF TypeOK, RestTypes, RefreshTypes, CallTypes, CountTypes

LEMMA CallerTypes ==
  ASSUME TypeOK, NEW c \in Callers, op[c].kind # "idle"
  PROVE  /\ op[c].t \in Transfers /\ op[c].ins \subseteq Outpoints
         /\ op[c].read \in [Transfers -> Statuses]
BY DEF TypeOK, Ops

LEMMA AtTypes ==
  ASSUME TypeOK, NEW c \in Callers, NEW kind, NEW at, At(c, kind, at), kind # "idle"
  PROVE  /\ op[c].kind = kind /\ op[c].at = at
         /\ op[c].t \in Transfers /\ op[c].ins \subseteq Outpoints
         /\ op[c].read \in [Transfers -> Statuses]
BY CallerTypes DEF At

LEMMA RefreshSame ==
  ASSUME RefreshTypes, UNCHANGED <<refresh, worker, consistency>>
  PROVE  RefreshTypes'
BY DEF RefreshTypes
LEMMA CountsSame == ASSUME CountTypes, UNCHANGED <<reorgs, restarts>> PROVE CountTypes'
BY DEF CountTypes
LEMMA CallsSame == ASSUME CallTypes, UNCHANGED op PROVE CallTypes'
BY DEF CallTypes
LEMMA RestSame ==
  ASSUME RestTypes, UNCHANGED <<status, inputs, proof, tx, foreign>>,
         lock' \in [Outpoints -> Locks]
  PROVE  RestTypes'
BY DEF RestTypes
LEMMA StatusTypes ==
  ASSUME RestTypes, NEW t \in Transfers, NEW s \in Statuses,
         status' = [status EXCEPT ![t] = s], UNCHANGED <<inputs, proof, tx, foreign>>,
         lock' \in [Outpoints -> Locks]
  PROVE  RestTypes'
BY DEF RestTypes

LEMMA PrepareType ==
  ASSUME TypeOK, NEW c \in Callers,
         \/ \E t \in Transfers : PrepareSelects(c, t)
         \/ PrepareReserves(c) \/ PrepareReservesChange(c) \/ PrepareSaves(c) \/ PrepareFails(c)
  PROVE  TypeOK'
<1>0. RestTypes /\ RefreshTypes /\ CallTypes /\ CountTypes /\ lock \in [Outpoints -> Locks]
  BY TypeParts DEF RestTypes
<1>1. CASE \E t \in Transfers : PrepareSelects(c, t)
  <2>1. PICK t \in Transfers : PrepareSelects(c, t)
    BY <1>1
  <2>2. PICK S \in SUBSET Outpoints : Begin(c, "prepare", t, "reserve", S)
    BY <2>1 DEF PrepareSelects
  <2>3. CallTypes'
    BY <2>2, BeginTypes DEF Kinds, Steps
  <2>4. RestTypes' /\ RefreshTypes' /\ CountTypes'
    BY <1>0, <2>1, RestSame, RefreshSame, CountsSame DEF PrepareSelects
  <2>. QED  BY <2>3, <2>4, TypeParts
<1>2. CASE PrepareReserves(c)
  <2>1. op[c].t \in Transfers
    BY <1>2, AtTypes DEF PrepareReserves
  <2>2. CallTypes'
    BY <1>2, GoesTypes, EndTypes DEF PrepareReserves, Steps
  <2>3. lock' \in [Outpoints -> Locks]
    <3>1. Reserve(lock, op[c].ins, op[c].t) \in [Outpoints -> Locks]
      BY <1>0, <2>1, LockerTypes DEF Reasons
    <3>. QED  BY <1>0, <1>2, <3>1 DEF PrepareReserves
  <2>4. RestTypes' /\ RefreshTypes' /\ CountTypes'
    BY <1>0, <1>2, <2>3, RestSame, RefreshSame, CountsSame DEF PrepareReserves
  <2>. QED  BY <2>2, <2>4, TypeParts
<1>3. CASE PrepareReservesChange(c)
  <2>1. op[c].t \in Transfers
    BY <1>3, AtTypes DEF PrepareReservesChange
  <2>2. CallTypes'
    BY <1>3, GoesTypes DEF PrepareReservesChange, Steps
  <2>3. lock' \in [Outpoints -> Locks]
    BY <1>0, <1>3, <2>1, LockerTypes DEF PrepareReservesChange, Reasons
  <2>4. RestTypes' /\ RefreshTypes' /\ CountTypes'
    BY <1>0, <1>3, <2>3, RestSame, RefreshSame, CountsSame DEF PrepareReservesChange
  <2>. QED  BY <2>2, <2>4, TypeParts
<1>4. CASE PrepareSaves(c)
  <2>1. op[c].t \in Transfers /\ op[c].ins \subseteq Outpoints
    BY <1>4, AtTypes DEF PrepareSaves
  <2>2. CallTypes'
    BY <1>4, EndTypes DEF PrepareSaves
  <2>3. RestTypes'
    BY <1>0, <1>4, <2>1 DEF PrepareSaves, RestTypes, Statuses
  <2>4. RefreshTypes' /\ CountTypes'
    BY <1>0, <1>4, RefreshSame, CountsSame DEF PrepareSaves
  <2>. QED  BY <2>2, <2>3, <2>4, TypeParts
<1>5. CASE PrepareFails(c)
  <2>1. CallTypes'
    BY <1>5, EndTypes DEF PrepareFails
  <2>2. lock' \in [Outpoints -> Locks]
    <3>1. op[c].t \in Transfers
      BY <1>5, AtTypes DEF PrepareFails
    <3>2. PICK S : lock' = IF Releasable(S, op[c].t) THEN Release(lock, S) ELSE lock
      BY <1>5 DEF PrepareFails
    <3>. QED  BY <1>0, <3>1, <3>2, LockerTypes DEF Reasons
  <2>3. RestTypes' /\ RefreshTypes' /\ CountTypes'
    BY <1>0, <1>5, <2>2, RestSame, RefreshSame, CountsSame DEF PrepareFails
  <2>. QED  BY <2>1, <2>3, TypeParts
<1>. QED
  BY <1>1, <1>2, <1>3, <1>4, <1>5

\* A step that only begins a call.
LEMMA LoadType ==
  ASSUME TypeOK, NEW c \in Callers, NEW t \in Transfers,
         DeliverLoads(c, t) \/ BroadcastLoads(c, t) \/ CancelLoads(c, t)
  PROVE  TypeOK'
<1>1. RestTypes /\ RefreshTypes /\ CountTypes /\ lock \in [Outpoints -> Locks]
  BY TypeParts DEF RestTypes
<1>2. UNCHANGED <<journal, lock, proof, tx, foreign, reorgs, refresh, worker, consistency, restarts>>
  BY DEF DeliverLoads, BroadcastLoads, CancelLoads
<1>3. \E kind \in Kinds, at \in Steps : Begin(c, kind, t, at, {})
  BY DEF DeliverLoads, BroadcastLoads, CancelLoads, Kinds, Steps
<1>. QED
  BY <1>1, <1>2, <1>3, BeginTypes, RestSame, RefreshSame, CountsSame, TypeParts

LEMMA HandOverType ==
  ASSUME TypeOK, NEW c \in Callers,
         DeliverSaves(c) \/ BroadcastSends(c) \/ BroadcastSaves(c) \/ CallFails(c)
  PROVE  TypeOK'
<1>0. RestTypes /\ RefreshTypes /\ CallTypes /\ CountTypes /\ lock \in [Outpoints -> Locks]
  BY TypeParts DEF RestTypes
<1>1. CASE DeliverSaves(c)
  <2>1. op[c].t \in Transfers
    BY <1>1, AtTypes DEF DeliverSaves
  <2>2. RestTypes'
    BY <1>0, <1>1, <2>1 DEF DeliverSaves, RestTypes, Statuses
  <2>. QED
    BY <1>0, <1>1, <2>2, EndTypes, RefreshSame, CountsSame, TypeParts DEF DeliverSaves
<1>2. CASE BroadcastSends(c)
  <2>1. op[c].t \in Transfers
    BY <1>2, AtTypes DEF BroadcastSends
  <2>2. RestTypes'
    BY <1>0, <1>2, <2>1 DEF BroadcastSends, RestTypes
  <2>3. CallTypes'
    BY <1>2, GoesTypes, EndTypes DEF BroadcastSends, Steps
  <2>. QED
    BY <1>0, <1>2, <2>2, <2>3, RefreshSame, CountsSame, TypeParts DEF BroadcastSends
<1>3. CASE BroadcastSaves(c)
  <2>1. op[c].t \in Transfers
    BY <1>3, AtTypes DEF BroadcastSaves
  <2>2. RestTypes'
    BY <1>0, <1>3, <2>1 DEF BroadcastSaves, RestTypes, Statuses
  <2>. QED
    BY <1>0, <1>3, <2>2, EndTypes, RefreshSame, CountsSame, TypeParts DEF BroadcastSaves
<1>4. CASE CallFails(c)
  BY <1>0, <1>4, EndTypes, RestSame, RefreshSame, CountsSame, TypeParts DEF CallFails
<1>. QED
  BY <1>1, <1>2, <1>3, <1>4

LEMMA CancelType ==
  ASSUME TypeOK, NEW c \in Callers,
         CancelSaves(c) \/ CancelReleases(c) \/ CancelReads(c) \/ CancelRebuilds(c)
  PROVE  TypeOK'
<1>0. RestTypes /\ RefreshTypes /\ CallTypes /\ CountTypes /\ lock \in [Outpoints -> Locks]
  BY TypeParts DEF RestTypes
<1>1. CASE CancelSaves(c)
  <2>1. op[c].t \in Transfers
    BY <1>1, AtTypes DEF CancelSaves
  <2>2. RestTypes'
    BY <1>0, <1>1, <2>1 DEF CancelSaves, RestTypes, Statuses
  <2>. QED
    BY <1>0, <1>1, <2>2, GoesTypes, RefreshSame, CountsSame, TypeParts DEF CancelSaves, Steps
<1>2. CASE CancelReleases(c)
  <2>1. op[c].t \in Transfers
    BY <1>2, AtTypes DEF CancelReleases
  <2>2. lock' \in [Outpoints -> Locks]
    BY <1>0, <1>2, <2>1, LockerTypes DEF CancelReleases, Reasons
  <2>3. CallTypes'
    BY <1>2, GoesTypes, EndTypes DEF CancelReleases, Steps
  <2>. QED
    BY <1>0, <1>2, <2>2, <2>3, RestSame, RefreshSame, CountsSame, TypeParts DEF CancelReleases
<1>3. CASE CancelReads(c)
  <2>1. op[c] \in Ops /\ status \in [Transfers -> Statuses] /\ op[c].t \in Transfers
    BY <1>3, AtTypes DEF CancelReads, TypeOK
  <2>2. PICK x : x = [op[c] EXCEPT !.at = "rebuild", !.read = status]
    OBVIOUS
  <2>3. x \in Ops /\ x.t = op[c].t
    BY <2>1, <2>2 DEF Ops
  <2>4. op' = [op EXCEPT ![c] = x]
    BY <1>3, <2>2 DEF CancelReads
  <2>5. CallTypes'
    BY <2>1, <2>3, <2>4, Moved, Names DEF CallTypes
  <2>. QED
    BY <1>0, <1>3, <2>5, RestSame, RefreshSame, CountsSame, TypeParts DEF CancelReads
<1>4. CASE CancelRebuilds(c)
  <2>1. op[c].read \in Reads
    BY <1>4, AtTypes DEF CancelRebuilds, Reads
  <2>2. lock' \in [Outpoints -> Locks] /\ consistency' \in {"ok", "warning", "broken"}
    BY <1>4, <2>1, RebuildSteps DEF CancelRebuilds
  <2>3. RefreshTypes'
    BY <1>0, <1>4, <2>2 DEF CancelRebuilds, RefreshTypes
  <2>. QED
    BY <1>0, <1>4, <2>2, <2>3, EndTypes, RestSame, CountsSame, TypeParts DEF CancelRebuilds
<1>. QED
  BY <1>1, <1>2, <1>3, <1>4

LEMMA RestartType ==
  ASSUME TypeOK, Restart
  PROVE  TypeOK'
<1>0. RestTypes /\ RefreshTypes /\ CallTypes /\ CountTypes
  BY TypeParts
<1>1. lock' \in [Outpoints -> Locks] /\ consistency' \in {"ok", "warning", "broken"}
  <2>1. status \in Reads
    BY DEF TypeOK, Reads
  <2>. QED  BY <2>1, RebuildSteps DEF Restart
<1>2. CallTypes'
  <2>1. op' = [c \in Callers |-> Idle]
    BY DEF Restart
  <2>. QED  BY <2>1, Plain DEF CallTypes
<1>3. RefreshTypes'
  <2>1. refresh' = NoRefresh /\ worker' \in BOOLEAN
    BY DEF Restart, HasPending
  <2>. QED  BY <1>1, <2>1, Plain DEF RefreshTypes
<1>4. RestTypes'
  BY <1>0, <1>1, RestSame DEF Restart
<1>5. CountTypes'
  BY <1>0, ConstantsAssumption DEF Restart, CountTypes
<1>. QED
  BY <1>2, <1>3, <1>4, <1>5, TypeParts

LEMMA ChainType ==
  ASSUME TypeOK, Chain
  PROVE  TypeOK'
<1>0. RestTypes /\ RefreshTypes /\ CallTypes /\ CountTypes
  BY TypeParts
<1>1. CASE \E t \in Transfers : Confirm(t)
  <2>1. RestTypes'
    BY <1>0, <1>1 DEF Confirm, RestTypes
  <2>. QED
    BY <1>0, <1>1, <2>1, RefreshSame, CountsSame, CallsSame, TypeParts DEF Confirm
<1>2. CASE \E t \in Transfers : Drop(t)
  <2>1. RestTypes'
    BY <1>0, <1>2 DEF Drop, RestTypes
  <2>2. CountTypes'
    BY <1>0, <1>2, ConstantsAssumption DEF Drop, CountTypes
  <2>. QED
    BY <1>0, <1>2, <2>1, <2>2, RefreshSame, CallsSame, TypeParts DEF Drop
<1>3. CASE \E o \in Carriers : ForeignSpend(o)
  <2>1. RestTypes'
    BY <1>0, <1>3 DEF ForeignSpend, RestTypes
  <2>. QED
    BY <1>0, <1>3, <2>1, RefreshSame, CountsSame, CallsSame, TypeParts DEF ForeignSpend
<1>. QED
  BY <1>1, <1>2, <1>3 DEF Chain

\* The refresh, as its steps leave it.
LEMMA Ended ==
  ASSUME RefreshTypes, NEW error, NEW st, EndRefresh(error, st)
  PROVE  /\ refresh' \in Refreshes /\ refresh'.at = "none" /\ refresh'.todo = {}
         /\ worker' \in BOOLEAN
BY Plain DEF EndRefresh, HasPending, RefreshTypes

LEMMA FollowedType ==
  ASSUME NEW r \in Refreshes
  PROVE  /\ Followed(r) \in Refreshes /\ Followed(r).at = "transfers"
         /\ Followed(r).todo = r.todo
BY DEF Followed, Refreshes, Statuses

LEMMA NextTransferType ==
  ASSUME RefreshTypes, NextTransfer
  PROVE  /\ refresh' \in Refreshes /\ refresh'.at = "transfers" /\ refresh'.todo = refresh.todo
         /\ worker' \in BOOLEAN
BY FollowedType DEF NextTransfer, RefreshTypes

LEMMA RefreshBeginsType ==
  ASSUME TypeOK, NEW by \in {"worker", "api"}, RefreshBegins(by)
  PROVE  /\ TypeOK'
         /\ refresh' = refresh \/ /\ refresh'.at = "transfers"
                                  /\ refresh'.todo = {t \in Transfers : status[t] \in {"broadcast", "pending", "settled"}}
<1>0. RestTypes /\ RefreshTypes /\ CallTypes /\ CountTypes /\ lock \in [Outpoints -> Locks]
  BY TypeParts DEF RestTypes
<1>1. PICK r : r = [NoRefresh EXCEPT
                      !.at = "transfers", !.by = by,
                      !.todo = {t \in Transfers : status[t] \in {"broadcast", "pending", "settled"}},
                      !.expected = SpentBy(Live(status))]
  OBVIOUS
<1>2. SpentBy(Live(status)) \subseteq Outpoints
  BY <1>0 DEF SpentBy, Live, RestTypes
<1>3. /\ r \in Refreshes /\ r.at = "transfers"
      /\ r.todo = {t \in Transfers : status[t] \in {"broadcast", "pending", "settled"}}
  BY <1>1, <1>2, Plain DEF Refreshes, NoRefresh, Statuses
<1>4. /\ refresh' \in {refresh, r} /\ worker' \in {worker, worker /\ by # "worker"}
      /\ consistency' \in {consistency, "broken"}
  BY <1>1 DEF RefreshBegins
<1>5. RefreshTypes'
  BY <1>0, <1>3, <1>4 DEF RefreshTypes
<1>6. RestTypes' /\ CallTypes' /\ CountTypes'
  BY <1>0, RestSame, CallsSame, CountsSame DEF RefreshBegins
<1>. QED
  BY <1>3, <1>4, <1>5, <1>6, TypeParts

LEMMA RefreshLoadsType ==
  ASSUME TypeOK, NEW t \in Transfers, RefreshLoads(t)
  PROVE  /\ TypeOK'
         /\ \/ refresh'.at = "none" /\ refresh'.todo = {}
            \/ /\ refresh'.at = "transfer" /\ refresh'.cur = t /\ refresh'.got = status[t]
               /\ refresh'.todo = refresh.todo \ {t} /\ status[t] \in KeepsInputsLocked
<1>0. RestTypes /\ RefreshTypes /\ CallTypes /\ CountTypes /\ lock \in [Outpoints -> Locks]
  BY TypeParts DEF RestTypes
<1>1. RestTypes' /\ CallTypes' /\ CountTypes'
  BY <1>0, RestSame, CallsSame, CountsSame DEF RefreshLoads
<1>2. CASE status[t] \in KeepsInputsLocked
  <2>1. PICK r : r = [refresh EXCEPT !.at = "transfer", !.cur = t, !.got = status[t], !.todo = @ \ {t}]
    OBVIOUS
  <2>2. refresh \in Refreshes /\ status[t] \in Statuses
    BY <1>0 DEF RefreshTypes, RestTypes
  <2>3. /\ r \in Refreshes /\ r.at = "transfer" /\ r.cur = t /\ r.got = status[t]
        /\ r.todo = refresh.todo \ {t}
    BY <2>1, <2>2 DEF Refreshes
  <2>4. refresh' = r /\ UNCHANGED <<consistency, worker>>
    BY <1>2, <2>1 DEF RefreshLoads
  <2>5. RefreshTypes'
    BY <1>0, <2>3, <2>4, Names DEF RefreshTypes
  <2>. QED  BY <1>1, <1>2, <2>3, <2>4, <2>5, TypeParts
<1>3. CASE status[t] \notin KeepsInputsLocked
  <2>1. EndRefresh("inconsistent", status) /\ consistency' = "broken"
    BY <1>3 DEF RefreshLoads
  <2>2. RefreshTypes' /\ refresh'.at = "none" /\ refresh'.todo = {}
    BY <1>0, <2>1, Ended DEF RefreshTypes
  <2>. QED  BY <1>1, <2>2, TypeParts
<1>. QED
  BY <1>2, <1>3

\* What a step on the transfer in hand leaves of the refresh.
Onward ==
  /\ refresh' \in Refreshes /\ worker' \in BOOLEAN /\ UNCHANGED <<consistency, op, reorgs, restarts>>
  /\ \/ refresh'.at = "none" /\ refresh'.todo = {}
     \/ refresh'.at = "transfers" /\ refresh'.todo = refresh.todo

LEMMA OnwardType ==
  ASSUME TypeOK, Onward, RestTypes'
  PROVE  TypeOK'
<1>1. RefreshTypes /\ CallTypes /\ CountTypes
  BY TypeParts
<1>2. RefreshTypes'
  BY <1>1 DEF Onward, RefreshTypes
<1>3. CallTypes' /\ CountTypes'
  BY <1>1, CallsSame, CountsSame DEF Onward
<1>. QED
  BY <1>2, <1>3, TypeParts

\* The transfer in hand.
LEMMA InHand ==
  ASSUME TypeOK, refresh.at = "transfer"
  PROVE  /\ refresh.cur \in Transfers /\ refresh.got \in Statuses
         /\ inputs[refresh.cur] \subseteq Outpoints
BY DEF TypeOK, Refreshes

LEMMA AppliesType ==
  ASSUME TypeOK, RefreshApplies
  PROVE  Onward /\ TypeOK'
<1>0. RestTypes /\ RefreshTypes
  BY TypeParts
<1>1. PICK t, final : t = refresh.cur /\ final = Confirmed(refresh.cur)
  OBVIOUS
<1>2. t \in Transfers /\ t \in Outpoints
  BY <1>1, InHand, Names DEF RefreshApplies
<1>3. PICK S, r : r = SetLockReason(SetLockReason(lock, {t}, IF final THEN "rgb" ELSE "pending"), S, "pending")
                  /\ lock' \in {r, Finalize(r, t)}
  BY <1>1 DEF RefreshApplies
<1>4. lock' \in [Outpoints -> Locks]
  <2>1. \A q \in {"rgb", "pending"} : q \in Reasons
    BY DEF Reasons
  <2>2. SetLockReason(lock, {t}, IF final THEN "rgb" ELSE "pending") \in [Outpoints -> Locks]
    BY <1>0, <1>2, <2>1, LockerTypes DEF RestTypes
  <2>3. r \in [Outpoints -> Locks]
    BY <1>2, <1>3, <2>1, <2>2, LockerTypes
  <2>. QED  BY <1>2, <1>3, <2>1, <2>3, LockerTypes
<1>5. PICK B : proof' = [o \in Outpoints |-> IF o = t THEN (IF final THEN "settled" ELSE "valid")
                                          ELSE IF o \in B THEN "spending" ELSE proof[o]]
  BY <1>1 DEF RefreshApplies
<1>6. proof' \in [Outpoints -> Proofs]
  BY <1>0, <1>5 DEF RestTypes, Proofs
<1>7. PICK s \in {"settled", "pending"} : status' = [status EXCEPT ![t] = s]
  BY <1>1 DEF RefreshApplies, Writes
<1>8. RestTypes'
  BY <1>0, <1>2, <1>4, <1>6, <1>7 DEF RestTypes, Statuses, RefreshApplies
<1>9. Onward
  <2>1. NextTransfer \/ EndRefresh("owner", status')
    BY DEF RefreshApplies
  <2>2. UNCHANGED <<consistency, op, reorgs, restarts>>
    BY DEF RefreshApplies
  <2>. QED  BY <1>0, <2>1, <2>2, NextTransferType, Ended DEF Onward
<1>. QED
  BY <1>8, <1>9, OnwardType

LEMMA PutBackType ==
  ASSUME TypeOK, PutBack
  PROVE  Onward /\ TypeOK'
<1>0. RestTypes /\ RefreshTypes
  BY TypeParts
<1>1. refresh.cur \in Transfers
  BY InHand DEF PutBack
<1>2. RestTypes'
  BY <1>0, <1>1 DEF PutBack, Writes, RestTypes, Statuses
<1>3. Onward
  BY <1>0, NextTransferType DEF PutBack, Onward
<1>. QED
  BY <1>2, <1>3, OnwardType

LEMMA StopType ==
  ASSUME TypeOK, Stop
  PROVE  Onward /\ TypeOK'
<1>0. RestTypes /\ RefreshTypes
  BY TypeParts
<1>1. RestTypes'
  BY <1>0, RestSame DEF Stop, RestTypes
<1>2. Onward
  BY <1>0, Ended DEF Stop, Onward
<1>. QED
  BY <1>1, <1>2, OnwardType

\* The spenders of a lost transfer are looked up: it is left as it was, or it
\* is in conflict and what it held is released, or the release is refused.
LEMMA ConflictsTo ==
  ASSUME TypeOK, RefreshConflicts
  PROVE  /\ Onward
         /\ \/ Writes(refresh.cur, refresh.got) /\ UNCHANGED lock
            \/ /\ Writes(refresh.cur, "conflicted")
               /\ \/ UNCHANGED lock
                  \/ /\ Releasable(inputs[refresh.cur] \cup {refresh.cur}, refresh.cur)
                     /\ lock' = Release(lock, inputs[refresh.cur] \cup {refresh.cur})
<1>0. RestTypes /\ RefreshTypes
  BY TypeParts
<1>1. UNCHANGED <<consistency, op, reorgs, restarts>>
  BY DEF RefreshConflicts
<1>2. PICK spent, named, next :
        /\ spent \subseteq Outpoints /\ named \subseteq spent
        /\ next = [Followed(refresh) EXCEPT !.conflicted = @ \cup named,
                                            !.unsure = @ \/ named # spent]
        /\ \/ /\ Writes(refresh.cur, refresh.got)
              /\ refresh' = next
              /\ UNCHANGED <<lock, worker>>
           \/ /\ Writes(refresh.cur, "conflicted")
              /\ IF Releasable(inputs[refresh.cur] \cup {refresh.cur}, refresh.cur)
                 THEN /\ lock' = Release(lock, inputs[refresh.cur] \cup {refresh.cur})
                      /\ refresh' = next
                      /\ UNCHANGED worker
                 ELSE UNCHANGED lock /\ EndRefresh("owner", status')
  <2> DEFINE lost == {o \in inputs[refresh.cur] : Spent(o)}
             Next1(named) == [Followed(refresh) EXCEPT !.conflicted = @ \cup named,
                                                       !.unsure = @ \/ named # lost]
  <2>1. PICK named \in SUBSET lost :
          \/ /\ Writes(refresh.cur, refresh.got)
             /\ refresh' = Next1(named)
             /\ UNCHANGED <<lock, worker>>
          \/ /\ Writes(refresh.cur, "conflicted")
             /\ IF Releasable(inputs[refresh.cur] \cup {refresh.cur}, refresh.cur)
                THEN /\ lock' = Release(lock, inputs[refresh.cur] \cup {refresh.cur})
                     /\ refresh' = Next1(named)
                     /\ UNCHANGED worker
                ELSE UNCHANGED lock /\ EndRefresh("owner", status')
    BY DEF RefreshConflicts
  <2>2. lost \subseteq Outpoints
    BY InHand DEF RefreshConflicts
  <2>. QED  BY <2>1, <2>2
<1>3. next \in Refreshes /\ next.at = "transfers" /\ next.todo = refresh.todo
  <2>1. PICK r : r = Followed(refresh)
    OBVIOUS
  <2>2. r \in Refreshes /\ r.at = "transfers" /\ r.todo = refresh.todo
    BY <1>0, <2>1, FollowedType DEF RefreshTypes
  <2>3. next = [r EXCEPT !.conflicted = r.conflicted \cup named, !.unsure = r.unsure \/ named # spent]
    BY <1>2, <2>1
  <2>. QED  BY <1>2, <2>2, <2>3 DEF Refreshes
<1>4. \/ refresh' = next /\ UNCHANGED worker
      \/ EndRefresh("owner", status')
  BY <1>2
<1>5. Onward
  <2>1. worker \in BOOLEAN
    BY <1>0 DEF RefreshTypes
  <2>2. CASE refresh' = next /\ UNCHANGED worker
    BY <1>1, <1>3, <2>1, <2>2 DEF Onward
  <2>3. CASE EndRefresh("owner", status')
    BY <1>0, <1>1, <2>3, Ended DEF Onward
  <2>. QED  BY <1>4, <2>2, <2>3
<1>. QED
  BY <1>2, <1>5

LEMMA ConflictsType ==
  ASSUME TypeOK, RefreshConflicts
  PROVE  TypeOK'
<1>0. RestTypes /\ lock \in [Outpoints -> Locks]
  BY TypeParts DEF RestTypes
<1>1. refresh.cur \in Transfers /\ refresh.got \in Statuses
  BY InHand DEF RefreshConflicts
<1>2. lock' \in [Outpoints -> Locks]
  BY <1>0, <1>1, ConflictsTo, LockerTypes DEF Reasons
<1>3. PICK s \in Statuses : status' = [status EXCEPT ![refresh.cur] = s]
  BY <1>1, ConflictsTo DEF Writes, Statuses
<1>4. RestTypes'
  BY <1>0, <1>1, <1>2, <1>3, StatusTypes DEF RefreshConflicts
<1>. QED
  BY <1>4, ConflictsTo, OnwardType

LEMMA RollsBackType ==
  ASSUME TypeOK, RefreshRollsBack
  PROVE  Onward /\ TypeOK'
<1>0. RestTypes /\ RefreshTypes /\ lock \in [Outpoints -> Locks]
  BY TypeParts DEF RestTypes
<1>1. refresh.cur \in Transfers /\ refresh.got \in Statuses
  BY InHand DEF RefreshRollsBack
<1>2. PICK s \in Statuses : status' = [status EXCEPT ![refresh.cur] = s]
  BY <1>1 DEF RefreshRollsBack, Writes, Statuses
<1>3. proof' \in [Outpoints -> Proofs]
  <2>1. \/ UNCHANGED proof
        \/ \E B, H : proof' = [o \in Outpoints |->
                                 IF o = refresh.cur THEN "none"
                                 ELSE IF o \in B THEN (IF o \in H THEN "valid" ELSE "settled")
                                 ELSE proof[o]]
    BY DEF RefreshRollsBack
  <2>2. CASE UNCHANGED proof
    BY <1>0, <2>2 DEF RestTypes
  <2>3. ASSUME NEW B, NEW H, proof' = [o \in Outpoints |->
                                 IF o = refresh.cur THEN "none"
                                 ELSE IF o \in B THEN (IF o \in H THEN "valid" ELSE "settled")
                                 ELSE proof[o]]
        PROVE  proof' \in [Outpoints -> Proofs]
    BY <1>0, <2>3 DEF RestTypes, Proofs
  <2>. QED  BY <2>1, <2>2, <2>3
<1>4. lock' \in [Outpoints -> Locks]
  <2>1. \/ UNCHANGED lock
        \/ \E B, H : lock' = SetLockReason(SetLockReason(lock, B, "rgb"), H, "pending")
    BY DEF RefreshRollsBack
  <2>2. \A B : SetLockReason(lock, B, "rgb") \in [Outpoints -> Locks]
    BY <1>0, <1>1, LockerTypes DEF Reasons
  <2>. QED  BY <1>0, <1>1, <2>1, <2>2, LockerTypes DEF Reasons
<1>5. RestTypes'
  BY <1>0, <1>2, <1>3, <1>4, <1>1 DEF RestTypes, RefreshRollsBack
<1>6. Onward
  BY <1>0, NextTransferType DEF RefreshRollsBack, Onward
<1>. QED
  BY <1>5, <1>6, OnwardType

LEMMA ProofsType ==
  ASSUME TypeOK, RefreshProofs
  PROVE  /\ TypeOK'
         /\ refresh'.at = "none" /\ refresh'.todo = {}
         /\ \A o \in Outpoints : \/ lock'[o] = lock[o]
                                 \/ lock'[o] = [lock[o] EXCEPT !.reason = ProofReason(o)]
<1>0. RestTypes /\ RefreshTypes /\ CallTypes /\ CountTypes /\ lock \in [Outpoints -> Locks]
  BY TypeParts DEF RestTypes
<1>1. PICK S : /\ proof' = [o \in Outpoints |-> IF o \in S THEN ProofStatus(o) ELSE proof[o]]
               /\ lock' = [o \in Outpoints |->
                             IF o \in S THEN [lock[o] EXCEPT !.reason = ProofReason(o)] ELSE lock[o]]
  BY DEF RefreshProofs
<1>2. \A o \in Outpoints : ProofStatus(o) \in Proofs /\ ProofReason(o) \in Reasons
  BY DEF ProofStatus, ProofReason, Proofs, Reasons
<1>3. proof' \in [Outpoints -> Proofs] /\ lock' \in [Outpoints -> Locks]
  BY <1>0, <1>1, <1>2, LockWith DEF RestTypes
<1>4. RestTypes' /\ CallTypes' /\ CountTypes'
  BY <1>0, <1>3, CallsSame, CountsSame DEF RestTypes, RefreshProofs
<1>5. \E e : EndRefresh(e, status)
  BY DEF RefreshProofs
<1>6. consistency' \in {"ok", "warning", "broken"}
  BY <1>0 DEF RefreshProofs, RefreshTypes
<1>7. RefreshTypes' /\ refresh'.at = "none" /\ refresh'.todo = {}
  BY <1>0, <1>5, <1>6, Ended DEF RefreshTypes
<1>. QED
  BY <1>1, <1>4, <1>7, TypeParts

LEMMA NextType == TypeOK /\ [Next]_vars => TypeOK'
<1> SUFFICES ASSUME TypeOK, [Next]_vars PROVE TypeOK'
  OBVIOUS
<1>1. ASSUME NEW c \in Callers, Call(c) PROVE TypeOK'
  BY <1>1, PrepareType, LoadType, HandOverType, CancelType DEF Call
<1>2. ASSUME NEW by \in {"worker", "api"}, RefreshBegins(by) PROVE TypeOK'
  BY <1>2, RefreshBeginsType
<1>3. CASE RefreshStep
  BY <1>3, RefreshLoadsType, AppliesType, PutBackType, ConflictsType, RollsBackType, StopType,
     ProofsType DEF RefreshStep, RefreshCannotApply, RefreshFails
<1>4. CASE IndexerFails
  BY <1>4, PutBackType, StopType DEF IndexerFails
<1>5. CASE UNCHANGED vars
  BY <1>5 DEF vars, TypeOK
<1>. QED
  BY <1>1, <1>2, <1>3, <1>4, <1>5, ChainType, RestartType DEF Next

(* The journal, the locks, the proofs and the calls keep their types, and a *)
(* call or a refresh that is under way has a transfer.                      *)
THEOREM TypesHold == Spec => []TypeOK
<1>1. Init => TypeOK
  BY InitType
<1>. QED
  BY <1>1, NextType, PTL DEF Spec

-----------------------------------------------------------------------------
(***************************************************************************)
(* The locks and the journal.  Two things are assumed, as in the runs: a   *)
(* cancellation overlaps no other call, and no transfer is handed over     *)
(* through the relay, whose journal entries do not keep their inputs.      *)
(***************************************************************************)
Sequential == ~Overlap /\ \A t \in Transfers : Transport[t] # "relay"

Standing(t) == status[t] \notin {"none", "rejected"}
\* A transfer that was written and not cancelled, and that the chain can take.
Sound(t) == Standing(t) /\ inputs[t] \cap foreign = {}

\* What holds of a call under way: what it is about has not changed its nature,
\* and what a preparation has reserved is its own.
CallOK(x) ==
  /\ x.kind = "prepare" =>
       /\ x.at \in {"reserve", "change", "save"}
       /\ status[x.t] = "none" /\ x.t \notin x.ins
       /\ x.at # "reserve" => \A o \in x.ins : lock[o].owner = x.t
       /\ x.at = "save" => lock[x.t].owner = x.t
  /\ x.kind \in {"deliver", "broadcast"} => Standing(x.t)
  /\ x.kind = "deliver" => Transport[x.t] = "address"
  /\ x.kind = "cancel" =>
       /\ x.at \in {"save", "release", "read", "rebuild"}
       /\ x.at = "save" => status[x.t] = "prepared" /\ ~Visible(x.t)
       /\ x.at # "save" => status[x.t] = "rejected"
       /\ x.at = "rebuild" => \A t \in Transfers : Sound(t) => x.read[t] \in KeepsInputsLocked

\* Two calls do not prepare the same transfer, and a cancellation is alone.
Apart(x, y) ==
  /\ x.kind = "prepare" /\ y.kind = "prepare" => x.t # y.t
  /\ x.kind = "cancel" => y.kind = "idle"
  /\ y.kind = "cancel" => x.kind = "idle"

CallsOK ==
  /\ \A c \in Callers : CallOK(op[c])
  /\ \A c, d \in Callers : c # d => Apart(op[c], op[d])

\* The refresh follows only transfers that were broadcast once.
Followable(t) == status[t] \notin {"none", "prepared", "rejected"}
RefreshOK ==
  /\ \A t \in refresh.todo : Followable(t)
  /\ refresh.at = "transfer" => /\ Followable(refresh.cur)
                                /\ refresh.got \in KeepsInputsLocked \ {"prepared"}

JournalOK ==
  \A t \in Transfers :
    /\ status[t] = "none" => inputs[t] = {}
    /\ t \notin inputs[t]
    /\ Visible(t) => Sound(t)
    /\ Sound(t) => status[t] \in KeepsInputsLocked

Owned == \A t \in Transfers : Sound(t) => \A o \in inputs[t] : lock[o].owner = t

\* The change is locked, and stays so if whoever else holds it lets it go.
Kept(t) ==
  /\ lock[t].reason # "none"
  /\ \/ lock[t].owner \in {None, t}
     \/ lock[t].prev # "none"
     \/ t \in inputs[lock[t].owner]
GivenUp(t) == \E u \in Transfers : t \in inputs[u] /\ ~Sound(u)
ChangesOK ==
  /\ \A o \in Outpoints : lock[o].owner # None => lock[o].reason # "none"
  /\ \A t \in Transfers : Sound(t) => Kept(t) \/ GivenUp(t)

LocksOK == Owned /\ ChangesOK
Inv == TypeOK /\ CallsOK /\ RefreshOK /\ JournalOK /\ LocksOK

-----------------------------------------------------------------------------
(* What a step may do to a lock without disturbing the journal.            *)
LockStep(o) ==
  \/ lock'[o] = lock[o]
  \* another reason
  \/ /\ lock'[o].owner = lock[o].owner /\ lock'[o].prev = lock[o].prev
     /\ lock'[o].reason # "none"
  \* released by an owner that does not need it
  \/ /\ lock[o].owner \in Transfers /\ lock'[o].owner = None
     /\ lock'[o].reason # "none" \/ lock'[o].reason = lock[o].prev
     /\ ~Sound(lock[o].owner) \/ o \notin inputs[lock[o].owner] \cup {lock[o].owner}
  \* the change of a transfer becomes a carrier
  \/ /\ lock[o].owner \in {o, None} /\ o \in Transfers /\ o \notin inputs[o]
     /\ lock'[o].owner = None /\ lock'[o].reason # "none"
  \* taken, with the reason to restore
  \/ /\ lock[o].owner = None /\ lock'[o].owner \in Transfers
     /\ lock'[o].reason # "none" /\ lock'[o].prev = lock[o].reason
  \* restored to its owner
  \/ /\ lock'[o].owner \in Transfers /\ lock[o].owner \in {lock'[o].owner, None}
     /\ o \in inputs[lock'[o].owner] \cup {lock'[o].owner}
     /\ lock'[o].reason # "none"

Fewer == UNCHANGED inputs /\ \A t \in Transfers : Sound(t)' => Sound(t)

LEMMA LocksKept ==
  ASSUME Inv, Fewer, \A o \in Outpoints : LockStep(o)
  PROVE  LocksOK'
<1>0. /\ TypeOK /\ Owned /\ ChangesOK /\ UNCHANGED inputs
      /\ \A t \in Transfers : Sound(t)' => Sound(t)
      /\ \A t \in Transfers : inputs[t] \subseteq Outpoints
  BY DEF Inv, LocksOK, Fewer, TypeOK
<1>1. ASSUME NEW t \in Transfers, Sound(t)', NEW o \in inputs[t]
      PROVE  lock'[o].owner = t
  <2>1. lock[o].owner = t /\ o \in Outpoints
    BY <1>0, <1>1 DEF Owned
  <2>2. Sound(t) /\ LockStep(o)
    BY <1>0, <1>1, <2>1
  <2>. QED  BY <1>1, <2>1, <2>2, Names DEF LockStep
<1>2. ASSUME NEW o \in Outpoints, lock'[o].owner # None
      PROVE  lock'[o].reason # "none"
  <2>1. lock[o].owner # None => lock[o].reason # "none"
    BY <1>0 DEF ChangesOK
  <2>. QED  BY <1>2, <2>1 DEF LockStep
<1>3. ASSUME NEW t \in Transfers, Sound(t)'
      PROVE  Kept(t)' \/ GivenUp(t)'
  <2>1. GivenUp(t) => GivenUp(t)'
    BY <1>0 DEF GivenUp
  <2>2. Sound(t) /\ (Kept(t) \/ GivenUp(t))
    BY <1>0, <1>3 DEF ChangesOK
  <2>3. ASSUME Kept(t) PROVE Kept(t)' \/ GivenUp(t)'
    <3>1. /\ lock[t].reason # "none"
          /\ \/ lock[t].owner \in {None, t}
             \/ lock[t].prev # "none"
             \/ t \in inputs[lock[t].owner]
      BY <2>3 DEF Kept
    <3>2. LockStep(t)
      BY Names
    <3>3. Kept(t)' <=> /\ lock'[t].reason # "none"
                       /\ \/ lock'[t].owner \in {None, t}
                          \/ lock'[t].prev # "none"
                          \/ t \in inputs[lock'[t].owner]
      BY <1>0 DEF Kept
    <3>4. CASE /\ lock[t].owner \in Transfers /\ lock'[t].owner = None
               /\ lock'[t].reason # "none" \/ lock'[t].reason = lock[t].prev
               /\ ~Sound(lock[t].owner) \/ t \notin inputs[lock[t].owner] \cup {lock[t].owner}
      <4>1. lock[t].owner # t
        BY <2>2, <3>4
      <4>2. CASE lock'[t].reason # "none"
        BY <3>3, <3>4, <4>2
      <4>3. CASE lock[t].prev # "none"
        BY <3>3, <3>4, <4>3
      <4>4. CASE lock[t].prev = "none"
        <5>1. t \in inputs[lock[t].owner] /\ ~Sound(lock[t].owner)
          BY <3>1, <3>4, <4>1, <4>4, Names
        <5>. QED  BY <2>1, <3>4, <5>1 DEF GivenUp
      <4>. QED  BY <4>2, <4>3, <4>4
    <3>. QED  BY <3>1, <3>2, <3>3, <3>4 DEF LockStep
  <2>. QED  BY <2>1, <2>2, <2>3
<1>. QED
  BY <1>0, <1>1, <1>2, <1>3 DEF LocksOK, Owned, ChangesOK

\* A call that takes no part in a step.
LEMMA CallKept ==
  ASSUME NEW x \in Ops, CallOK(x), x.kind # "idle" => x.t \in Transfers,
         status[x.t] = "none" => status'[x.t] = "none",
         Standing(x.t) => Standing(x.t)',
         status[x.t] = "rejected" => status'[x.t] = "rejected",
         x.kind = "cancel" /\ x.at = "save" => status'[x.t] = status[x.t] /\ tx'[x.t] = tx[x.t],
         Fewer,
         \A o \in Outpoints : status[x.t] = "none" /\ lock[o].owner = x.t => lock'[o].owner = x.t
  PROVE  CallOK(x)'
<1>1. x.ins \subseteq Outpoints
  BY DEF Ops
<1>2. CASE x.kind = "prepare"
  <2>1. x.t \in Outpoints
    BY <1>2, Names
  <2>. QED  BY <1>1, <1>2, <2>1 DEF CallOK
<1>3. CASE x.kind \in {"deliver", "broadcast"}
  BY <1>3 DEF CallOK
<1>4. CASE x.kind = "cancel"
  <2>1. x.at = "save" => status'[x.t] = "prepared" /\ ~Visible(x.t)'
    BY <1>4 DEF CallOK, Visible
  <2>2. x.at = "rebuild" => \A t \in Transfers : Sound(t)' => x.read[t] \in KeepsInputsLocked
    BY <1>4 DEF CallOK, Fewer
  <2>3. x.at # "save" => status'[x.t] = "rejected"
    BY <1>4 DEF CallOK
  <2>. QED  BY <1>4, <2>1, <2>2, <2>3 DEF CallOK
<1>5. CASE x.kind \in Kinds \ {"prepare", "deliver", "broadcast", "cancel"}
  BY <1>5 DEF CallOK, Kinds
<1>6. x.kind \in Kinds
  BY DEF Ops
<1>. QED
  BY <1>2, <1>3, <1>4, <1>5, <1>6

\* No call moves.
LEMMA CallsStay ==
  ASSUME TypeOK, CallsOK, UNCHANGED op,
         \A x \in Ops : CallOK(x) /\ (\E c \in Callers : x = op[c]) => CallOK(x)'
  PROVE  CallsOK'
<1>1. \A c \in Callers : op[c] \in Ops
  BY DEF TypeOK
<1>2. ASSUME NEW c \in Callers PROVE CallOK(op[c])'
  <2>1. PICK x \in Ops : x = op[c]
    BY <1>1
  <2>2. CallOK(x)'
    BY <2>1 DEF CallsOK
  <2>. QED  BY <2>1, <2>2
<1>. QED
  BY <1>2 DEF CallsOK, Apart

\* One call moves.
LEMMA CallMoves ==
  ASSUME TypeOK, CallsOK, NEW c \in Callers, NEW x \in Ops, op' = [op EXCEPT ![c] = x],
         CallOK(x)',
         \A y \in Ops : CallOK(y) /\ (\E d \in Callers : d # c /\ y = op[d]) => CallOK(y)',
         \A d \in Callers : d # c => Apart(x, op[d])
  PROVE  CallsOK'
<1>1. \A d \in Callers : op[d] \in Ops
  BY DEF TypeOK
<1>2. op'[c] = x /\ \A d \in Callers : d # c => op'[d] = op[d]
  BY DEF TypeOK
<1>3. ASSUME NEW d \in Callers, d # c PROVE CallOK(op[d])'
  <2>1. PICK y \in Ops : y = op[d]
    BY <1>1
  <2>2. CallOK(y)'
    BY <1>3, <2>1 DEF CallsOK
  <2>3. op'[d] = y
    BY <1>2, <1>3, <2>1
  <2>. QED  BY <2>2, <2>3
<1>4. CallOK(op[c])'
  BY <1>2
<1>5. \A a, b \in Callers : a # b => Apart(op'[a], op'[b])
  BY <1>2 DEF CallsOK, Apart
<1>. QED
  BY <1>3, <1>4, <1>5 DEF CallsOK, Apart

\* A step that leaves the journal, the locks and the chain alone.
LEMMA QuietCalls ==
  ASSUME UNCHANGED <<status, inputs, lock, tx, foreign>>
  PROVE  \A x : CallOK(x) => CallOK(x)'
BY DEF CallOK, Standing, Sound, Visible

LEMMA Quiet ==
  ASSUME Inv, TypeOK', CallsOK', UNCHANGED <<status, inputs, lock, tx, foreign>>, RefreshOK'
  PROVE  Inv'
<1>1. JournalOK'
  BY DEF Inv, JournalOK, Visible, Sound, Standing
<1>2. LocksOK'
  BY DEF Inv, LocksOK, Owned, ChangesOK, Kept, GivenUp, Sound, Standing
<1>. QED
  BY <1>1, <1>2 DEF Inv

LEMMA RefreshStays ==
  ASSUME RefreshOK, UNCHANGED <<status, refresh>>
  PROVE  RefreshOK'
BY DEF RefreshOK, Followable

LEMMA BeginsInv ==
  ASSUME Sequential, Inv, TypeOK', NEW c \in Callers, NEW kind \in Kinds \ {"idle"},
         NEW t \in Transfers, NEW at \in Steps, NEW S \in SUBSET Outpoints,
         Begin(c, kind, t, at, S), UNCHANGED <<status, inputs, lock, tx, foreign, refresh>>,
         \A x \in Ops : x.kind = kind /\ x.t = t /\ x.at = at /\ x.ins = S => CallOK(x),
         kind = "prepare" => \A d \in Callers : op[d].kind # "idle" => op[d].t # t
  PROVE  Inv'
<1>0. TypeOK /\ CallsOK /\ RefreshOK
  BY DEF Inv
<1>1. PICK x \in Ops : /\ x.kind = kind /\ x.t = t /\ x.at = at /\ x.ins = S
                       /\ op' = [op EXCEPT ![c] = x]
  BY <1>0, Began
<1>2. CallOK(x)'
  BY <1>1, QuietCalls
<1>3. \A d \in Callers : op[d].kind \in (IF kind = "cancel" THEN {"idle"} ELSE Kinds \ {"cancel"})
  BY DEF Begin, Sequential
<1>4. \A d \in Callers : d # c => Apart(x, op[d])
  BY <1>1, <1>3 DEF Apart, Kinds
<1>5. \A y : CallOK(y) => CallOK(y)'
  BY QuietCalls
<1>6. CallsOK'
  BY <1>0, <1>1, <1>2, <1>4, <1>5, CallMoves
<1>. QED
  BY <1>0, <1>6, Quiet, RefreshStays

\* A call ends, and nothing else happens.
LEMMA EndsCalls ==
  ASSUME TypeOK, CallsOK, NEW c \in Callers, End(c),
         \A y \in Ops : CallOK(y) /\ (\E d \in Callers : d # c /\ y = op[d]) => CallOK(y)'
  PROVE  CallsOK'
<1>1. PICK x : x = Idle
  OBVIOUS
<1>2. x \in Ops /\ x.kind = "idle" /\ op' = [op EXCEPT ![c] = x]
  BY <1>1, Plain DEF End
<1>3. CallOK(x)'
  BY <1>2 DEF CallOK
<1>4. \A d \in Callers : d # c => Apart(x, op[d])
  BY <1>2 DEF Apart
<1>. QED
  BY <1>2, <1>3, <1>4, CallMoves

LEMMA EndsInv ==
  ASSUME Inv, TypeOK', NEW c \in Callers, End(c),
         UNCHANGED <<status, inputs, lock, tx, foreign, refresh>>
  PROVE  Inv'
<1>1. CallsOK'
  BY EndsCalls, QuietCalls DEF Inv
<1>. QED
  BY <1>1, Quiet, RefreshStays DEF Inv

LEMMA LoadsInv ==
  ASSUME Sequential, Inv, TypeOK', NEW c \in Callers, NEW t \in Transfers,
         DeliverLoads(c, t) \/ BroadcastLoads(c, t) \/ CancelLoads(c, t)
  PROVE  Inv'
<1>0. UNCHANGED <<status, inputs, lock, tx, foreign, refresh>>
  BY DEF DeliverLoads, BroadcastLoads, CancelLoads
<1>1. Transport[t] \in {"out-of-band", "address"} /\ status[t] \in Statuses
  BY ConstantsAssumption DEF Sequential, Inv, TypeOK
<1>2. CASE DeliverLoads(c, t)
  <2>1. Standing(t)
    BY <1>1, <1>2 DEF DeliverLoads, Deliverable, Standing
  <2>2. \A x : x.kind = "deliver" /\ x.t = t => CallOK(x)
    BY <1>1, <1>2, <2>1 DEF CallOK, DeliverLoads, Deliverable
  <2>. QED
    BY <1>0, <1>2, <2>2, BeginsInv DEF DeliverLoads, Kinds, Steps
<1>3. CASE BroadcastLoads(c, t)
  <2>1. Standing(t)
    BY <1>1, <1>3 DEF BroadcastLoads, Broadcastable, Standing
  <2>2. \A x : x.kind = "broadcast" /\ x.t = t => CallOK(x)
    BY <2>1 DEF CallOK
  <2>. QED
    BY <1>0, <1>3, <2>2, BeginsInv DEF BroadcastLoads, Kinds, Steps
<1>4. CASE CancelLoads(c, t)
  <2>1. status[t] = "prepared" /\ ~Visible(t)
    BY <1>1, <1>4 DEF CancelLoads, Cancellable
  <2>2. \A x : x.kind = "cancel" /\ x.t = t /\ x.at = "save" => CallOK(x)
    BY <2>1 DEF CallOK
  <2>. QED
    BY <1>0, <1>4, <2>2, BeginsInv DEF CancelLoads, Kinds, Steps
<1>. QED
  BY <1>2, <1>3, <1>4

LEMMA SelectsInv ==
  ASSUME Sequential, Inv, TypeOK', NEW c \in Callers, NEW t \in Transfers, PrepareSelects(c, t)
  PROVE  Inv'
<1>0. UNCHANGED <<status, inputs, lock, tx, foreign, refresh>>
  BY DEF PrepareSelects
<1>1. PICK S \in SUBSET Outpoints : /\ \A o \in S : Selectable(o)
                                    /\ Begin(c, "prepare", t, "reserve", S)
  BY DEF PrepareSelects
<1>2. ~Visible(t) /\ status[t] = "none"
  BY DEF PrepareSelects, Inv, JournalOK, Sound, Standing
<1>3. t \notin S
  <2>1. t \notin Carriers
    BY ConstantsAssumption
  <2>. QED  BY <1>1, <1>2, <2>1 DEF Selectable, Unspent, Exists
<1>4. \A x : x.kind = "prepare" /\ x.t = t /\ x.at = "reserve" /\ x.ins = S => CallOK(x)
  BY <1>2, <1>3 DEF CallOK
<1>. QED
  BY <1>0, <1>1, <1>4, BeginsInv DEF PrepareSelects, Kinds, Steps

\* The journal and the chain stay; only locks change.
LEMMA LocksOnly ==
  ASSUME UNCHANGED <<status, inputs, tx, foreign>>
  PROVE  /\ Fewer
         /\ \A t : (Sound(t)' <=> Sound(t)) /\ (Standing(t)' <=> Standing(t)) /\ (Visible(t)' <=> Visible(t))
         /\ JournalOK => JournalOK'
<1>1. \A t : (Sound(t)' <=> Sound(t)) /\ (Standing(t)' <=> Standing(t)) /\ (Visible(t)' <=> Visible(t))
  BY DEF Sound, Standing, Visible
<1>. QED
  BY <1>1 DEF Fewer, JournalOK

LEMMA OthersKept ==
  ASSUME TypeOK, CallsOK, NEW c \in Callers, UNCHANGED <<status, inputs, tx, foreign>>,
         \A d \in Callers \ {c} : \A o \in Outpoints :
           op[d].kind = "prepare" /\ lock[o].owner = op[d].t => lock'[o].owner = op[d].t
  PROVE  \A y \in Ops : CallOK(y) /\ (\E d \in Callers : d # c /\ y = op[d]) => CallOK(y)'
<1> SUFFICES ASSUME NEW y \in Ops, CallOK(y), NEW d \in Callers \ {c}, y = op[d]
             PROVE  CallOK(y)'
  OBVIOUS
<1>1. y.ins \subseteq Outpoints /\ (y.kind = "prepare" => y.t \in Outpoints)
  BY Names DEF Ops, TypeOK
<1>2. y.kind = "prepare" => \A o \in Outpoints : lock[o].owner = y.t => lock'[o].owner = y.t
  OBVIOUS
<1>3. y.kind = "prepare" =>
       /\ y.at \in {"reserve", "change", "save"}
       /\ status'[y.t] = "none" /\ y.t \notin y.ins
       /\ y.at # "reserve" => \A o \in y.ins : lock'[o].owner = y.t
       /\ y.at = "save" => lock'[y.t].owner = y.t
  BY <1>1, <1>2 DEF CallOK
<1>. QED
  BY <1>3, LocksOnly DEF CallOK

\* One caller changes the locks, and goes on or ends.
LEMMA LockingInv ==
  ASSUME Inv, TypeOK', NEW c \in Callers, NEW x \in Ops, op' = [op EXCEPT ![c] = x],
         UNCHANGED <<status, inputs, tx, foreign, refresh>>,
         \A o \in Outpoints : LockStep(o),
         \A d \in Callers \ {c} : \A o \in Outpoints :
           op[d].kind = "prepare" /\ lock[o].owner = op[d].t => lock'[o].owner = op[d].t,
         CallOK(x)', x.kind = "idle" \/ (x.kind = op[c].kind /\ x.t = op[c].t)
  PROVE  Inv'
<1>0. TypeOK /\ CallsOK /\ JournalOK /\ RefreshOK
  BY DEF Inv
<1>1. \A d \in Callers : d # c => Apart(x, op[d])
  BY <1>0 DEF CallsOK, Apart
<1>2. CallsOK'
  BY <1>0, <1>1, OthersKept, CallMoves
<1>3. LocksOK'
  BY LocksKept, LocksOnly
<1>. QED
  BY <1>0, <1>2, <1>3, LocksOnly, RefreshStays DEF Inv

\* What Reserve does to one lock.
LEMMA Reserving ==
  ASSUME TypeOK, NEW S \in SUBSET Outpoints, NEW t \in Transfers, NEW K,
         \A o \in S : Reservable(o, t, K), lock' = Reserve(lock, S, t), NEW o \in Outpoints
  PROVE  /\ LockStep(o)
         /\ o \in S => lock'[o].owner = t
         /\ lock[o].owner \in Transfers => lock'[o].owner = lock[o].owner
<1>1. CASE o \notin S
  BY <1>1 DEF Reserve, LockStep
<1>2. CASE o \in S
  <2>1. lock'[o] = [owner |-> t, reason |-> "pending",
                    prev |-> IF lock[o].owner = t THEN lock[o].prev ELSE lock[o].reason]
    BY <1>2 DEF Reserve
  <2>2. lock[o].owner = t \/ lock[o].owner = None
    BY <1>2, Plain DEF Reservable
  <2>. QED  BY <1>2, <2>1, <2>2, Names DEF LockStep
<1>. QED
  BY <1>1, <1>2

LEMMA ReservesInv ==
  ASSUME Inv, TypeOK', NEW c \in Callers, PrepareReserves(c)
  PROVE  Inv'
<1>0. TypeOK /\ CallsOK /\ CallOK(op[c]) /\ UNCHANGED <<status, inputs, tx, foreign, refresh>>
  BY DEF Inv, CallsOK, PrepareReserves
<1>1. /\ op[c].kind = "prepare" /\ op[c].at = "reserve"
      /\ op[c].t \in Transfers /\ op[c].ins \subseteq Outpoints
  BY <1>0, AtTypes DEF PrepareReserves
<1>2. CASE \A o \in op[c].ins : Reservable(o, op[c].t, {"rgb"})
  <2>1. lock' = Reserve(lock, op[c].ins, op[c].t) /\ Goes(c, "change")
    BY <1>2 DEF PrepareReserves
  <2>2. \A o \in Outpoints : /\ LockStep(o)
                             /\ o \in op[c].ins => lock'[o].owner = op[c].t
                             /\ lock[o].owner \in Transfers => lock'[o].owner = lock[o].owner
    BY <1>0, <1>1, <1>2, <2>1, Reserving
  <2>3. PICK x \in Ops : /\ x.kind = "prepare" /\ x.t = op[c].t /\ x.at = "change"
                         /\ x.ins = op[c].ins /\ op' = [op EXCEPT ![c] = x]
    BY <1>0, <1>1, <2>1, Went DEF Steps
  <2>4. CallOK(x)'
    BY <1>0, <1>1, <2>2, <2>3 DEF CallOK
  <2>5. \A d \in Callers : op[d].kind = "prepare" => op[d].t \in Transfers
    BY <1>0, CallerTypes
  <2>. QED
    BY <1>0, <1>1, <2>2, <2>3, <2>4, <2>5, LockingInv
<1>3. CASE ~\A o \in op[c].ins : Reservable(o, op[c].t, {"rgb"})
  <2>1. End(c) /\ UNCHANGED lock
    BY <1>3 DEF PrepareReserves
  <2>. QED  BY <1>0, <2>1, EndsInv
<1>. QED
  BY <1>2, <1>3

LEMMA ReservesChangeInv ==
  ASSUME Inv, TypeOK', NEW c \in Callers, PrepareReservesChange(c)
  PROVE  Inv'
<1>0. TypeOK /\ CallsOK /\ CallOK(op[c]) /\ UNCHANGED <<status, inputs, tx, foreign, refresh>>
  BY DEF Inv, CallsOK, PrepareReservesChange
<1>1. /\ op[c].kind = "prepare" /\ op[c].at = "change"
      /\ op[c].t \in Transfers /\ op[c].ins \subseteq Outpoints /\ op[c].t \in Outpoints
  BY <1>0, AtTypes, Names DEF PrepareReservesChange
<1>2. /\ \A o \in {op[c].t} : Reservable(o, op[c].t, {})
      /\ lock' = Reserve(lock, {op[c].t}, op[c].t) /\ Goes(c, "save")
  BY DEF PrepareReservesChange
<1>3. \A o \in Outpoints : /\ LockStep(o)
                           /\ o \in {op[c].t} => lock'[o].owner = op[c].t
                           /\ lock[o].owner \in Transfers => lock'[o].owner = lock[o].owner
  <2>1. PICK S \in SUBSET Outpoints : S = {op[c].t}
    BY <1>1
  <2>2. /\ \A o \in S : Reservable(o, op[c].t, {})
        /\ lock' = Reserve(lock, S, op[c].t)
    BY <1>2, <2>1
  <2>. QED  BY <1>0, <1>1, <2>1, <2>2, Reserving
<1>4. PICK x \in Ops : /\ x.kind = "prepare" /\ x.t = op[c].t /\ x.at = "save"
                       /\ x.ins = op[c].ins /\ op' = [op EXCEPT ![c] = x]
  BY <1>0, <1>1, <1>2, Went DEF Steps
<1>5. \A o \in op[c].ins : lock'[o].owner = op[c].t
  BY <1>0, <1>1, <1>3 DEF CallOK
<1>6. CallOK(x)'
  BY <1>0, <1>1, <1>3, <1>4, <1>5 DEF CallOK
<1>7. \A d \in Callers \ {c} : \A o \in Outpoints :
        op[d].kind = "prepare" /\ lock[o].owner = op[d].t => lock'[o].owner = op[d].t
  <2>1. \A d \in Callers : op[d].kind = "prepare" => op[d].t \in Transfers
    BY <1>0, CallerTypes
  <2>. QED  BY <1>3, <2>1
<1>. QED
  BY <1>0, <1>1, <1>3, <1>4, <1>6, <1>7, LockingInv

LEMMA Freed ==
  ASSUME NEW r \in Reasons
  PROVE  [Unlocked EXCEPT !.reason = r].owner = None /\ [Unlocked EXCEPT !.reason = r].reason = r
BY DEF Unlocked

\* What Release does to one lock.
LEMMA Releasing ==
  ASSUME TypeOK, NEW S \in SUBSET Outpoints, NEW t \in Transfers, ~Sound(t),
         lock' = IF Releasable(S, t) THEN Release(lock, S) ELSE lock, NEW o \in Outpoints
  PROVE  /\ LockStep(o)
         /\ lock[o].owner \notin {t, None} => lock'[o].owner = lock[o].owner
<1>1. CASE Releasable(S, t) /\ o \in S /\ lock[o].owner # None
  <2>1. lock'[o] = [Unlocked EXCEPT !.reason = lock[o].prev]
    BY <1>1 DEF Release
  <2>2. PICK r \in Reasons : r = lock[o].prev
    BY DEF TypeOK, Locks
  <2>3. lock'[o].owner = None /\ lock'[o].reason = lock[o].prev
    <3>1. lock'[o] = [Unlocked EXCEPT !.reason = r]
      BY <2>1, <2>2
    <3>. QED  BY <2>2, <3>1, Freed
  <2>4. lock[o].owner = t
    BY <1>1, Plain DEF Releasable
  <2>. QED  BY <2>3, <2>4 DEF LockStep
<1>2. CASE ~(Releasable(S, t) /\ o \in S /\ lock[o].owner # None)
  <2>1. lock'[o] = lock[o]
    BY <1>2 DEF Release
  <2>. QED  BY <2>1 DEF LockStep
<1>. QED
  BY <1>1, <1>2

LEMMA FailsInv ==
  ASSUME Inv, TypeOK', NEW c \in Callers, PrepareFails(c)
  PROVE  Inv'
<1>0. TypeOK /\ CallsOK /\ CallOK(op[c]) /\ UNCHANGED <<status, inputs, tx, foreign, refresh>>
  BY DEF Inv, CallsOK, PrepareFails
<1>1. /\ op[c].kind = "prepare" /\ op[c].t \in Transfers /\ op[c].ins \subseteq Outpoints
      /\ op[c].t \in Outpoints
  BY <1>0, AtTypes, Names DEF PrepareFails
<1>2. PICK S : S = op[c].ins \cup (IF op[c].at = "save" THEN {op[c].t} ELSE {})
  OBVIOUS
<1>3. /\ S \in SUBSET Outpoints /\ End(c)
      /\ lock' = IF Releasable(S, op[c].t) THEN Release(lock, S) ELSE lock
  BY <1>1, <1>2 DEF PrepareFails
<1>4. ~Sound(op[c].t)
  BY <1>0, <1>1 DEF CallOK, Sound, Standing
<1>5. \A o \in Outpoints :
        /\ LockStep(o)
        /\ lock[o].owner \notin {op[c].t, None} => lock'[o].owner = lock[o].owner
  BY <1>0, <1>1, <1>3, <1>4, Releasing
<1>6. PICK x : x = Idle
  OBVIOUS
<1>7. x \in Ops /\ x.kind = "idle" /\ op' = [op EXCEPT ![c] = x]
  BY <1>3, <1>6, Plain DEF End
<1>8. CallOK(x)'
  BY <1>7 DEF CallOK
<1>9. \A d \in Callers \ {c} : op[d].kind = "prepare" => op[d].t \notin {op[c].t, None}
  BY <1>0, <1>1, CallerTypes, Names DEF CallsOK, Apart
<1>. QED
  BY <1>0, <1>5, <1>7, <1>8, <1>9, LockingInv

LEMMA PreparesInv ==
  ASSUME Inv, TypeOK', NEW c \in Callers, PrepareSaves(c)
  PROVE  Inv'
<1>0. /\ TypeOK /\ CallsOK /\ CallOK(op[c]) /\ JournalOK /\ RefreshOK /\ Owned /\ ChangesOK
      /\ UNCHANGED <<lock, tx, foreign, refresh>>
  BY DEF Inv, CallsOK, PrepareSaves, LocksOK
<1>1. /\ op[c].kind = "prepare" /\ op[c].at = "save"
      /\ op[c].t \in Transfers /\ op[c].ins \subseteq Outpoints
  BY <1>0, AtTypes DEF PrepareSaves
<1>2. PICK t \in Transfers, S \in SUBSET Outpoints : t = op[c].t /\ S = op[c].ins
  BY <1>1
<1>3. /\ status' = [status EXCEPT ![t] = "prepared"]
      /\ inputs' = [inputs EXCEPT ![t] = S] /\ End(c)
  BY <1>2 DEF PrepareSaves
<1>4. /\ status[t] = "none" /\ inputs[t] = {} /\ t \notin S
      /\ lock[t].owner = t /\ \A o \in S : lock[o].owner = t
      /\ ~Sound(t) /\ ~Visible(t)
  BY <1>0, <1>1, <1>2 DEF CallOK, JournalOK, Sound, Standing
<1>5. /\ status'[t] = "prepared" /\ inputs'[t] = S
      /\ \A u \in Transfers \ {t} : status'[u] = status[u] /\ inputs'[u] = inputs[u]
  BY <1>0, <1>3 DEF TypeOK
<1>6. \A u \in Transfers \ {t} : /\ Sound(u)' <=> Sound(u)
                                 /\ Standing(u)' <=> Standing(u)
                                 /\ Visible(u)' <=> Visible(u)
  BY <1>0, <1>5 DEF Sound, Standing, Visible
<1>7. CallsOK'
  <2> SUFFICES ASSUME NEW y \in Ops, CallOK(y), NEW d \in Callers, d # c, y = op[d]
               PROVE  CallOK(y)'
    BY <1>0, <1>3, EndsCalls
  <2>1. y.kind # "cancel" /\ (y.kind = "prepare" => y.t # t)
    BY <1>0, <1>1, <1>2 DEF CallsOK, Apart
  <2>2. y.kind # "idle" => y.t \in Transfers
    BY <1>0, CallerTypes
  <2>3. y.kind \in {"deliver", "broadcast"} => y.t # t
    BY <1>4 DEF CallOK, Standing
  <2>4. y.kind \in {"idle", "prepare", "deliver", "broadcast"}
    BY <2>1 DEF Ops, Kinds
  <2>. QED
    BY <1>0, <1>5, <1>6, <2>1, <2>2, <2>3, <2>4 DEF CallOK
<1>8. RefreshOK'
  <2>1. \A u : Followable(u) /\ u \in Transfers => Followable(u)'
    BY <1>4, <1>5 DEF Followable
  <2>2. refresh.todo \subseteq Transfers /\ (refresh.at = "transfer" => refresh.cur \in Transfers)
    BY <1>0, InHand DEF TypeOK, Refreshes
  <2>. QED  BY <1>0, <2>1, <2>2 DEF RefreshOK
<1>9. JournalOK'
  <2>1. ~Visible(t)' /\ status'[t] \in KeepsInputsLocked
    BY <1>0, <1>4, <1>5 DEF Visible, KeepsInputsLocked
  <2>. QED  BY <1>0, <1>4, <1>5, <1>6, <2>1 DEF JournalOK
<1>10. Owned'
  BY <1>0, <1>4, <1>5, <1>6 DEF Owned
<1>11. ChangesOK'
  <2>1. \A o \in Outpoints : lock'[o].owner # None => lock'[o].reason # "none"
    BY <1>0 DEF ChangesOK
  <2>2. Kept(t)'
    BY <1>0, <1>4, Names DEF ChangesOK, Kept
  <2>3. ASSUME NEW u \in Transfers \ {t}, Sound(u)' PROVE Kept(u)' \/ GivenUp(u)'
    <3>1. Kept(u) \/ GivenUp(u)
      BY <1>0, <1>6, <2>3 DEF ChangesOK
    <3>2. GivenUp(u) => GivenUp(u)'
      BY <1>4, <1>5, <1>6 DEF GivenUp
    <3>3. Kept(u) => Kept(u)'
      <4>1. lock[u].owner \in Transfers \cup {None}
        BY <1>0, Names DEF TypeOK, Locks
      <4>2. u \in inputs[lock[u].owner] => lock[u].owner # t
        BY <1>4
      <4>3. lock[u].owner = None \/ (u \in inputs[lock[u].owner] => u \in inputs'[lock[u].owner])
        BY <1>5, <4>1, <4>2
      <4>. QED  BY <1>0, <4>3 DEF Kept
    <3>. QED  BY <3>1, <3>2, <3>3
  <2>. QED  BY <2>1, <2>2, <2>3 DEF ChangesOK
<1>. QED
  BY <1>7, <1>8, <1>9, <1>10, <1>11 DEF Inv, LocksOK

-----------------------------------------------------------------------------
(* Steps that write the journal entry of a transfer that stands.           *)
LEMMA Wrote ==
  ASSUME Inv, NEW t \in Transfers, Standing(t),
         NEW s \in {"delivered", "broadcast", "pending", "settled", "conflicted"},
         status' = [status EXCEPT ![t] = s], UNCHANGED <<inputs, tx, foreign>>,
         s = "conflicted" => ~Sound(t)
  PROVE  /\ Fewer /\ JournalOK'
         /\ \A u \in Transfers : /\ Sound(u)' <=> Sound(u)
                                 /\ Standing(u)' <=> Standing(u)
                                 /\ Visible(u)' <=> Visible(u)
                                 /\ Followable(u) => Followable(u)'
                                 /\ u # t => status'[u] = status[u]
<1>0. TypeOK /\ JournalOK
  BY DEF Inv
<1>1. status'[t] = s /\ \A u \in Transfers \ {t} : status'[u] = status[u]
  BY <1>0 DEF TypeOK
<1>2. \A u \in Transfers : /\ Sound(u)' <=> Sound(u)
                           /\ Standing(u)' <=> Standing(u)
                           /\ Visible(u)' <=> Visible(u)
  BY <1>1 DEF Sound, Standing, Visible
<1>3. JournalOK'
  BY <1>0, <1>1, <1>2 DEF JournalOK, Standing, KeepsInputsLocked
<1>4. Fewer
  BY <1>2 DEF Fewer
<1>. QED
  BY <1>1, <1>2, <1>3, <1>4 DEF Followable

LEMMA WroteCalls ==
  ASSUME Inv, NEW t \in Transfers, Standing(t),
         NEW s \in {"delivered", "broadcast", "pending", "settled", "conflicted"},
         status' = [status EXCEPT ![t] = s], UNCHANGED <<inputs, tx, foreign>>,
         s = "conflicted" => ~Sound(t),
         NEW y \in Ops, CallOK(y), y.kind # "idle" => y.t \in Transfers,
         y.kind = "cancel" => Followable(t),
         \A o \in Outpoints : y.kind = "prepare" /\ lock[o].owner = y.t => lock'[o].owner = y.t
  PROVE  CallOK(y)'
<1>1. /\ Fewer
      /\ \A u \in Transfers : /\ Standing(u)' <=> Standing(u)
                              /\ Visible(u)' <=> Visible(u)
                              /\ u # t => status'[u] = status[u]
  BY Wrote
<1>2. CASE y.kind = "prepare"
  <2>1. y.t # t /\ y.t \in Transfers /\ y.t \in Outpoints /\ y.ins \subseteq Outpoints
    BY <1>2, Names DEF CallOK, Standing, Ops
  <2>2. \A o \in Outpoints : lock[o].owner = y.t => lock'[o].owner = y.t
    BY <1>2
  <2>. QED  BY <1>1, <1>2, <2>1, <2>2 DEF CallOK
<1>3. CASE y.kind \in {"deliver", "broadcast"}
  BY <1>1, <1>3 DEF CallOK
<1>4. CASE y.kind = "cancel"
  <2>1. y.t # t /\ y.t \in Transfers
    BY <1>4 DEF CallOK, Followable, Standing
  <2>2. \A u \in Transfers : Sound(u)' => Sound(u)
    BY <1>1 DEF Fewer
  <2>. QED  BY <1>1, <1>4, <2>1, <2>2 DEF CallOK
<1>5. CASE y.kind = "idle"
  BY <1>5 DEF CallOK
<1>6. y.kind \in Kinds
  BY DEF Ops
<1>. QED
  BY <1>2, <1>3, <1>4, <1>5, <1>6 DEF Kinds

\* A caller writes the entry, as its last step.
LEMMA CallerWrites ==
  ASSUME Inv, TypeOK', NEW c \in Callers, op[c].kind \in {"deliver", "broadcast"},
         NEW s \in {"delivered", "broadcast"},
         status' = [status EXCEPT ![op[c].t] = s], End(c),
         UNCHANGED <<inputs, lock, tx, foreign, refresh>>
  PROVE  Inv'
<1>0. TypeOK /\ CallsOK /\ CallOK(op[c]) /\ RefreshOK
  BY DEF Inv, CallsOK
<1>1. PICK t \in Transfers : t = op[c].t
  BY <1>0, CallerTypes
<1>2. Standing(t)
  BY <1>0, <1>1 DEF CallOK
<1>3. /\ Fewer /\ JournalOK'
      /\ \A u \in Transfers : Followable(u) => Followable(u)'
  BY <1>1, <1>2, Wrote
<1>4. CallsOK'
  <2> SUFFICES ASSUME NEW y \in Ops, CallOK(y), NEW d \in Callers, d # c, y = op[d]
               PROVE  CallOK(y)'
    BY <1>0, EndsCalls
  <2>1. y.kind # "cancel"
    BY <1>0 DEF CallsOK, Apart
  <2>2. y.kind # "idle" => y.t \in Transfers
    BY <1>0, CallerTypes
  <2>. QED  BY <1>1, <1>2, <2>1, <2>2, WroteCalls
<1>5. RefreshOK'
  <2>1. refresh.todo \subseteq Transfers /\ (refresh.at = "transfer" => refresh.cur \in Transfers)
    BY <1>0, InHand DEF TypeOK, Refreshes
  <2>. QED  BY <1>0, <1>3, <2>1 DEF RefreshOK
<1>6. LocksOK'
  BY <1>3, LocksKept DEF LockStep
<1>. QED
  BY <1>3, <1>4, <1>5, <1>6 DEF Inv

LEMMA HandsOverInv ==
  ASSUME Inv, TypeOK', NEW c \in Callers, DeliverSaves(c) \/ BroadcastSaves(c)
  PROVE  Inv'
<1>0. TypeOK /\ CallOK(op[c])
  BY DEF Inv, CallsOK
<1>1. CASE DeliverSaves(c)
  <2>1. op[c].kind = "deliver" /\ Transport[op[c].t] = "address"
    BY <1>0, <1>1, AtTypes DEF DeliverSaves, CallOK
  <2>2. /\ status' = [status EXCEPT ![op[c].t] = "delivered"]
        /\ End(c) /\ UNCHANGED <<inputs, lock, tx, foreign, refresh>>
    BY <1>1, <2>1 DEF DeliverSaves
  <2>. QED  BY <2>1, <2>2, CallerWrites
<1>2. CASE BroadcastSaves(c)
  <2>1. op[c].kind = "broadcast"
    BY <1>0, <1>2, AtTypes DEF BroadcastSaves
  <2>2. /\ status' = [status EXCEPT ![op[c].t] = "broadcast"]
        /\ End(c) /\ UNCHANGED <<inputs, lock, tx, foreign, refresh>>
    BY <1>2 DEF BroadcastSaves
  <2>. QED  BY <2>1, <2>2, CallerWrites
<1>. QED
  BY <1>1, <1>2

LEMMA SendsInv ==
  ASSUME Inv, TypeOK', NEW c \in Callers, BroadcastSends(c)
  PROVE  Inv'
<1>0. /\ TypeOK /\ CallsOK /\ CallOK(op[c]) /\ JournalOK /\ RefreshOK
      /\ UNCHANGED <<status, inputs, lock, foreign, refresh>>
  BY DEF Inv, CallsOK, BroadcastSends
<1>1. op[c].kind = "broadcast" /\ op[c].t \in Transfers
  BY <1>0, AtTypes DEF BroadcastSends
<1>2. PICK t \in Transfers : t = op[c].t
  BY <1>1
<1>3. CASE ~Acceptable(t)
  <2>1. End(c) /\ UNCHANGED tx
    BY <1>2, <1>3 DEF BroadcastSends
  <2>. QED  BY <1>0, <2>1, EndsInv
<1>4. CASE Acceptable(t)
  <2>1. /\ tx' = [tx EXCEPT ![t] = IF Visible(t) THEN tx[t] ELSE "mempool"]
        /\ Goes(c, "save") \/ End(c)
    BY <1>2, <1>4 DEF BroadcastSends
  <2>2. Sound(t)
    BY <1>0, <1>1, <1>2, <1>4 DEF Acceptable, CallOK, Sound
  <2>3. \A u \in Transfers : /\ Sound(u)' <=> Sound(u)
                             /\ Standing(u)' <=> Standing(u)
                             /\ Visible(u)' => Visible(u) \/ u = t
    BY <1>0, <2>1 DEF Sound, Standing, Visible, TypeOK
  <2>4. PICK x \in Ops : /\ op' = [op EXCEPT ![c] = x]
                         /\ x.kind = "idle" \/ (x.kind = "broadcast" /\ x.t = t)
    <3>1. CASE Goes(c, "save")
      BY <1>0, <1>1, <1>2, <3>1, Went DEF Steps
    <3>2. CASE End(c)
      BY <3>2, Plain DEF End
    <3>. QED  BY <2>1, <3>1, <3>2
  <2>5. CallOK(x)'
    BY <2>2, <2>3, <2>4 DEF CallOK, Sound
  <2>6. CallsOK'
    <3>1. ASSUME NEW y \in Ops, CallOK(y), NEW d \in Callers, d # c, y = op[d]
          PROVE  CallOK(y)'
      <4>1. y.kind # "cancel"
        BY <1>0, <1>1, <3>1 DEF CallsOK, Apart
      <4>2. y.kind # "idle" => y.t \in Transfers
        BY <1>0, <3>1, CallerTypes
      <4>3. y.kind \in Kinds
        BY DEF Ops
      <4>4. Standing(y.t)' <=> Standing(y.t)
        BY <1>0 DEF Standing
      <4>. QED  BY <1>0, <3>1, <4>1, <4>2, <4>3, <4>4 DEF CallOK, Kinds
    <3>2. \A d \in Callers : d # c => Apart(x, op[d])
      BY <1>0, <1>1, <2>4 DEF CallsOK, Apart
    <3>. QED  BY <1>0, <2>4, <2>5, <3>1, <3>2, CallMoves
  <2>7. JournalOK'
    BY <1>0, <2>2, <2>3 DEF JournalOK
  <2>8. LocksOK'
    <3>1. Fewer
      BY <1>0, <2>3 DEF Fewer
    <3>. QED  BY <1>0, <3>1, LocksKept DEF LockStep
  <2>. QED
    BY <1>0, <2>6, <2>7, <2>8, RefreshStays DEF Inv
<1>. QED
  BY <1>3, <1>4

LEMMA CallFailsInv ==
  ASSUME Inv, TypeOK', NEW c \in Callers, CallFails(c)
  PROVE  Inv'
BY EndsInv DEF CallFails

-----------------------------------------------------------------------------
(* The cancellation.                                                       *)
LEMMA CancelsInv ==
  ASSUME Inv, TypeOK', NEW c \in Callers, CancelSaves(c)
  PROVE  Inv'
<1>0. /\ TypeOK /\ CallsOK /\ CallOK(op[c]) /\ JournalOK /\ RefreshOK
      /\ UNCHANGED <<inputs, lock, tx, foreign, refresh>>
  BY DEF Inv, CallsOK, CancelSaves
<1>1. op[c].kind = "cancel" /\ op[c].at = "save" /\ op[c].t \in Transfers
  BY <1>0, AtTypes DEF CancelSaves
<1>2. PICK t \in Transfers : t = op[c].t
  BY <1>1
<1>3. /\ status' = [status EXCEPT ![t] = "rejected"] /\ Goes(c, "release")
      /\ status[t] = "prepared" /\ ~Visible(t)
  BY <1>0, <1>1, <1>2 DEF CancelSaves, CallOK
<1>4. status'[t] = "rejected" /\ \A u \in Transfers \ {t} : status'[u] = status[u]
  BY <1>0, <1>3 DEF TypeOK
<1>5. /\ ~Sound(t)' /\ ~Visible(t)'
      /\ \A u \in Transfers \ {t} : (Sound(u)' <=> Sound(u)) /\ (Visible(u)' <=> Visible(u))
  BY <1>0, <1>3, <1>4 DEF Sound, Standing, Visible
<1>6. PICK x \in Ops : /\ op' = [op EXCEPT ![c] = x]
                       /\ x.kind = "cancel" /\ x.t = t /\ x.at = "release"
  BY <1>0, <1>1, <1>2, <1>3, Went DEF Steps
<1>7. CallOK(x)'
  BY <1>4, <1>6 DEF CallOK
<1>8. CallsOK'
  <2>1. \A d \in Callers : d # c => op[d].kind = "idle"
    BY <1>0, <1>1 DEF CallsOK, Apart
  <2>2. \A y \in Ops : CallOK(y) /\ (\E d \in Callers : d # c /\ y = op[d]) => CallOK(y)'
    BY <2>1 DEF CallOK
  <2>3. \A d \in Callers : d # c => Apart(x, op[d])
    BY <1>6, <2>1 DEF Apart
  <2>. QED  BY <1>0, <1>6, <1>7, <2>2, <2>3, CallMoves
<1>9. RefreshOK'
  <2>1. \A u \in Transfers : Followable(u) => Followable(u)'
    BY <1>3, <1>4 DEF Followable
  <2>2. refresh.todo \subseteq Transfers /\ (refresh.at = "transfer" => refresh.cur \in Transfers)
    BY <1>0, InHand DEF TypeOK, Refreshes
  <2>. QED  BY <1>0, <2>1, <2>2 DEF RefreshOK
<1>10. JournalOK'
  BY <1>0, <1>4, <1>5 DEF JournalOK
<1>11. LocksOK'
  <2>1. Fewer
    BY <1>0, <1>5 DEF Fewer
  <2>. QED  BY <1>0, <2>1, LocksKept DEF LockStep
<1>. QED
  BY <1>8, <1>9, <1>10, <1>11 DEF Inv

LEMMA CancelReleasesInv ==
  ASSUME Inv, TypeOK', NEW c \in Callers, CancelReleases(c)
  PROVE  Inv'
<1>0. /\ TypeOK /\ CallsOK /\ CallOK(op[c])
      /\ UNCHANGED <<status, inputs, tx, foreign, refresh>>
  BY DEF Inv, CallsOK, CancelReleases
<1>1. op[c].kind = "cancel" /\ op[c].at = "release" /\ op[c].t \in Transfers
  BY <1>0, AtTypes DEF CancelReleases
<1>2. PICK t \in Transfers, S \in SUBSET Outpoints : t = op[c].t /\ S = inputs[t] \cup {t}
  <2>1. PICK t \in Transfers : t = op[c].t
    BY <1>1
  <2>2. inputs[t] \cup {t} \in SUBSET Outpoints
    BY <1>0, Names DEF TypeOK
  <2>. QED  BY <2>1, <2>2
<1>3. /\ lock' = IF Releasable(S, t) THEN Release(lock, S) ELSE lock
      /\ Goes(c, "read") \/ End(c)
  BY <1>2 DEF CancelReleases
<1>4. status[t] = "rejected" /\ ~Sound(t)
  BY <1>0, <1>1, <1>2 DEF CallOK, Sound, Standing
<1>5. \A o \in Outpoints : LockStep(o)
  BY <1>0, <1>2, <1>3, <1>4, Releasing
<1>6. PICK x \in Ops : /\ op' = [op EXCEPT ![c] = x]
                       /\ x.kind = "idle" \/ (x.kind = "cancel" /\ x.t = t /\ x.at = "read")
  <2>1. CASE Goes(c, "read")
    BY <1>0, <1>1, <1>2, <2>1, Went DEF Steps
  <2>2. CASE End(c)
    BY <2>2, Plain DEF End
  <2>. QED  BY <1>3, <2>1, <2>2
<1>7. CallOK(x)'
  BY <1>0, <1>4, <1>6 DEF CallOK
<1>8. \A d \in Callers \ {c} : op[d].kind = "idle"
  BY <1>0, <1>1 DEF CallsOK, Apart
<1>. QED
  BY <1>0, <1>1, <1>2, <1>5, <1>6, <1>7, <1>8, LockingInv

LEMMA CancelReadsInv ==
  ASSUME Inv, TypeOK', NEW c \in Callers, CancelReads(c)
  PROVE  Inv'
<1>0. /\ TypeOK /\ CallsOK /\ CallOK(op[c]) /\ JournalOK /\ RefreshOK
      /\ UNCHANGED <<status, inputs, lock, tx, foreign, refresh>>
  BY DEF Inv, CallsOK, CancelReads
<1>1. op[c].kind = "cancel" /\ op[c].at = "read" /\ op[c].t \in Transfers
  BY <1>0, AtTypes DEF CancelReads
<1>2. PICK x : x = [op[c] EXCEPT !.at = "rebuild", !.read = status]
  OBVIOUS
<1>3. /\ x \in Ops /\ x.kind = "cancel" /\ x.t = op[c].t /\ x.at = "rebuild" /\ x.read = status
      /\ op' = [op EXCEPT ![c] = x]
  <2>1. op[c] \in Ops /\ status \in [Transfers -> Statuses]
    BY <1>0 DEF TypeOK
  <2>2. op' = [op EXCEPT ![c] = x]
    BY <1>2 DEF CancelReads
  <2>. QED  BY <1>1, <1>2, <2>1, <2>2 DEF Ops
<1>4. CallOK(x)'
  <2>1. status'[x.t] = "rejected"
    BY <1>0, <1>1, <1>3 DEF CallOK
  <2>2. \A u \in Transfers : Sound(u)' => x.read[u] \in KeepsInputsLocked
    BY <1>0, <1>3, LocksOnly DEF JournalOK
  <2>. QED  BY <1>3, <2>1, <2>2 DEF CallOK
<1>5. \A d \in Callers : d # c => op[d].kind = "idle"
  BY <1>0, <1>1 DEF CallsOK, Apart
<1>6. \A d \in Callers : d # c => Apart(x, op[d])
  BY <1>3, <1>5 DEF Apart
<1>7. CallsOK'
  BY <1>0, <1>3, <1>4, <1>6, QuietCalls, CallMoves
<1>. QED
  BY <1>0, <1>7, Quiet, RefreshStays

\* What a rebuild does to one lock, when its reading of the journal has every
\* transfer that the chain can take.
LEMMA RebuildLocking ==
  ASSUME Inv, NEW read \in Reads, RebuildLocks(read),
         \A t \in Transfers : Sound(t) => read[t] \in KeepsInputsLocked,
         NEW o \in Outpoints
  PROVE  LockStep(o)
<1>0. TypeOK /\ JournalOK /\ Live(read) \subseteq Transfers
      /\ \A t \in Transfers : Sound(t) => t \in Live(read)
  BY DEF Inv, Live
<1>1. PICK G, l, m : Rebuilt(read, G, l, m)
  BY <1>0, RebuildSteps
<1>2. /\ G \in SUBSET Live(read) /\ \A t \in G : ~GroupFails(read, t)
      /\ l = AdoptAll(read, G)
  BY <1>1 DEF Rebuilt
<1>3. /\ l[o] \in Locks /\ lock[o] \in Locks /\ lock'[o] \in Locks
      /\ \/ \E t \in G : /\ o \in Group(read, t) /\ lock[o].owner \in {t, None}
                         /\ l[o].owner = t /\ l[o].reason = "pending"
         \/ /\ o \in G /\ read[o] = "settled" /\ lock[o].owner \in {o, None}
            /\ l[o].owner = None /\ l[o].reason = "rgb"
         \/ l[o] = lock[o] /\ o \notin G
  <2>1. lock[o] \in Locks /\ lock'[o] \in Locks
    BY <1>0, <1>1 DEF TypeOK, Rebuilt
  <2>2. l \in [Outpoints -> Locks]
    BY <1>0, <1>2, Adopted
  <2>3. \/ \E t \in G : /\ o \in Group(read, t) /\ lock[o].owner \in {t, None}
                        /\ l[o].owner = t /\ l[o].reason = "pending"
        \/ /\ o \in G /\ read[o] = "settled" /\ lock[o].owner \in {o, None}
           /\ l[o].owner = None /\ l[o].reason = "rgb"
        \/ l[o] = lock[o] /\ o \notin G
    BY <1>0, <1>2, Adopted
  <2>. QED  BY <2>1, <2>2, <2>3
<1>4. /\ lock'[o].owner = m[o].owner /\ lock'[o].prev = m[o].prev
      /\ lock'[o].reason \in {m[o].reason, "rgb", "pending"}
  BY <1>1 DEF Rebuilt
<1>5. \/ m[o] = l[o]
      \/ /\ G = Live(read) /\ l[o].owner # None
         /\ ~(l[o].owner \in Live(read) /\ o \in Group(read, l[o].owner))
         /\ m[o].owner = None /\ m[o].reason = l[o].prev
  <2>1. CASE m = l
    BY <2>1
  <2>2. CASE G = Live(read) /\ m = Release(l, Stale(l, read))
    <3>1. CASE o \in Stale(l, read) /\ l[o].owner # None
      <4>1. PICK r \in Reasons : r = l[o].prev
        BY <1>3 DEF Locks
      <4>2. m[o] = [Unlocked EXCEPT !.reason = r]
        BY <2>2, <3>1, <4>1 DEF Release
      <4>3. m[o].owner = None /\ m[o].reason = r
        BY <4>2, Freed
      <4>. QED  BY <2>2, <3>1, <4>1, <4>3 DEF Stale
    <3>2. CASE ~(o \in Stale(l, read) /\ l[o].owner # None)
      BY <2>2, <3>2 DEF Release
    <3>. QED  BY <3>1, <3>2
  <2>. QED  BY <1>1, <2>1, <2>2 DEF Rebuilt
<1>6. CASE \E t \in G : /\ o \in Group(read, t) /\ lock[o].owner \in {t, None}
                        /\ l[o].owner = t /\ l[o].reason = "pending"
  <2>1. PICK t \in G : /\ o \in Group(read, t) /\ lock[o].owner \in {t, None}
                       /\ l[o].owner = t /\ l[o].reason = "pending"
    BY <1>6
  <2>2. t \in Live(read) /\ t \in Transfers /\ o \in inputs[t] \cup {t}
    BY <1>0, <1>2, <2>1 DEF Group
  <2>3. m[o] = l[o]
    BY <1>5, <2>1, <2>2
  <2>. QED  BY <1>4, <2>1, <2>2, <2>3 DEF LockStep
<1>7. CASE /\ o \in G /\ read[o] = "settled" /\ lock[o].owner \in {o, None}
           /\ l[o].owner = None /\ l[o].reason = "rgb"
  <2>1. o \in Transfers /\ o \notin inputs[o]
    BY <1>0, <1>2, <1>7 DEF JournalOK
  <2>2. m[o] = l[o]
    BY <1>5, <1>7
  <2>. QED  BY <1>4, <1>7, <2>1, <2>2 DEF LockStep
<1>8. CASE l[o] = lock[o] /\ o \notin G
  <2>1. CASE m[o] = l[o]
    <3>1. lock'[o].reason = lock[o].reason => lock'[o] = lock[o]
      BY <1>3, <1>4, <1>8, <2>1 DEF Locks
    <3>. QED  BY <1>4, <1>8, <2>1, <3>1 DEF LockStep
  <2>2. CASE /\ G = Live(read) /\ l[o].owner # None
             /\ ~(l[o].owner \in Live(read) /\ o \in Group(read, l[o].owner))
             /\ m[o].owner = None /\ m[o].reason = l[o].prev
    <3>1. PICK w \in Transfers : w = lock[o].owner
      BY <1>3, <1>8, <2>2 DEF Locks
    <3>2. ~Sound(w) \/ o \notin inputs[w] \cup {w}
      BY <1>0, <1>8, <2>2, <3>1 DEF Group
    <3>. QED  BY <1>4, <1>8, <2>2, <3>1, <3>2 DEF LockStep
  <2>. QED  BY <1>5, <2>1, <2>2
<1>. QED
  BY <1>3, <1>6, <1>7, <1>8

LEMMA CancelRebuildsInv ==
  ASSUME Inv, TypeOK', NEW c \in Callers, CancelRebuilds(c)
  PROVE  Inv'
<1>0. /\ TypeOK /\ CallsOK /\ CallOK(op[c])
      /\ UNCHANGED <<status, inputs, tx, foreign, refresh>>
  BY DEF Inv, CallsOK, CancelRebuilds
<1>1. /\ op[c].kind = "cancel" /\ op[c].at = "rebuild" /\ op[c].t \in Transfers
      /\ op[c].read \in Reads
  BY <1>0, AtTypes DEF CancelRebuilds, Reads
<1>2. \A o \in Outpoints : LockStep(o)
  <2>1. \A t \in Transfers : Sound(t) => op[c].read[t] \in KeepsInputsLocked
    BY <1>0, <1>1 DEF CallOK
  <2>. QED  BY <1>1, <2>1, RebuildLocking DEF CancelRebuilds
<1>3. PICK x : x = Idle
  OBVIOUS
<1>4. x \in Ops /\ x.kind = "idle" /\ op' = [op EXCEPT ![c] = x]
  BY <1>3, Plain DEF CancelRebuilds, End
<1>5. CallOK(x)'
  BY <1>4 DEF CallOK
<1>6. \A d \in Callers \ {c} : op[d].kind = "idle"
  BY <1>0, <1>1 DEF CallsOK, Apart
<1>. QED
  BY <1>0, <1>2, <1>4, <1>5, <1>6, LockingInv

LEMMA RestartInv ==
  ASSUME Inv, TypeOK', Restart
  PROVE  Inv'
<1>0. /\ TypeOK /\ JournalOK /\ status \in Reads
      /\ UNCHANGED <<status, inputs, tx, foreign>>
  BY DEF Inv, Restart, TypeOK, Reads
<1>1. \A o \in Outpoints : LockStep(o)
  BY <1>0, RebuildLocking DEF Restart, JournalOK
<1>2. LocksOK' /\ JournalOK'
  BY <1>0, <1>1, LocksKept, LocksOnly
<1>3. CallsOK'
  <2>1. \A c \in Callers : op'[c].kind = "idle"
    BY Plain DEF Restart
  <2>. QED  BY <2>1 DEF CallsOK, CallOK, Apart
<1>4. RefreshOK'
  BY Plain DEF Restart, RefreshOK
<1>. QED
  BY <1>2, <1>3, <1>4 DEF Inv

-----------------------------------------------------------------------------
(* The refresh.                                                            *)
LEMMA OnwardRefresh ==
  ASSUME TypeOK, RefreshOK, Onward, \A u \in Transfers : Followable(u) => Followable(u)'
  PROVE  RefreshOK'
<1>1. refresh.todo \subseteq Transfers
  BY DEF TypeOK, Refreshes
<1>2. refresh'.at # "transfer" /\ refresh'.todo \subseteq refresh.todo
  BY DEF Onward
<1>. QED
  BY <1>1, <1>2 DEF RefreshOK

LEMMA RefreshBeginsInv ==
  ASSUME Inv, TypeOK', NEW by \in {"worker", "api"}, RefreshBegins(by)
  PROVE  Inv'
<1>0. TypeOK /\ CallsOK /\ RefreshOK /\ UNCHANGED <<status, inputs, lock, tx, foreign, op>>
  BY DEF Inv, RefreshBegins
<1>1. CallsOK'
  BY <1>0, CallsStay, QuietCalls
<1>2. RefreshOK'
  <2>1. refresh' = refresh \/ /\ refresh'.at = "transfers"
                              /\ refresh'.todo = {t \in Transfers : status[t] \in {"broadcast", "pending", "settled"}}
    BY <1>0, RefreshBeginsType
  <2>. QED  BY <1>0, <2>1, RefreshStays DEF RefreshOK, Followable
<1>. QED
  BY <1>0, <1>1, <1>2, Quiet

LEMMA RefreshLoadsInv ==
  ASSUME Inv, TypeOK', NEW t \in Transfers, RefreshLoads(t)
  PROVE  Inv'
<1>0. TypeOK /\ CallsOK /\ RefreshOK /\ UNCHANGED <<status, inputs, lock, tx, foreign, op>>
  BY DEF Inv, RefreshLoads
<1>1. CallsOK'
  BY <1>0, CallsStay, QuietCalls
<1>2. t \in refresh.todo
  BY DEF RefreshLoads
<1>3. \/ refresh'.at = "none" /\ refresh'.todo = {}
      \/ /\ refresh'.at = "transfer" /\ refresh'.cur = t /\ refresh'.got = status[t]
         /\ refresh'.todo = refresh.todo \ {t} /\ status[t] \in KeepsInputsLocked
  BY <1>0, RefreshLoadsType
<1>4. RefreshOK'
  BY <1>0, <1>2, <1>3 DEF RefreshOK, Followable
<1>. QED
  BY <1>0, <1>1, <1>4, Quiet

LEMMA StopInv ==
  ASSUME Inv, TypeOK', Stop
  PROVE  Inv'
<1>0. TypeOK /\ CallsOK /\ RefreshOK /\ UNCHANGED <<status, inputs, lock, tx, foreign, op>>
  BY DEF Inv, Stop
<1>1. CallsOK'
  BY <1>0, CallsStay, QuietCalls
<1>2. RefreshOK'
  BY <1>0, StopType, OnwardRefresh DEF Followable
<1>. QED
  BY <1>0, <1>1, <1>2, Quiet

\* The refresh writes the entry of the transfer in hand; the locks of the
\* preparations under way stay theirs.
LEMMA RefreshWrites ==
  ASSUME Inv, TypeOK', refresh.at = "transfer", Onward,
         NEW s \in {"delivered", "broadcast", "pending", "settled", "conflicted"},
         Writes(refresh.cur, s), UNCHANGED <<inputs, tx, foreign>>,
         s = "conflicted" => ~Sound(refresh.cur),
         \A o \in Outpoints :
           /\ LockStep(o)
           /\ lock[o].owner \in Transfers \ {refresh.cur} => lock'[o].owner = lock[o].owner
  PROVE  Inv'
<1>0. TypeOK /\ CallsOK /\ RefreshOK /\ JournalOK /\ UNCHANGED op
  BY DEF Inv, Onward
<1>1. PICK t \in Transfers : t = refresh.cur
  BY <1>0, InHand
<1>2. Followable(t) /\ Standing(t)
  BY <1>0, <1>1 DEF RefreshOK, Followable, Standing
<1>3. status' = [status EXCEPT ![t] = s]
  BY <1>1 DEF Writes
<1>4. Fewer /\ JournalOK' /\ \A u \in Transfers : Followable(u) => Followable(u)'
  BY <1>1, <1>2, <1>3, Wrote
<1>5. CallsOK'
  <2> SUFFICES ASSUME NEW y \in Ops, CallOK(y), NEW d \in Callers, y = op[d]
               PROVE  CallOK(y)'
    BY <1>0, CallsStay
  <2>1. y.kind # "idle" => y.t \in Transfers
    BY <1>0, CallerTypes
  <2>2. y.kind = "prepare" => y.t # t
    BY <1>2 DEF CallOK, Followable
  <2>3. \A o \in Outpoints : y.kind = "prepare" /\ lock[o].owner = y.t => lock'[o].owner = y.t
    BY <1>1, <2>1, <2>2
  <2>. QED  BY <1>1, <1>2, <1>3, <2>1, <2>3, WroteCalls
<1>6. RefreshOK'
  BY <1>0, <1>4, OnwardRefresh
<1>7. LocksOK'
  BY <1>4, LocksKept
<1>. QED
  BY <1>4, <1>5, <1>6, <1>7 DEF Inv

LEMMA PutBackInv ==
  ASSUME Inv, TypeOK', PutBack
  PROVE  Inv'
<1>1. TypeOK /\ refresh.at = "transfer" /\ Writes(refresh.cur, "pending")
      /\ UNCHANGED <<inputs, lock, tx, foreign>>
  BY DEF Inv, PutBack
<1>2. Onward
  BY <1>1, PutBackType
<1>. QED
  BY <1>1, <1>2, RefreshWrites DEF LockStep

\* Where a lock gets another reason.
LEMMA Reasoned ==
  ASSUME NEW l \in [Outpoints -> Locks], NEW S, NEW r \in Reasons, NEW o \in Outpoints
  PROVE  /\ SetLockReason(l, S, r) \in [Outpoints -> Locks]
         /\ SetLockReason(l, S, r)[o].owner = l[o].owner
         /\ SetLockReason(l, S, r)[o].prev = l[o].prev
         /\ o \in S => SetLockReason(l, S, r)[o].reason = r
         /\ o \notin S => SetLockReason(l, S, r)[o] = l[o]
<1>1. SetLockReason(l, S, r) \in [Outpoints -> Locks]
  BY LockWith DEF SetLockReason
<1>2. SetLockReason(l, S, r)[o] = IF o \in S THEN [l[o] EXCEPT !.reason = r] ELSE l[o]
  BY DEF SetLockReason
<1>. QED
  BY <1>1, <1>2, LockWith

LEMMA AppliesInv ==
  ASSUME Inv, TypeOK', RefreshApplies
  PROVE  Inv'
<1>0. /\ TypeOK /\ JournalOK /\ refresh.at = "transfer" /\ Onward
      /\ UNCHANGED <<inputs, tx, foreign>>
  BY AppliesType DEF Inv, RefreshApplies
<1>1. PICK t \in Transfers : t = refresh.cur
  BY <1>0, InHand
<1>2. PICK s \in {"settled", "pending"} : Writes(t, s)
  BY <1>1 DEF RefreshApplies
<1>3. PICK r \in {"rgb", "pending"}, S \in SUBSET Outpoints :
           \/ lock' = SetLockReason(SetLockReason(lock, {t}, r), S, "pending")
           \/ /\ Finalizable(lock, t)
              /\ lock' = Finalize(SetLockReason(SetLockReason(lock, {t}, r), S, "pending"), t)
  <2> DEFINE r == IF Confirmed(t) THEN "rgb" ELSE "pending"
             S == {o \in inputs[t] : proof[o] \notin {"none", "spending"}}
  <2>1. \/ lock' = SetLockReason(SetLockReason(lock, {t}, r), S, "pending")
        \/ /\ Finalizable(lock, t)
           /\ lock' = Finalize(SetLockReason(SetLockReason(lock, {t}, r), S, "pending"), t)
    BY <1>1 DEF RefreshApplies
  <2>2. S \in SUBSET Outpoints
    BY <1>0 DEF TypeOK
  <2>. QED  BY <2>1, <2>2
<1>4. ASSUME NEW o \in Outpoints
      PROVE  /\ LockStep(o)
             /\ lock[o].owner \in Transfers \ {t} => lock'[o].owner = lock[o].owner
  <2>1. PICK l : l = SetLockReason(lock, {t}, r)
    OBVIOUS
  <2>2. PICK m : m = SetLockReason(l, S, "pending")
    OBVIOUS
  <2>3. r \in Reasons /\ "pending" \in Reasons /\ "rgb" \in Reasons /\ lock \in [Outpoints -> Locks]
    BY <1>0 DEF Reasons, TypeOK
  <2>4. /\ l \in [Outpoints -> Locks] /\ l[o].owner = lock[o].owner /\ l[o].prev = lock[o].prev
        /\ o \in {t} => l[o].reason = r
        /\ o \notin {t} => l[o] = lock[o]
    BY <2>1, <2>3, Reasoned
  <2>5. /\ m \in [Outpoints -> Locks] /\ m[o].owner = l[o].owner /\ m[o].prev = l[o].prev
        /\ o \in S => m[o].reason = "pending"
        /\ o \notin S => m[o] = l[o]
    BY <2>2, <2>3, <2>4, Reasoned
  <2>6. /\ m[o].owner = lock[o].owner /\ m[o].prev = lock[o].prev
        /\ m[o] = lock[o] \/ m[o].reason # "none"
    BY <2>4, <2>5
  <2>7. CASE lock' = m
    BY <2>6, <2>7 DEF LockStep
  <2>8. CASE Finalizable(lock, t) /\ lock' = Finalize(m, t) /\ o # t
    <3>1. lock'[o] = m[o]
      BY <2>5, <2>8 DEF Finalize
    <3>. QED  BY <2>6, <3>1 DEF LockStep
  <2>9. CASE Finalizable(lock, t) /\ lock' = Finalize(m, t) /\ o = t
    <3>1. lock'[t] = [Unlocked EXCEPT !.reason = "rgb"]
      BY <2>5, <2>9 DEF Finalize
    <3>2. lock'[t].owner = None /\ lock'[t].reason = "rgb"
      BY <2>3, <3>1, Freed
    <3>3. lock[t].owner \in {t, None} /\ t \notin inputs[t]
      BY <1>0, <2>9 DEF Finalizable, JournalOK
    <3>. QED  BY <2>9, <3>2, <3>3, Names DEF LockStep
  <2>. QED  BY <1>3, <2>1, <2>2, <2>7, <2>8, <2>9
<1>. QED
  BY <1>0, <1>1, <1>2, <1>4, RefreshWrites

LEMMA RollsBackInv ==
  ASSUME Inv, TypeOK', RefreshRollsBack
  PROVE  Inv'
<1>0. /\ TypeOK /\ RefreshOK /\ refresh.at = "transfer" /\ Onward
      /\ UNCHANGED <<inputs, tx, foreign>>
  BY RollsBackType DEF Inv, RefreshRollsBack
<1>1. refresh.got \in {"delivered", "broadcast", "pending", "settled"}
  BY <1>0 DEF RefreshOK, KeepsInputsLocked
<1>2. CASE refresh.got \in {"settled", "pending"}
  <2> DEFINE back == {o \in inputs[refresh.cur] : proof[o] = "spending"}
             gone == {o \in back : ~Confirmed(o)}
  <2>1. /\ lock' = SetLockReason(SetLockReason(lock, back \ gone, "rgb"), gone, "pending")
        /\ Writes(refresh.cur, "broadcast")
    BY <1>2 DEF RefreshRollsBack
  <2> HIDE DEF back, gone
  <2>2. ASSUME NEW o \in Outpoints
        PROVE  LockStep(o) /\ lock'[o].owner = lock[o].owner
    <3>1. PICK l : l = SetLockReason(lock, back \ gone, "rgb")
      OBVIOUS
    <3>2. "pending" \in Reasons /\ "rgb" \in Reasons /\ lock \in [Outpoints -> Locks]
      BY <1>0 DEF Reasons, TypeOK
    <3>3. /\ l \in [Outpoints -> Locks] /\ l[o].owner = lock[o].owner /\ l[o].prev = lock[o].prev
          /\ o \in back \ gone => l[o].reason = "rgb"
          /\ o \notin back \ gone => l[o] = lock[o]
      BY <3>1, <3>2, Reasoned
    <3>4. /\ lock'[o].owner = l[o].owner /\ lock'[o].prev = l[o].prev
          /\ o \in gone => lock'[o].reason = "pending"
          /\ o \notin gone => lock'[o] = l[o]
      BY <2>1, <3>1, <3>2, <3>3, Reasoned
    <3>5. /\ lock'[o].owner = lock[o].owner /\ lock'[o].prev = lock[o].prev
          /\ lock'[o] = lock[o] \/ lock'[o].reason \in {"rgb", "pending"}
      <4>1. CASE o \in gone
        BY <3>3, <3>4, <4>1
      <4>2. CASE o \notin gone
        BY <3>3, <3>4, <4>2
      <4>. QED  BY <4>1, <4>2
    <3>. QED  BY <3>5 DEF LockStep
  <2>. QED  BY <1>0, <2>1, <2>2, RefreshWrites
<1>3. CASE refresh.got \notin {"settled", "pending"}
  <2>1. Writes(refresh.cur, refresh.got) /\ UNCHANGED lock
    BY <1>3 DEF RefreshRollsBack
  <2>. QED  BY <1>0, <1>1, <2>1, RefreshWrites DEF LockStep
<1>. QED
  BY <1>2, <1>3

\* A transaction that is gone, and one of whose inputs is spent, cannot come
\* back: the input is spent by another device, or by a transfer that owns it.
LEMMA Displaced ==
  ASSUME TypeOK, JournalOK, Owned, NEW t \in Transfers, ~Visible(t),
         NEW o \in inputs[t], Spent(o)
  PROVE  ~Sound(t)
<1>1. CASE o \in foreign
  BY <1>1 DEF Sound
<1>2. CASE \E u \in Transfers : Visible(u) /\ o \in inputs[u]
  <2>1. PICK u \in Transfers : Visible(u) /\ o \in inputs[u]
    BY <1>2
  <2>2. Sound(u) /\ u # t
    BY <2>1 DEF JournalOK
  <2>3. lock[o].owner = u
    BY <2>1, <2>2 DEF Owned
  <2>. QED  BY <2>2, <2>3 DEF Owned
<1>. QED
  BY <1>1, <1>2 DEF Spent, Spenders

LEMMA ConflictsInv ==
  ASSUME Inv, TypeOK', RefreshConflicts
  PROVE  Inv'
<1>0. /\ TypeOK /\ RefreshOK /\ JournalOK /\ Owned /\ refresh.at = "transfer"
      /\ UNCHANGED <<inputs, tx, foreign>>
  BY DEF Inv, LocksOK, RefreshConflicts
<1>1. PICK t \in Transfers : t = refresh.cur
  BY <1>0, InHand
<1>2. ~Sound(t)
  <2>1. ~Visible(t) /\ {o \in inputs[t] : Spent(o)} # {}
    BY <1>1 DEF RefreshConflicts
  <2>. QED  BY <1>0, <2>1, Displaced
<1>3. /\ Onward
      /\ \/ Writes(refresh.cur, refresh.got) /\ UNCHANGED lock
         \/ /\ Writes(refresh.cur, "conflicted")
            /\ \/ UNCHANGED lock
               \/ /\ Releasable(inputs[refresh.cur] \cup {refresh.cur}, refresh.cur)
                  /\ lock' = Release(lock, inputs[refresh.cur] \cup {refresh.cur})
  BY <1>0, ConflictsTo
<1>4. CASE Writes(refresh.cur, refresh.got) /\ UNCHANGED lock
  <2>1. refresh.got \in {"delivered", "broadcast", "pending", "settled"}
    BY <1>0 DEF RefreshOK, KeepsInputsLocked
  <2>. QED  BY <1>0, <1>1, <1>3, <1>4, <2>1, RefreshWrites DEF LockStep
<1>5. CASE Writes(refresh.cur, "conflicted") /\ UNCHANGED lock
  BY <1>0, <1>1, <1>2, <1>3, <1>5, RefreshWrites DEF LockStep
<1>6. CASE /\ Writes(refresh.cur, "conflicted")
           /\ Releasable(inputs[refresh.cur] \cup {refresh.cur}, refresh.cur)
           /\ lock' = Release(lock, inputs[refresh.cur] \cup {refresh.cur})
  <2>1. PICK S \in SUBSET Outpoints : S = inputs[t] \cup {t}
    <3>1. inputs[t] \cup {t} \in SUBSET Outpoints
      BY <1>0, Names DEF TypeOK
    <3>. QED  BY <3>1
  <2>2. lock' = IF Releasable(S, t) THEN Release(lock, S) ELSE lock
    BY <1>1, <1>6, <2>1
  <2>3. \A o \in Outpoints : /\ LockStep(o)
                             /\ lock[o].owner \notin {t, None} => lock'[o].owner = lock[o].owner
    BY <1>0, <1>2, <2>2, Releasing
  <2>4. \A o \in Outpoints : lock[o].owner \in Transfers \ {t} => lock'[o].owner = lock[o].owner
    BY <2>3, Names
  <2>. QED  BY <1>0, <1>1, <1>2, <1>3, <1>6, <2>3, <2>4, RefreshWrites
<1>. QED
  BY <1>3, <1>4, <1>5, <1>6

LEMMA ProofsInv ==
  ASSUME Inv, TypeOK', RefreshProofs
  PROVE  Inv'
<1>0. /\ TypeOK /\ CallsOK /\ RefreshOK /\ JournalOK
      /\ UNCHANGED <<status, inputs, tx, foreign, op>>
  BY DEF Inv, RefreshProofs
<1>1. \A o \in Outpoints : LockStep(o) /\ lock'[o].owner = lock[o].owner
  <2> TAKE o \in Outpoints
  <2>1. lock'[o] = lock[o] \/ lock'[o] = [lock[o] EXCEPT !.reason = ProofReason(o)]
    BY <1>0, ProofsType
  <2>2. PICK r \in {"rgb", "pending"} : r = ProofReason(o)
    BY DEF ProofReason
  <2>3. r \in Reasons /\ lock[o] \in Locks
    BY <1>0 DEF Reasons, TypeOK
  <2>4. CASE lock'[o] = [lock[o] EXCEPT !.reason = r]
    <3>1. lock'[o].owner = lock[o].owner /\ lock'[o].prev = lock[o].prev /\ lock'[o].reason = r
      BY <2>3, <2>4, LockWith
    <3>. QED  BY <2>2, <3>1 DEF LockStep
  <2>. QED  BY <2>1, <2>2, <2>4 DEF LockStep
<1>2. CallsOK'
  <2> SUFFICES ASSUME NEW y \in Ops, CallOK(y), NEW d \in Callers, y = op[d]
               PROVE  CallOK(y)'
    BY <1>0, CallsStay
  <2>1. y.ins \subseteq Outpoints /\ (y.kind = "prepare" => y.t \in Outpoints)
    BY <1>0, CallerTypes, Names DEF Ops
  <2>2. y.kind = "prepare" =>
         /\ y.at \in {"reserve", "change", "save"}
         /\ status'[y.t] = "none" /\ y.t \notin y.ins
         /\ y.at # "reserve" => \A o \in y.ins : lock'[o].owner = y.t
         /\ y.at = "save" => lock'[y.t].owner = y.t
    BY <1>0, <1>1, <2>1 DEF CallOK
  <2>. QED  BY <1>0, <2>2, LocksOnly DEF CallOK
<1>3. RefreshOK'
  <2>1. refresh'.at = "none" /\ refresh'.todo = {}
    BY <1>0, ProofsType
  <2>. QED  BY <2>1 DEF RefreshOK
<1>. QED
  BY <1>0, <1>1, <1>2, <1>3, LocksKept, LocksOnly DEF Inv

-----------------------------------------------------------------------------
(* The chain.                                                              *)
LEMMA ChainInv ==
  ASSUME Inv, TypeOK', Chain
  PROVE  Inv'
<1>0. /\ TypeOK /\ CallsOK /\ RefreshOK /\ JournalOK
      /\ UNCHANGED <<status, inputs, lock, op, refresh>>
  BY DEF Inv, Chain, Confirm, Drop, ForeignSpend
<1>1. \A u \in Transfers : /\ Visible(u)' => Visible(u)
                           /\ Sound(u)' => Sound(u)
                           /\ Visible(u)' => Sound(u)'
                           /\ Standing(u)' <=> Standing(u)
  <2>1. CASE \E t \in Transfers : Confirm(t) \/ Drop(t)
    BY <1>0, <2>1 DEF Confirm, Drop, Visible, Sound, Standing, JournalOK, TypeOK
  <2>2. CASE \E o \in Carriers : ForeignSpend(o)
    <3>1. PICK o \in Carriers : ForeignSpend(o)
      BY <2>2
    <3>2. foreign' = foreign \cup {o} /\ UNCHANGED tx
          /\ \A u \in Transfers : Visible(u) => o \notin inputs[u]
      BY <3>1 DEF ForeignSpend, Spent, Spenders
    <3>. QED  BY <1>0, <3>2 DEF Visible, Sound, Standing, JournalOK
  <2>. QED  BY <2>1, <2>2 DEF Chain
<1>2. CallsOK'
  <2> SUFFICES ASSUME NEW y \in Ops, CallOK(y), NEW d \in Callers, y = op[d]
               PROVE  CallOK(y)'
    BY <1>0, CallsStay
  <2>1. y.kind # "idle" => y.t \in Transfers
    BY <1>0, CallerTypes
  <2>2. y.kind \in Kinds
    BY DEF Ops
  <2>. QED  BY <1>0, <1>1, <2>1, <2>2 DEF CallOK, Kinds
<1>3. JournalOK'
  BY <1>0, <1>1 DEF JournalOK
<1>4. LocksOK'
  BY <1>0, <1>1, LocksKept DEF LockStep, Fewer
<1>. QED
  BY <1>0, <1>2, <1>3, <1>4, RefreshStays DEF Inv

-----------------------------------------------------------------------------
LEMMA InitInv == Init => Inv
<1> SUFFICES ASSUME Init PROVE Inv
  OBVIOUS
<1>1. TypeOK
  BY InitType
<1>2. CallsOK
  <2>1. \A c \in Callers : op[c].kind = "idle"
    BY Plain DEF Init
  <2>. QED  BY <2>1 DEF CallsOK, CallOK, Apart
<1>3. RefreshOK
  BY Plain DEF Init, RefreshOK
<1>4. \A t \in Transfers : ~Sound(t) /\ ~Visible(t) /\ inputs[t] = {}
  BY DEF Init, Sound, Standing, Visible
<1>5. JournalOK
  BY <1>4 DEF Init, JournalOK
<1>6. \A o \in Outpoints : lock[o].owner = None
  <2> TAKE o \in Outpoints
  <2>1. lock[o] = Unlocked \/ lock[o] = [Unlocked EXCEPT !.reason = "rgb"]
    BY DEF Init
  <2>. QED  BY <2>1, Plain, Freed DEF Reasons
<1>7. LocksOK
  BY <1>4, <1>6 DEF LocksOK, Owned, ChangesOK
<1>. QED
  BY <1>1, <1>2, <1>3, <1>5, <1>7 DEF Inv

LEMMA StutterInv == Inv /\ UNCHANGED vars => Inv'
<1> SUFFICES ASSUME Inv, UNCHANGED vars PROVE Inv'
  OBVIOUS
<1>1. TypeOK'
  BY NextType DEF Inv
<1>2. UNCHANGED <<status, inputs, lock, tx, foreign, op, refresh>>
  BY DEF vars
<1>3. CallsOK'
  BY <1>2, CallsStay, QuietCalls DEF Inv
<1>. QED
  BY <1>1, <1>2, <1>3, Quiet, RefreshStays DEF Inv

LEMMA CallInv ==
  ASSUME Sequential, Inv, TypeOK', NEW c \in Callers, Call(c)
  PROVE  Inv'
<1>1. CASE \E t \in Transfers : PrepareSelects(c, t) \/ DeliverLoads(c, t) \/ BroadcastLoads(c, t) \/ CancelLoads(c, t)
  BY <1>1, SelectsInv, LoadsInv
<1>2. CASE PrepareReserves(c) \/ PrepareReservesChange(c) \/ PrepareSaves(c) \/ PrepareFails(c)
  BY <1>2, ReservesInv, ReservesChangeInv, PreparesInv, FailsInv
<1>3. CASE DeliverSaves(c) \/ BroadcastSends(c) \/ BroadcastSaves(c) \/ CallFails(c)
  BY <1>3, HandsOverInv, SendsInv, CallFailsInv
<1>4. CASE CancelSaves(c) \/ CancelReleases(c) \/ CancelReads(c) \/ CancelRebuilds(c)
  BY <1>4, CancelsInv, CancelReleasesInv, CancelReadsInv, CancelRebuildsInv
<1>. QED
  BY <1>1, <1>2, <1>3, <1>4 DEF Call

LEMMA NextInv == ASSUME Sequential PROVE Inv /\ [Next]_vars => Inv'
<1> SUFFICES ASSUME Inv, [Next]_vars PROVE Inv'
  OBVIOUS
<1>0. TypeOK'
  BY NextType DEF Inv
<1>1. ASSUME NEW c \in Callers, Call(c) PROVE Inv'
  BY <1>0, <1>1, CallInv
<1>2. ASSUME NEW by \in {"worker", "api"}, RefreshBegins(by) PROVE Inv'
  BY <1>0, <1>2, RefreshBeginsInv
<1>3. CASE RefreshStep
  <2>1. CASE \E t \in Transfers : RefreshLoads(t)
    BY <1>0, <2>1, RefreshLoadsInv
  <2>2. CASE RefreshApplies
    BY <1>0, <2>2, AppliesInv
  <2>3. CASE RefreshCannotApply
    BY <1>0, <2>3, PutBackInv DEF RefreshCannotApply
  <2>4. CASE RefreshConflicts
    BY <1>0, <2>4, ConflictsInv
  <2>5. CASE RefreshRollsBack
    BY <1>0, <2>5, RollsBackInv
  <2>6. CASE RefreshFails
    BY <1>0, <2>6, StopInv DEF RefreshFails
  <2>7. CASE RefreshProofs
    BY <1>0, <2>7, ProofsInv
  <2>. QED
    BY <1>3, <2>1, <2>2, <2>3, <2>4, <2>5, <2>6, <2>7 DEF RefreshStep
<1>4. CASE IndexerFails
  BY <1>0, <1>4, PutBackInv, StopInv DEF IndexerFails
<1>5. CASE Chain
  BY <1>0, <1>5, ChainInv
<1>6. CASE Restart
  BY <1>0, <1>6, RestartInv
<1>7. CASE UNCHANGED vars
  BY <1>7, StutterInv
<1>. QED
  BY <1>1, <1>2, <1>3, <1>4, <1>5, <1>6, <1>7 DEF Next

LEMMA InvHolds == ASSUME Sequential PROVE Spec => []Inv
<1>1. Init => Inv
  BY InitInv
<1>2. Inv /\ [Next]_vars => Inv'
  BY NextInv
<1>. QED
  BY <1>1, <1>2, PTL DEF Spec

\* The transfers the properties speak of are the sound ones.
LEMMA ViableIsSound ==
  ASSUME Inv
  PROVE  \A t \in Transfers : t \in Viable <=> Sound(t)
BY DEF Inv, JournalOK, Viable, Live, Sound, Standing, KeepsInputsLocked

LEMMA InvHeld == Inv => HeldWhileLive
<1> SUFFICES ASSUME Inv PROVE HeldWhileLive
  OBVIOUS
<1>1. Viable \subseteq Transfers
  BY DEF Viable, Live
<1>. QED
  BY <1>1, ViableIsSound DEF Inv, LocksOK, Owned, HeldWhileLive

(* The inputs of a transfer that can still be broadcast are held for it in
   the UTXO locker, whatever preparations, deliveries, broadcasts, refreshes,
   restarts, reorganisations and lost answers there were, in any order: no
   release, rebuild or rollback takes them from it.  A cancellation runs
   alone, and nothing is handed over by the relay. *)
THEOREM InputsStayHeld == ASSUME Sequential PROVE Spec => []HeldWhileLive
BY InvHolds, InvHeld, PTL

(* No carrier is an input of two transfers that can both be broadcast: the
   lock has one owner. *)
THEOREM NoDoubleSpend == ASSUME Sequential PROVE Spec => []SoleSpender
<1>1. Inv => SoleSpender
  <2> SUFFICES ASSUME Inv, NEW t \in Viable, NEW u \in Viable, t # u, NEW o \in inputs[t], o \in inputs[u]
               PROVE  FALSE
    BY DEF SoleSpender
  <2>. QED  BY InvHeld DEF HeldWhileLive
<1>. QED
  BY <1>1, InvHolds, PTL

(* The change of such a transfer is locked, unless a transfer that was built
   on it has been given up. *)
THEOREM ChangeStaysLocked == ASSUME Sequential PROVE Spec => []ChangeIsLocked
<1>1. Inv => ChangeIsLocked
  <2> SUFFICES ASSUME Inv, NEW t \in Viable, lock[t].reason = "none"
               PROVE  \E u \in Transfers \ Viable : t \in inputs[u]
    BY DEF ChangeIsLocked
  <2>1. t \in Transfers /\ Sound(t)
    BY ViableIsSound DEF Viable, Live
  <2>2. Kept(t) \/ GivenUp(t)
    BY <2>1 DEF Inv, LocksOK, ChangesOK
  <2>. QED  BY <2>2, ViableIsSound DEF Kept, GivenUp
<1>. QED
  BY <1>1, InvHolds, PTL
=============================================================================
