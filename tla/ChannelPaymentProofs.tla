------------------------- MODULE ChannelPaymentProofs -------------------------
(* What is proved of a payment over a channel, for any number of attempts  *)
(* and channel objects, any set of operations and any set of faults.       *)
EXTENDS ChannelPayment, TLAPS

LEMMA ConstantTypes ==
  /\ MaxPay \in Nat \ {0} /\ MaxObj \in Nat \ {0}
  /\ Pay \subseteq Nat /\ Objects \subseteq Nat /\ None \notin Pay
  /\ Pay \subseteq Actors /\ Monitor \in Actors /\ 1 \in Pay /\ 1 \in Objects
BY BoundsAssumption DEF Pay, Objects, None, Actors, Monitor

-----------------------------------------------------------------------------
(* The parts of a payment map channels to channels.                        *)

LEMMA CommitmentType ==
  ASSUME NEW c \in Channels
  PROVE  /\ Commitment(c.height, c.paid) \in Commitments
         /\ Commitment(c.height + 1, c.paid) \in Commitments
         /\ c.height \in Nat /\ c.paid \in SUBSET Pay
         /\ c.local \in Commitments /\ c.remote \in Commitments
BY DEF Commitment, Commitments, Channels

LEMMA FirstChannelType == FirstChannel \in Channels /\ FirstCommitment \in Commitments
BY DEF FirstChannel, FirstCommitment, Channels, Commitments, Commitment

\* A payment changes the balance and what is pending, not the height.
LEMMA WithPaymentType ==
  ASSUME NEW c \in Channels, NEW t \in Pay
  PROVE  WithPayment(c, t) \in Channels /\ WithPayment(c, t).height = c.height
BY DEF WithPayment, Channels

LEMMA WithRemoteNextType ==
  ASSUME NEW c \in Channels
  PROVE  /\ WithRemoteNext(c) \in Channels
         /\ WithRemoteNext(c).height = c.height
         /\ WithRemoteNext(c).paid = c.paid
         /\ WithRemoteNext(c).local = c.local
BY CommitmentType DEF WithRemoteNext, Channels

LEMMA WithLocalNextType ==
  ASSUME NEW c \in Channels
  PROVE  /\ WithLocalNext(c) \in Channels
         /\ WithLocalNext(c).height = c.height
         /\ WithLocalNext(c).paid = c.paid
         /\ WithLocalNext(c).local = Commitment(c.height + 1, c.paid)
BY CommitmentType DEF WithLocalNext, Channels

\* A channel is busy for an attempt, or for none: nothing else changes.
LEMMA BusyType ==
  ASSUME NEW c \in Channels, NEW b \in Pay \cup {None}
  PROVE  /\ [c EXCEPT !.busy = b] \in Channels
         /\ [c EXCEPT !.busy = b].height = c.height
         /\ [c EXCEPT !.busy = b].paid = c.paid
         /\ [c EXCEPT !.busy = b].local = c.local
BY DEF Channels

LEMMA StoredType ==
  ASSUME NEW c \in Channels
  PROVE  Stored(c) \in Channels /\ Stored(c).height = c.height
BY BusyType DEF Stored

LEMMA AdvancedType ==
  ASSUME NEW c \in Channels
  PROVE  Advanced(c) \in Channels /\ Advanced(c).height = c.height + 1
<1>1. c.height + 1 \in Nat
  BY CommitmentType
<1>. DEFINE n == c.height + 1
<1>2. ASSUME NEW m \in Nat
      PROVE  /\ [c EXCEPT !.height = m, !.busy = None] \in Channels
             /\ [c EXCEPT !.height = m, !.busy = None].height = m
  BY DEF Channels
<1>. QED
  BY <1>1, <1>2 DEF Advanced

LEMMA EnabledType ==
  ASSUME NEW c \in Channels, NEW t
  PROVE  /\ Enabled(c, t) \in Channels
         /\ Enabled(c, t).height = c.height
         /\ Enabled(c, t).paid = c.paid
         /\ Enabled(c, t).local = c.local
BY DEF Enabled, Channels

-----------------------------------------------------------------------------
(* Type correctness.                                                       *)

LEMMA AttemptType ==
  ASSUME TypeOK, NEW p \in Pay
  PROVE  /\ att[p] \in Attempts /\ att[p].tx \in Pay
         /\ att[p].obj \in Objects /\ att[p].obj <= nobj
         /\ att[p].old \in Objects /\ att[p].old <= nobj
         /\ ObjOf(p) \in Channels /\ heap[att[p].old] \in Channels
         /\ att[p].obj \in Nat /\ att[p].old \in Nat /\ nobj \in Nat
         /\ ObjOf(p).height \in Nat
BY CommitmentType, ConstantTypes DEF TypeOK, Attempts, ObjOf

LEMMA NewObjectType ==
  ASSUME TypeOK, nobj < MaxObj
  PROVE  nobj + 1 \in Objects /\ 1 .. nobj \subseteq 1 .. (nobj + 1)
BY ConstantTypes DEF TypeOK, Objects

\* An attempt is replaced; objects may have been added.
LEMMA ReplacedType ==
  ASSUME TypeOK, NEW p \in Pay, NEW r \in Attempts, NEW n \in Objects,
         nobj <= n, r.obj <= n, r.old <= n
  PROVE  /\ [att EXCEPT ![p] = r] \in [Pay -> Attempts]
         /\ \A q \in Pay : /\ [att EXCEPT ![p] = r][q].obj <= n
                          /\ [att EXCEPT ![p] = r][q].old <= n
<1>1. \A q \in Pay : att[q].obj \in Nat /\ att[q].old \in Nat
                    /\ att[q].obj <= nobj /\ att[q].old <= nobj
  BY AttemptType, ConstantTypes
<1>2. nobj \in Nat /\ n \in Nat
  BY ConstantTypes DEF TypeOK
<1>. QED
  BY <1>1, <1>2 DEF TypeOK

LEMMA MoveType ==
  ASSUME TypeOK, NEW p \in Pay, NEW st \in Stages, Move(p, st)
  PROVE  /\ att' \in [Pay -> Attempts]
         /\ \A q \in Pay : att'[q].obj = att[q].obj /\ att'[q].old = att[q].old
<1>1. att \in [Pay -> Attempts]
  BY DEF TypeOK
<1>2. \A r \in Attempts : /\ [r EXCEPT !.st = st] \in Attempts
                          /\ [r EXCEPT !.st = st].obj = r.obj /\ [r EXCEPT !.st = st].old = r.old
  BY DEF Attempts
<1>3. att' = [att EXCEPT ![p] = [att[p] EXCEPT !.st = st]]
  BY DEF Move
<1>. QED
  BY <1>1, <1>2, <1>3

LEMMA InitType == Init => TypeOK
<1> SUFFICES ASSUME Init PROVE TypeOK
  OBVIOUS
<1>1. nobj \in Objects /\ chanMap \in 1 .. nobj
  BY ConstantTypes DEF Init
<1>2. heap \in [Objects -> Channels] /\ dbChan \in Channels /\ dbBackup \in Channels
      /\ peer \in Commitments
  BY FirstChannelType DEF Init
<1>3. att \in [Pay -> Attempts]
      /\ \A p \in Pay : att[p].obj <= nobj /\ att[p].old <= nobj
  BY ConstantTypes DEF Init, Attempts, AllKinds, Stages
<1>4. run \in [Actors -> [st : {"off", "start", "lock", "mark"},
                          pay : Pay, obj : Objects]]
      /\ \A a \in Actors : run[a].obj <= nobj
  BY ConstantTypes DEF Init
<1>5. QED
  BY <1>1, <1>2, <1>3, <1>4 DEF Init, TypeOK, Statuses

LEMMA RequestType ==
  ASSUME TypeOK, NEW p \in Pay
  PROVE  /\ \A k \in Kinds, t \in Pay : Fetch(p, k, t) => TypeOK'
         /\ Acquire(p) => TypeOK'
         /\ AcquireRecover(p) => TypeOK'
         /\ UnlockRequest(p) => TypeOK'
         /\ LockRequest(p) => TypeOK'
         /\ RecoverRequest(p) => TypeOK'
<1> USE DEF mem, disk, book, net
<1>1. ASSUME NEW k \in Kinds, NEW t \in Pay, Fetch(p, k, t)
      PROVE  TypeOK'
  <2>1. att' \in [Pay -> Attempts]
        /\ \A q \in Pay : att'[q].obj <= nobj /\ att'[q].old <= nobj
    <3> DEFINE r == [att[p] EXCEPT !.st = "wait", !.kind = k, !.obj = chanMap,
                                   !.tx = t]
    <3>1. chanMap \in Objects /\ chanMap <= nobj /\ nobj \in Objects /\ nobj \in Nat
      BY ConstantTypes DEF TypeOK, Objects
    <3>2. r \in Attempts /\ r.obj = chanMap /\ r.old = att[p].old
      <4>1. att[p] \in Attempts /\ k \in AllKinds /\ "wait" \in Stages
        BY AttemptType, KindsAssumption DEF Stages
      <4>. QED
        BY <3>1, <4>1 DEF Attempts
    <3>3. att' = [att EXCEPT ![p] = r]
      BY <1>1 DEF Fetch, TypeOK
    <3>. QED
      BY <3>1, <3>2, <3>3, AttemptType, ReplacedType
  <2>. QED
    BY <1>1, <2>1 DEF Fetch, TypeOK
<1>2. ASSUME Acquire(p)
      PROVE  TypeOK'
  <2>1. att' \in [Pay -> Attempts]
        /\ \A q \in Pay : att'[q].obj <= nobj' /\ att'[q].old <= nobj'
    <3> DEFINE r == [att[p] EXCEPT !.st = "req", !.old = nobj + 1]
    <3>1. nobj + 1 \in Objects /\ nobj \in Nat
      BY <1>2, ConstantTypes, NewObjectType DEF Acquire, TypeOK
    <3>2. r \in Attempts /\ r.obj = att[p].obj /\ r.old = nobj + 1
      <4>1. att[p] \in Attempts /\ "req" \in Stages
        BY AttemptType DEF Stages, Active
      <4>. QED
        BY <3>1, <4>1 DEF Attempts
    <3>3. att' = [att EXCEPT ![p] = r] /\ nobj' = nobj + 1
      BY <1>2 DEF Acquire, TypeOK
    <3>4. att[p].obj <= nobj + 1 /\ nobj <= nobj + 1
      BY <3>1, AttemptType, ConstantTypes
    <3>5. PICK n \in Objects : n = nobj + 1
      BY <3>1
    <3>6. nobj <= n /\ r.obj <= n /\ r.old <= n
      BY <3>1, <3>2, <3>4, <3>5
    <3> HIDE DEF r
    <3>. QED
      BY <3>2, <3>3, <3>5, <3>6, ReplacedType
  <2>2. heap' \in [Objects -> Channels] /\ lock' \in [Objects -> Pay \cup {None}]
    BY <1>2 DEF Acquire, TypeOK
  <2>3. nobj' \in Objects /\ chanMap' \in 1 .. nobj'
        /\ \A a \in Actors : run'[a].obj <= nobj'
    BY <1>2, NewObjectType DEF Acquire, TypeOK, Objects
  <2>. QED
    BY <1>2, <2>1, <2>2, <2>3 DEF Acquire, TypeOK
<1>3. ASSUME AcquireRecover(p)
      PROVE  TypeOK'
  <2>1. \/ Move(p, "dead") \/ Move(p, "req")
    BY <1>3 DEF AcquireRecover
  <2>2. lock' \in [Objects -> Pay \cup {None}]
    BY <1>3 DEF AcquireRecover, TypeOK
  <2>. QED
    BY <1>3, <2>1, <2>2, MoveType DEF AcquireRecover, TypeOK, Stages, Active
<1>4. ASSUME UnlockRequest(p)
      PROVE  TypeOK'
  <2>1. WithRemoteNext(WithPayment([ObjOf(p) EXCEPT !.busy = p], p)) \in Channels
    BY AttemptType, BusyType, WithPaymentType, WithRemoteNextType
  <2>2. heap' \in [Objects -> Channels]
    BY <1>4, <2>1 DEF UnlockRequest, TypeOK
  <2>. QED
    BY <1>4, <2>2, MoveType DEF UnlockRequest, TypeOK, Stages, Active
<1>5. ASSUME LockRequest(p)
      PROVE  TypeOK'
  <2> DEFINE c == WithPayment(ObjOf(p), p)
  <2>1. WithRemoteNext(WithLocalNext([c EXCEPT !.busy = p])) \in Channels
    BY AttemptType, BusyType, WithPaymentType, WithRemoteNextType, WithLocalNextType
  <2>2. heap' \in [Objects -> Channels]
    BY <1>5, <2>1 DEF LockRequest, TypeOK
  <2>. QED
    BY <1>5, <2>2, MoveType DEF LockRequest, TypeOK, Stages, Active
<1>6. ASSUME RecoverRequest(p)
      PROVE  TypeOK'
  <2>1. WithRemoteNext(WithPayment([ObjOf(p) EXCEPT !.busy = p], att[p].tx)) \in Channels
    BY AttemptType, BusyType, WithPaymentType, WithRemoteNextType
  <2>2. heap' \in [Objects -> Channels]
    BY <1>6, <2>1 DEF RecoverRequest, TypeOK
  <2>3. att' \in [Pay -> Attempts]
        /\ \A q \in Pay : att'[q].obj <= nobj' /\ att'[q].old <= nobj'
    <3> DEFINE r == [att[p] EXCEPT !.st = "sign", !.old = nobj + 1]
    <3>1. nobj + 1 \in Objects /\ nobj \in Nat
      BY <1>6, ConstantTypes, NewObjectType DEF RecoverRequest, TypeOK
    <3>2. r \in Attempts /\ r.obj = att[p].obj /\ r.old = nobj + 1
      <4>1. att[p] \in Attempts /\ "sign" \in Stages
        BY AttemptType DEF Stages, Active
      <4>. QED
        BY <3>1, <4>1 DEF Attempts
    <3>3. att' = [att EXCEPT ![p] = r] /\ nobj' = nobj + 1
      BY <1>6 DEF RecoverRequest, TypeOK
    <3>4. att[p].obj <= nobj + 1 /\ nobj <= nobj + 1
      BY <3>1, AttemptType, ConstantTypes
    <3>5. PICK n \in Objects : n = nobj + 1
      BY <3>1
    <3>6. nobj <= n /\ r.obj <= n /\ r.old <= n
      BY <3>1, <3>2, <3>4, <3>5
    <3> HIDE DEF r
    <3>. QED
      BY <3>2, <3>3, <3>5, <3>6, ReplacedType
  <2>4. nobj' \in Objects /\ chanMap' \in 1 .. nobj'
        /\ \A a \in Actors : run'[a].obj <= nobj'
    BY <1>6, NewObjectType DEF RecoverRequest, TypeOK, Objects
  <2>5. resv' \in [Pay -> Statuses] /\ listed' \in SUBSET Pay
    BY <1>6 DEF RecoverRequest, TypeOK, Statuses
  <2>. QED
    BY <1>6, <2>2, <2>3, <2>4, <2>5 DEF RecoverRequest, TypeOK
<1>. QED
  BY <1>1, <1>2, <1>3, <1>4, <1>5, <1>6

LEMMA PeerAdvancedType ==
  ASSUME NEW c \in Channels
  PROVE  PeerAdvanced(c) \in Commitments
BY CommitmentType DEF PeerAdvanced

LEMMA WatchedType ==
  ASSUME TypeOK, NEW p \in Pay
  PROVE  /\ Watched(p) \in SUBSET Commitments
         /\ tower \ {heap[att[p].old].remote} \in SUBSET Commitments
BY AttemptType, CommitmentType DEF Watched, TypeOK

LEMMA RevokedType ==
  ASSUME TypeOK, NEW p \in Pay
  PROVE  Revoked(ObjOf(p)) \in SUBSET Nat
BY AttemptType DEF Revoked, TypeOK

LEMMA FailsType ==
  ASSUME TypeOK, NEW p \in Pay, Fails(p)
  PROVE  released' \in SUBSET Nat /\ peer' \in Commitments /\ onL2' \in SUBSET Pay
<1>1. LateOutcome(p) => peer' \in Commitments /\ onL2' \in SUBSET Pay
  BY AttemptType, PeerAdvancedType DEF LateOutcome, TypeOK
<1>. QED
  BY <1>1, RevokedType DEF Fails, TypeOK

\* A reservation is given a status.
LEMMA StatusType ==
  ASSUME TypeOK, NEW p \in Pay, NEW st \in Statuses
  PROVE  /\ [resv EXCEPT ![p] = st] \in [Pay -> Statuses]
         /\ [dbResv EXCEPT ![p] = st] \in [Pay -> Statuses]
         /\ resv[p] \in Statuses
BY DEF TypeOK

LEMMA ExchangeType ==
  ASSUME TypeOK, NEW p \in Pay
  PROVE  /\ SignExchange(p) => TypeOK'
         /\ UnlockAck(p) => TypeOK'
         /\ LockAck(p) => TypeOK'
         /\ LockFinish(p) => TypeOK'
         /\ ListReservation(p) => TypeOK'
         /\ SaveReservation(p) => TypeOK'
         /\ Advance(p) => TypeOK'
<1> USE DEF mem, disk, book, net
<1>0. ASSUME NEW st \in Stages,
             att' = [att EXCEPT ![p].st = st, ![p].punish = TRUE]
      PROVE  /\ att' \in [Pay -> Attempts]
             /\ \A q \in Pay : att'[q].obj = att[q].obj /\ att'[q].old = att[q].old
  <2> DEFINE r == [att[p] EXCEPT !.st = st, !.punish = TRUE]
  <2>1. r \in Attempts /\ r.obj = att[p].obj /\ r.old = att[p].old
    <3>1. att[p] \in Attempts
      BY AttemptType
    <3>. QED
      BY <3>1 DEF Attempts
  <2>2. att' = [att EXCEPT ![p] = r]
    BY <1>0, AttemptType DEF TypeOK, Attempts
  <2> HIDE DEF r
  <2>. QED
    BY <2>1, <2>2 DEF TypeOK
<1>1. ASSUME SignExchange(p)
      PROVE  TypeOK'
  <2>1. heap' \in [Objects -> Channels]
    BY <1>1, AttemptType, WithLocalNextType DEF SignExchange, TypeOK
  <2>. QED
    <3>1. att' \in [Pay -> Attempts]
          /\ \A q \in Pay : att'[q].obj = att[q].obj /\ att'[q].old = att[q].old
      BY <1>0, <1>1 DEF SignExchange, Stages, Active
    <3>2. tower' \in SUBSET Commitments
      BY <1>1, WatchedType DEF SignExchange
    <3>3. UNCHANGED <<nobj, chanMap, lock, disk, book, run, released, peer, net>>
      BY <1>1 DEF SignExchange
    <3>. QED
      BY <2>1, <3>1, <3>2, <3>3 DEF TypeOK
<1>2. ASSUME UnlockAck(p)
      PROVE  TypeOK'
  BY <1>2, MoveType, AttemptType, RevokedType, PeerAdvancedType
  DEF UnlockAck, TypeOK, Stages, Active
<1>3. ASSUME LockAck(p)
      PROVE  TypeOK'
  BY <1>0, <1>3, RevokedType, WatchedType DEF LockAck, TypeOK, Stages, Active
<1>4. ASSUME LockFinish(p)
      PROVE  TypeOK'
  BY <1>4, MoveType, AttemptType, PeerAdvancedType
  DEF LockFinish, TypeOK, Stages, Active
<1>5. ASSUME ListReservation(p)
      PROVE  TypeOK'
  <2>1. resv' \in [Pay -> Statuses] /\ listed' \in SUBSET Pay
    BY <1>5, StatusType DEF ListReservation, TypeOK, Statuses
  <2>. QED
    BY <1>5, <2>1, MoveType DEF ListReservation, TypeOK, Stages, Active
<1>6. ASSUME SaveReservation(p)
      PROVE  TypeOK'
  <2>1. dbResv' \in [Pay -> Statuses]
    BY <1>6 DEF SaveReservation, TypeOK
  <2>. QED
    BY <1>6, <2>1, MoveType DEF SaveReservation, TypeOK, Stages, Active
<1>7. ASSUME Advance(p)
      PROVE  TypeOK'
  <2> DEFINE c == Advanced(ObjOf(p))
  <2>1. c \in Channels /\ Stored(c) \in Channels
    BY AttemptType, AdvancedType, StoredType
  <2>2. heap' \in [Objects -> Channels] /\ lock' \in [Objects -> Pay \cup {None}]
    BY <1>7, <2>1 DEF Advance, TypeOK
  <2>3. dbChan' \in Channels
    BY <1>7, <2>1 DEF Advance, SaveAdvanced, TypeOK
  <2>4. run' \in [Actors -> [st : {"off", "start", "lock", "mark"},
                             pay : Pay, obj : Objects]]
        /\ \A a \in Actors : run'[a].obj = run[a].obj
    <3> DEFINE r == [run[p] EXCEPT !.st = "start", !.pay = p]
    <3>1. run[p] \in [st : {"off", "start", "lock", "mark"}, pay : Pay, obj : Objects]
      BY ConstantTypes DEF TypeOK
    <3>2. r \in [st : {"off", "start", "lock", "mark"}, pay : Pay, obj : Objects]
          /\ r.obj = run[p].obj
      BY <3>1
    <3>3. run' = [run EXCEPT ![p] = r]
      BY <1>7 DEF Advance
    <3> HIDE DEF r
    <3>. QED
      BY <3>2, <3>3, ConstantTypes DEF TypeOK
  <2>. QED
    BY <1>7, <2>2, <2>3, <2>4, MoveType DEF Advance, TypeOK, Stages, Active
<1>. QED
  BY <1>1, <1>2, <1>3, <1>4, <1>5, <1>6, <1>7

LEMMA EndType ==
  ASSUME TypeOK, NEW p \in Pay
  PROVE  /\ Rollback(p) => TypeOK'
         /\ RecoverFinish(p) => TypeOK'
         /\ RecoverAbandon(p) => TypeOK'
         /\ RecoverStoreFails(p) => TypeOK'
<1> USE DEF mem, disk, book, net
<1>0. [lock EXCEPT ![att[p].obj] = None] \in [Objects -> Pay \cup {None}]
  BY DEF TypeOK
<1>1. ASSUME Rollback(p)
      PROVE  TypeOK'
  <2>1. LockChange(p) \in [Objects -> Channels]
    BY AttemptType, WithPaymentType DEF LockChange, ObjOf, TypeOK
  <2>2. heap' \in [Objects -> Channels]
    <3> DEFINE h == IF At(p, "req") /\ att[p].kind = "lock" THEN LockChange(p) ELSE heap
    <3>1. h \in [Objects -> Channels]
      BY <2>1 DEF TypeOK
    <3>2. [h[att[p].obj] EXCEPT !.busy = None] \in Channels
      BY <3>1, AttemptType, BusyType
    <3>3. heap' = [h EXCEPT ![att[p].obj].busy = None]
      BY <1>1 DEF Rollback
    <3> HIDE DEF h
    <3>. QED
      BY <3>1, <3>2, <3>3
  <2>3. tower' \in SUBSET Commitments
    BY <1>1, WatchedType DEF Rollback, Unwatched, TypeOK
  <2>4. dbChan' \in Channels /\ chanMap' \in 1 .. nobj'
    BY <1>1, AttemptType, StoredType DEF Rollback, FallBack, TypeOK, Objects
  <2>5. released' \in SUBSET Nat /\ peer' \in Commitments /\ onL2' \in SUBSET Pay
    BY <1>1, FailsType DEF Rollback
  <2>. QED
    BY <1>0, <1>1, <2>2, <2>3, <2>4, <2>5, MoveType DEF Rollback, TypeOK, Stages
<1>2. ASSUME RecoverFinish(p)
      PROVE  TypeOK'
  <2> DEFINE c == Advanced(Enabled(ObjOf(p), att[p].tx))
  <2>1. c \in Channels /\ Stored(c) \in Channels
    BY AttemptType, EnabledType, AdvancedType, StoredType
  <2>2. heap' \in [Objects -> Channels] /\ dbChan' \in Channels
    BY <1>2, <2>1 DEF RecoverFinish, TypeOK
  <2>3. dbResv' \in [Pay -> Statuses] /\ resv' \in [Pay -> Statuses]
    BY <1>2, StatusType DEF RecoverFinish, Statuses
  <2>. QED
    BY <1>0, <1>2, <2>2, <2>3, MoveType DEF RecoverFinish, TypeOK, Stages
<1>3. ASSUME RecoverAbandon(p)
      PROVE  TypeOK'
  <2>1. released' \in SUBSET Nat /\ peer' \in Commitments /\ onL2' \in SUBSET Pay
    BY <1>3, FailsType DEF RecoverAbandon, TypeOK
  <2>2. tower' \in SUBSET Commitments
    BY <1>3, WatchedType DEF RecoverAbandon, TypeOK
  <2>. QED
    BY <1>0, <1>3, <2>1, <2>2, MoveType DEF RecoverAbandon, TypeOK, Stages
<1>4. ASSUME RecoverStoreFails(p)
      PROVE  TypeOK'
  <2> DEFINE c == Enabled(ObjOf(p), att[p].tx)
  <2>1. c \in Channels /\ Advanced(c) \in Channels
    BY AttemptType, EnabledType, AdvancedType
  <2>2. heap' \in [Objects -> Channels]
    BY <1>4, <2>1 DEF RecoverStoreFails, TypeOK
  <2>3. dbResv' \in [Pay -> Statuses] /\ resv' \in [Pay -> Statuses]
    BY <1>4, StatusType DEF RecoverStoreFails, Statuses, TypeOK
  <2>. QED
    BY <1>0, <1>4, <2>2, <2>3, MoveType DEF RecoverStoreFails, TypeOK, Stages
<1>. QED
  BY <1>1, <1>2, <1>3, <1>4

Runs == [st : {"off", "start", "lock", "mark"}, pay : Pay, obj : Objects]

\* The progress of an actor moves on; only Broadcast looks at another object.
LEMMA RunType ==
  ASSUME TypeOK, NEW a \in Actors, NEW st \in {"off", "start", "lock", "mark"},
         NEW p \in Pay
  PROVE  /\ [run[a] EXCEPT !.st = st] \in Runs
         /\ [run[a] EXCEPT !.st = st].obj = run[a].obj
         /\ [run[a] EXCEPT !.st = st, !.pay = p] \in Runs
         /\ [run[a] EXCEPT !.st = st, !.pay = p].obj = run[a].obj
         /\ [run[a] EXCEPT !.st = st, !.obj = chanMap] \in Runs
         /\ [run[a] EXCEPT !.st = st, !.obj = chanMap].obj = chanMap
<1>1. run[a] \in Runs /\ chanMap \in Objects
  BY ConstantTypes DEF TypeOK, Runs, Objects
<1>. QED
  BY <1>1 DEF Runs

LEMMA RunReplacedType ==
  ASSUME TypeOK, NEW a \in Actors, NEW r \in Runs, r.obj \in {run[a].obj, chanMap}
  PROVE  /\ [run EXCEPT ![a] = r] \in [Actors -> Runs]
         /\ \A b \in Actors : [run EXCEPT ![a] = r][b].obj <= nobj
<1>1. chanMap <= nobj
  BY ConstantTypes DEF TypeOK, Objects
<1>. QED
  BY <1>1 DEF TypeOK, Runs

LEMMA HandlerType ==
  ASSUME TypeOK, NEW a \in Actors, HandlerStep(a)
  PROVE  TypeOK'
<1> USE DEF mem, disk, book, net
<1>0. run[a] \in Runs /\ run[a].pay \in Pay /\ run[a].obj \in Objects
  BY DEF TypeOK, Runs
<1>1. ASSUME Broadcast(a)
      PROVE  TypeOK'
  <2> DEFINE r == [run[a] EXCEPT !.st = "lock", !.obj = chanMap]
  <2>1. r \in Runs /\ r.obj = chanMap
    BY <1>0, RunType
  <2>2. run' = [run EXCEPT ![a] = r]
    BY <1>1 DEF Broadcast, TypeOK
  <2> HIDE DEF r
  <2>3. run' \in [Actors -> Runs] /\ \A b \in Actors : run'[b].obj <= nobj
    BY <2>1, <2>2, RunReplacedType
  <2>. QED
    BY <1>0, <1>1, <2>3 DEF Broadcast, TypeOK, Runs
<1>2. ASSUME NEW st \in {"off", "mark"}, run' = [run EXCEPT ![a].st = st]
      PROVE  run' \in [Actors -> Runs] /\ \A b \in Actors : run'[b].obj <= nobj
  <2> DEFINE r == [run[a] EXCEPT !.st = st]
  <2>1. r \in Runs /\ r.obj = run[a].obj
    BY <1>0, RunType
  <2>2. run' = [run EXCEPT ![a] = r]
    BY <1>2 DEF TypeOK
  <2> HIDE DEF r
  <2>. QED
    BY <2>1, <2>2, RunReplacedType
<1>3. ASSUME BroadcastFails(a)
      PROVE  TypeOK'
  BY <1>2, <1>3 DEF BroadcastFails, TypeOK, Runs
<1>4. ASSUME EnableUtxo(a)
      PROVE  TypeOK'
  <2> DEFINE c == Enabled(heap[run[a].obj], run[a].pay)
  <2>1. heap[run[a].obj] \in Channels
    BY <1>0 DEF TypeOK
  <2>2. c \in Channels /\ Stored(c) \in Channels
    BY <2>1, EnabledType, StoredType
  <2>3. heap' \in [Objects -> Channels] /\ dbChan' \in Channels
    BY <1>4, <2>2 DEF EnableUtxo, TypeOK
  <2>4. run' \in [Actors -> Runs] /\ \A b \in Actors : run'[b].obj <= nobj
    BY <1>2, <1>4 DEF EnableUtxo
  <2>. QED
    BY <1>4, <2>3, <2>4 DEF EnableUtxo, TypeOK, Runs
<1>5. ASSUME MarkBroadcast(a)
      PROVE  TypeOK'
  <2>1. run' \in [Actors -> Runs] /\ \A b \in Actors : run'[b].obj <= nobj
    BY <1>2, <1>5 DEF MarkBroadcast
  <2>2. resv' \in [Pay -> Statuses] /\ dbResv' \in [Pay -> Statuses]
    BY <1>0, <1>5, StatusType DEF MarkBroadcast, Statuses
  <2>. QED
    BY <1>5, <2>1, <2>2 DEF MarkBroadcast, TypeOK, Runs
<1>. QED
  BY <1>1, <1>3, <1>4, <1>5 DEF HandlerStep

\* A channel is loaded from disk into a new object.
LEMMA LoadedType ==
  ASSUME TypeOK, nobj < MaxObj, NEW c \in Channels,
         nobj' = nobj + 1, heap' = [heap EXCEPT ![nobj + 1] = c],
         chanMap' = nobj + 1
  PROVE  /\ nobj' \in Objects /\ heap' \in [Objects -> Channels]
         /\ chanMap' \in 1 .. nobj'
         /\ \A p \in Pay : att[p].obj <= nobj' /\ att[p].old <= nobj'
         /\ \A a \in Actors : run[a].obj <= nobj'
<1>1. nobj + 1 \in Objects /\ nobj \in Nat /\ nobj >= 1
  BY NewObjectType, ConstantTypes DEF TypeOK, Objects
<1>2. heap' \in [Objects -> Channels]
  BY <1>1 DEF TypeOK
<1>3. \A p \in Pay : att[p].obj <= nobj + 1 /\ att[p].old <= nobj + 1
  BY <1>1, AttemptType
<1>4. \A a \in Actors : run[a].obj \in Nat /\ run[a].obj <= nobj
  BY ConstantTypes DEF TypeOK
<1>. QED
  BY <1>1, <1>2, <1>3, <1>4

LEMMA MonitorType ==
  ASSUME TypeOK, NEW p \in Pay
  PROVE  MonitorStep(p) \/ ChainConfirms(p) => TypeOK'
<1> USE DEF mem, disk, book, net
<1>1. ASSUME MonitorStarts(p)
      PROVE  TypeOK'
  <2> DEFINE r == [run[Monitor] EXCEPT !.st = "start", !.pay = p]
  <2>1. r \in Runs /\ r.obj = run[Monitor].obj
    BY ConstantTypes, RunType
  <2>2. run' = [run EXCEPT ![Monitor] = r]
    BY <1>1 DEF MonitorStarts
  <2> HIDE DEF r
  <2>3. run' \in [Actors -> Runs] /\ \A b \in Actors : run'[b].obj <= nobj
    BY <2>1, <2>2, ConstantTypes, RunReplacedType
  <2>. QED
    BY <1>1, <2>3 DEF MonitorStarts, TypeOK, Runs
<1>2. ASSUME MonitorFinishes(p)
      PROVE  TypeOK'
  <2>1. resv' \in [Pay -> Statuses] /\ dbResv' \in [Pay -> Statuses]
    BY <1>2, StatusType DEF MonitorFinishes, Statuses
  <2>. QED
    BY <1>2, <2>1 DEF MonitorFinishes, TypeOK
<1>3. ASSUME MonitorTimesOut(p)
      PROVE  TypeOK'
  <2>1. dbResv' \in [Pay -> Statuses]
    BY <1>3, StatusType DEF MonitorTimesOut, Statuses
  <2>2. dbBackup \in Channels
    BY DEF TypeOK
  <2>3. nobj' \in Objects /\ heap' \in [Objects -> Channels]
        /\ chanMap' \in 1 .. nobj'
        /\ (\A q \in Pay : att[q].obj <= nobj' /\ att[q].old <= nobj')
        /\ (\A a \in Actors : run[a].obj <= nobj')
    BY <1>3, <2>2, LoadedType DEF MonitorTimesOut
  <2>. QED
    BY <1>3, <2>1, <2>2, <2>3 DEF MonitorTimesOut, TypeOK
<1>4. ASSUME ChainConfirms(p)
      PROVE  TypeOK'
  BY <1>4 DEF ChainConfirms, TypeOK
<1>. QED
  BY <1>1, <1>2, <1>3, <1>4 DEF MonitorStep

\* What a restart makes of an attempt.
LEMMA RestartedType ==
  ASSUME TypeOK, Restart
  PROVE  /\ att' \in [Pay -> Attempts]
         /\ \A p \in Pay : /\ att'[p].obj = att[p].obj /\ att'[p].old = att[p].old
                          /\ att'[p].st \notin Active
<1>1. att' = [p \in Pay |-> IF att[p].st \in {"idle", "done"} THEN att[p]
                            ELSE [att[p] EXCEPT !.st = "dead"]]
  BY DEF Restart
<1>2. \A p \in Pay : att[p] \in Attempts
  BY AttemptType
<1>3. ASSUME NEW p \in Pay
      PROVE  LET r == [att[p] EXCEPT !.st = "dead"] IN
             r \in Attempts /\ r.obj = att[p].obj /\ r.old = att[p].old /\ r.st = "dead"
  BY <1>2 DEF Attempts, Stages
<1>. QED
  BY <1>1, <1>2, <1>3 DEF Active

LEMMA RestartType ==
  ASSUME TypeOK, Restart
  PROVE  TypeOK'
<1> USE DEF mem, disk, book, net
<1>1. dbChan \in Channels
  BY DEF TypeOK
<1>2. nobj' \in Objects /\ heap' \in [Objects -> Channels]
      /\ chanMap' \in 1 .. nobj'
      /\ (\A q \in Pay : att[q].obj <= nobj' /\ att[q].old <= nobj')
      /\ (\A a \in Actors : run[a].obj <= nobj')
  BY <1>1, LoadedType DEF Restart
<1>3. run' \in [Actors -> Runs] /\ \A a \in Actors : run'[a].obj = run[a].obj
  <2>1. run' = [a \in Actors |-> [run[a] EXCEPT !.st = "off"]]
    BY DEF Restart
  <2>2. \A a \in Actors : /\ [run[a] EXCEPT !.st = "off"] \in Runs
                          /\ [run[a] EXCEPT !.st = "off"].obj = run[a].obj
    BY DEF TypeOK, Runs
  <2>. QED
    BY <2>1, <2>2
<1>. QED
  BY <1>1, <1>2, <1>3, RestartedType DEF Restart, TypeOK, Runs

LEMMA NextType ==
  ASSUME TypeOK, [Next]_vars
  PROVE  TypeOK'
<1>1. ASSUME NEW p \in Pay, AttemptStep(p)
      PROVE  TypeOK'
  BY <1>1, RequestType, ExchangeType, EndType DEF AttemptStep
<1>2. ASSUME NEW p \in Pay, NEW k \in Kinds, NEW t \in Pay, Fetch(p, k, t)
      PROVE  TypeOK'
  BY <1>2, RequestType
<1>3. CASE UNCHANGED vars
  BY <1>3 DEF vars, mem, disk, book, net, TypeOK
<1>. QED
  BY <1>1, <1>2, <1>3, HandlerType, MonitorType, RestartType DEF Next

\* Every variable has its type in every reachable state, for any number of
\* attempts and objects and whatever fails.
THEOREM TypeCorrect == Spec => []TypeOK
<1>1. TypeOK /\ [Next]_vars => TypeOK'
  BY NextType
<1>. QED
  BY InitType, <1>1, PTL DEF Spec

-----------------------------------------------------------------------------
(* The exchange: who may change an object, and who goes first.             *)

Sound(p) == MutexHeld(p) /\ SuccessorVerified(p) /\ PeerWentFirst(p)

LEMMA MoveFacts ==
  ASSUME TypeOK, NEW p \in Pay, NEW st, Move(p, st)
  PROVE  /\ att'[p].st = st /\ att'[p].obj = att[p].obj
         /\ \A q \in Pay \ {p} : att'[q] = att[q]
BY AttemptType DEF Move, TypeOK, Attempts

\* A change of an object that q does not hold leaves q alone.
LEMMA Undisturbed ==
  ASSUME TypeOK, NEW q \in Pay, Sound(q), NEW o \in Objects, lock[o] # q,
         \A x \in 1 .. nobj : x # o => heap'[x] = heap[x] /\ lock'[x] = lock[x],
         att'[q] = att[q],
         peer.height <= peer'.height, peer.height \in Nat, peer'.height \in Nat
  PROVE  Sound(q)'
<1> SUFFICES ASSUME att[q].st \in Active
             PROVE  Sound(q)'
  BY DEF Sound, MutexHeld, SuccessorVerified, PeerWentFirst, At, Active
<1>1. lock[att[q].obj] = q
  BY DEF Sound, MutexHeld
<1>2. att[q].obj \in 1 .. nobj /\ att[q].obj # o
  BY <1>1, AttemptType DEF Objects
<1>3. heap'[att'[q].obj] = heap[att[q].obj] /\ lock'[att'[q].obj] = q
  BY <1>1, <1>2
<1>4. ObjOf(q)' = ObjOf(q) /\ ObjOf(q).height \in Nat
  BY <1>3, AttemptType DEF ObjOf
<1>. QED
  BY <1>3, <1>4 DEF Sound, MutexHeld, SuccessorVerified, PeerWentFirst, At

\* The peer's height never falls.
LEMMA PeerType ==
  ASSUME TypeOK
  PROVE  peer.height \in Nat
BY DEF TypeOK, Commitments

LEMMA PeerAdvances ==
  ASSUME TypeOK, NEW c \in Channels, NEW t, PeerSigns(c, t)
  PROVE  PeerAdvanced(c).height = peer.height + 1 /\ c.height = peer.height
BY CommitmentType DEF PeerSigns, PeerAgrees, PeerAdvanced, Commitment

LEMMA LateFacts ==
  ASSUME TypeOK, NEW p \in Pay, Fails(p)
  PROVE  peer.height <= peer'.height /\ peer'.height \in Nat
<1>1. peer.height \in Nat /\ ObjOf(p) \in Channels
  BY PeerType, AttemptType
<1>2. CASE UNCHANGED peer
  BY <1>1, <1>2
<1>3. CASE peer' = PeerAdvanced(ObjOf(p)) /\ PeerSigns(ObjOf(p), att[p].tx)
  BY <1>1, <1>3, PeerAdvances
<1>. QED
  BY <1>2, <1>3 DEF Fails, LateOutcome

\* A step of one attempt: it holds its object or takes it while it is free.
LEMMA OneMoves ==
  ASSUME TypeOK, TypeOK', ExchangeInv, NEW p \in Pay,
         lock[att[p].obj] \in {None, p},
         \A x \in 1 .. nobj : x # att[p].obj =>
           heap'[x] = heap[x] /\ lock'[x] = lock[x],
         \A q \in Pay \ {p} : att'[q] = att[q],
         peer.height <= peer'.height,
         Sound(p)', NeverAhead'
  PROVE  ExchangeInv'
<1>1. ASSUME NEW q \in Pay \ {p}
      PROVE  Sound(q)'
  <2>1. lock[att[p].obj] # q /\ att[p].obj \in Objects
    BY ConstantTypes, AttemptType
  <2>2. peer.height \in Nat /\ peer'.height \in Nat
    BY PeerType DEF TypeOK, Commitments
  <2>3. Sound(q)
    BY DEF ExchangeInv, Sound
  <2>. QED
    BY <2>1, <2>2, <2>3, Undisturbed
<1>. QED
  BY <1>1 DEF ExchangeInv, Sound

LEMMA StaysBehind ==
  ASSUME TypeOK, TypeOK', NeverAhead, peer.height <= peer'.height,
         \A x \in 1 .. nobj : heap'[x] = heap[x] \/ heap'[x].height <= peer'.height,
         \/ nobj' = nobj
         \/ nobj' = nobj + 1 /\ heap'[nobj + 1].height <= peer'.height,
         dbChan' = dbChan \/ dbChan'.height <= peer'.height,
         dbBackup' = dbBackup \/ dbBackup'.height <= peer'.height
  PROVE  NeverAhead'
<1>1. /\ peer.height \in Nat /\ peer'.height \in Nat
      /\ nobj \in Nat /\ dbChan.height \in Nat /\ dbBackup.height \in Nat
      /\ \A x \in 1 .. nobj : heap[x].height \in Nat
  <2>1. peer.height \in Nat /\ peer'.height \in Nat
    BY DEF TypeOK, Commitments
  <2>2. nobj \in Nat /\ 1 .. nobj \subseteq Objects
    BY ConstantTypes DEF TypeOK, Objects
  <2>3. \A x \in 1 .. nobj : heap[x] \in Channels
    BY <2>2 DEF TypeOK
  <2>4. dbChan \in Channels /\ dbBackup \in Channels
    BY DEF TypeOK
  <2>. QED
    BY <2>1, <2>2, <2>3, <2>4, CommitmentType
<1>2. ASSUME NEW x \in 1 .. nobj
      PROVE  heap'[x].height <= peer'.height
  BY <1>1, <1>2 DEF NeverAhead
<1>3. \A x \in 1 .. nobj' : heap'[x].height <= peer'.height
  BY <1>1, <1>2
<1>4. dbChan'.height <= peer'.height /\ dbBackup'.height <= peer'.height
  BY <1>1 DEF NeverAhead
<1>. QED
  BY <1>3, <1>4 DEF NeverAhead

LEMMA InitExchange == Init => ExchangeInv
<1> SUFFICES ASSUME Init PROVE ExchangeInv
  OBVIOUS
<1>1. \A p \in Pay : att[p].st = "idle"
  BY DEF Init
<1>2. NeverAhead
  BY ConstantTypes
  DEF Init, NeverAhead, FirstChannel, FirstCommitment, Commitment, Objects
<1>. QED
  BY <1>1, <1>2
  DEF ExchangeInv, MutexHeld, SuccessorVerified, PeerWentFirst, At, Active

\* The objects in use.
LEMMA InUse ==
  ASSUME TypeOK, NEW p \in Pay
  PROVE  /\ att[p].obj \in 1 .. nobj /\ att[p].old \in 1 .. nobj
         /\ nobj + 1 \notin 1 .. nobj /\ 1 .. nobj \subseteq Objects
         /\ peer.height <= peer.height
         /\ NeverAhead => /\ ObjOf(p).height <= peer.height
                          /\ heap[att[p].old].height <= peer.height
                          /\ dbChan.height <= peer.height
                          /\ dbBackup.height <= peer.height
<1>1. att[p].obj \in 1 .. nobj /\ att[p].old \in 1 .. nobj
  BY AttemptType DEF Objects
<1>2. nobj + 1 \notin 1 .. nobj /\ peer.height <= peer.height
  BY AttemptType, PeerType
<1>3. 1 .. nobj \subseteq Objects
  BY ConstantTypes DEF TypeOK, Objects
<1>. QED
  BY <1>1, <1>2, <1>3 DEF NeverAhead, ObjOf

LEMMA RequestExchange ==
  ASSUME TypeOK, TypeOK', ExchangeInv, NEW p \in Pay
  PROVE  /\ \A k \in Kinds, t \in Pay : Fetch(p, k, t) => ExchangeInv'
         /\ Acquire(p) => ExchangeInv'
         /\ AcquireRecover(p) => ExchangeInv'
         /\ UnlockRequest(p) => ExchangeInv'
         /\ LockRequest(p) => ExchangeInv'
         /\ RecoverRequest(p) => ExchangeInv'
<1> USE DEF mem, disk, book, net
<1>0. NeverAhead /\ Sound(p)
  BY DEF ExchangeInv, Sound
<1>1. ASSUME NEW k \in Kinds, NEW t \in Pay, Fetch(p, k, t)
      PROVE  ExchangeInv'
  <2>1. att'[p].st = "wait" /\ \A q \in Pay \ {p} : att'[q] = att[q]
    BY <1>1, AttemptType DEF Fetch, TypeOK, Attempts
  <2>2. ASSUME NEW q \in Pay
        PROVE  Sound(q)'
    <3>1. CASE q = p
      BY <2>1, <3>1
      DEF Sound, MutexHeld, SuccessorVerified, PeerWentFirst, At, Active
    <3>2. CASE q # p
      BY <1>1, <2>1, <3>2
      DEF Fetch, ExchangeInv, Sound, MutexHeld, SuccessorVerified, PeerWentFirst,
          At, ObjOf
    <3>. QED
      BY <3>1, <3>2
  <2>3. NeverAhead'
    BY <1>0, <1>1 DEF Fetch, NeverAhead
  <2>. QED
    BY <2>2, <2>3 DEF ExchangeInv, Sound
<1>2. ASSUME Acquire(p)
      PROVE  ExchangeInv'
  <2>1. /\ att'[p].st = "req" /\ att'[p].obj = att[p].obj
        /\ \A q \in Pay \ {p} : att'[q] = att[q]
    BY <1>2, AttemptType DEF Acquire, TypeOK, Attempts
  <2>2. /\ lock[att[p].obj] = None /\ lock'[att[p].obj] = p
        /\ \A x \in 1 .. nobj : heap'[x] = heap[x]
        /\ \A x \in 1 .. nobj : x # att[p].obj => lock'[x] = lock[x]
    BY <1>2, InUse, AttemptType DEF Acquire, Free, TypeOK
  <2>3. Sound(p)'
    BY <2>1, <2>2 DEF Sound, MutexHeld, SuccessorVerified, PeerWentFirst, At
  <2>4. heap'[nobj + 1] = dbChan
    BY <1>2, NewObjectType DEF Acquire, TypeOK
  <2>5. NeverAhead'
    BY <1>0, <1>2, <2>2, <2>4, InUse, StaysBehind DEF Acquire
  <2>. QED
    BY <1>2, <2>1, <2>2, <2>3, <2>5, InUse, OneMoves DEF Acquire
<1>3. ASSUME AcquireRecover(p)
      PROVE  ExchangeInv'
  <2>1. /\ att'[p].obj = att[p].obj
        /\ \A q \in Pay \ {p} : att'[q] = att[q]
        /\ \/ att'[p].st = "dead"
           \/ att'[p].st = "req" /\ lock'[att[p].obj] = p
    BY <1>3, MoveFacts, AttemptType DEF AcquireRecover, TypeOK
  <2>2. /\ lock[att[p].obj] = None
        /\ \A x \in 1 .. nobj : x # att[p].obj => lock'[x] = lock[x]
    BY <1>3, InUse, AttemptType DEF AcquireRecover, Free, TypeOK
  <2>3. Sound(p)'
    BY <2>1 DEF Sound, MutexHeld, SuccessorVerified, PeerWentFirst, At, Active
  <2>4. NeverAhead'
    BY <1>0, <1>3 DEF AcquireRecover, NeverAhead
  <2>. QED
    BY <1>3, <2>1, <2>2, <2>3, <2>4, InUse, OneMoves DEF AcquireRecover
<1>4. ASSUME UnlockRequest(p)
      PROVE  ExchangeInv'
  <2> DEFINE b == WithPayment([ObjOf(p) EXCEPT !.busy = p], p)
             c == WithRemoteNext(b)
  <2>1. /\ att'[p].st = "sign" /\ att'[p].obj = att[p].obj
        /\ \A q \in Pay \ {p} : att'[q] = att[q]
    BY <1>4, MoveFacts DEF UnlockRequest
  <2>2. lock[att[p].obj] = p
    BY <1>0, <1>4 DEF UnlockRequest, Sound, MutexHeld, At, Active
  <2>0. b \in Channels /\ b.height = ObjOf(p).height
    <3> DEFINE d == [ObjOf(p) EXCEPT !.busy = p]
    <3>1. d \in Channels /\ d.height = ObjOf(p).height
      BY AttemptType, BusyType
    <3> HIDE DEF d
    <3>2. /\ WithPayment(d, p) \in Channels /\ WithPayment(d, p).height = d.height
          /\ WithPayment(d, att[p].tx) \in Channels
          /\ WithPayment(d, att[p].tx).height = d.height
      BY <3>1, AttemptType, WithPaymentType
    <3>. QED
      BY <3>1, <3>2 DEF d
  <2>4. heap' = [heap EXCEPT ![att[p].obj] = c]
    BY <1>4 DEF UnlockRequest
  <2> HIDE DEF b
  <2>3. c.height = ObjOf(p).height
    BY <2>0, WithRemoteNextType
  <2> HIDE DEF c
  <2>5. /\ heap'[att[p].obj] = c
        /\ \A x \in 1 .. nobj : x # att[p].obj => heap'[x] = heap[x]
    BY <2>4, AttemptType DEF TypeOK
  <2>6. Sound(p)'
    BY <1>4, <2>1, <2>2
    DEF UnlockRequest, Sound, MutexHeld, SuccessorVerified, PeerWentFirst, At
  <2>7. NeverAhead'
    BY <1>0, <1>4, <2>3, <2>5, InUse, StaysBehind DEF UnlockRequest
  <2>. QED
    BY <1>4, <2>1, <2>2, <2>5, <2>6, <2>7, InUse, OneMoves DEF UnlockRequest
<1>5. ASSUME LockRequest(p)
      PROVE  ExchangeInv'
  <2> DEFINE b == [WithPayment(ObjOf(p), p) EXCEPT !.busy = p]
             c == WithRemoteNext(WithLocalNext(b))
  <2>1. /\ att'[p].st = "ack" /\ att'[p].obj = att[p].obj
        /\ \A q \in Pay \ {p} : att'[q] = att[q]
    BY <1>5, MoveFacts DEF LockRequest
  <2>2. lock[att[p].obj] = p
    BY <1>0, <1>5 DEF LockRequest, Sound, MutexHeld, At, Active
  <2>3. b \in Channels /\ b.height = ObjOf(p).height
    BY AttemptType, BusyType, WithPaymentType
  <2>4. heap' = [heap EXCEPT ![att[p].obj] = c]
    BY <1>5 DEF LockRequest
  <2> HIDE DEF b
  <2>5. c.height = ObjOf(p).height /\ c.local = Commitment(c.height + 1, c.paid)
    BY <2>3, WithRemoteNextType, WithLocalNextType
  <2> HIDE DEF c
  <2>6. /\ heap'[att[p].obj] = c
        /\ \A x \in 1 .. nobj : x # att[p].obj => heap'[x] = heap[x]
    BY <2>4, AttemptType DEF TypeOK
  <2>7. Sound(p)'
    BY <1>5, <2>1, <2>2, <2>5, <2>6
    DEF LockRequest, Sound, MutexHeld, SuccessorVerified, PeerWentFirst, At, ObjOf
  <2>8. NeverAhead'
    BY <1>0, <1>5, <2>5, <2>6, InUse, StaysBehind DEF LockRequest
  <2>. QED
    BY <1>5, <2>1, <2>2, <2>6, <2>7, <2>8, InUse, OneMoves DEF LockRequest
<1>6. ASSUME RecoverRequest(p)
      PROVE  ExchangeInv'
  <2> DEFINE b == WithPayment([ObjOf(p) EXCEPT !.busy = p], att[p].tx)
             c == WithRemoteNext(b)
  <2>1. /\ att'[p].st = "sign" /\ att'[p].obj = att[p].obj
        /\ \A q \in Pay \ {p} : att'[q] = att[q]
    BY <1>6, AttemptType DEF RecoverRequest, TypeOK, Attempts
  <2>2. lock[att[p].obj] = p
    BY <1>0, <1>6 DEF RecoverRequest, Sound, MutexHeld, At, Active
  <2>0. b \in Channels /\ b.height = ObjOf(p).height
    <3> DEFINE d == [ObjOf(p) EXCEPT !.busy = p]
    <3>1. d \in Channels /\ d.height = ObjOf(p).height
      BY AttemptType, BusyType
    <3> HIDE DEF d
    <3>2. /\ WithPayment(d, p) \in Channels /\ WithPayment(d, p).height = d.height
          /\ WithPayment(d, att[p].tx) \in Channels
          /\ WithPayment(d, att[p].tx).height = d.height
      BY <3>1, AttemptType, WithPaymentType
    <3>. QED
      BY <3>1, <3>2 DEF d
  <2>4. heap' = [heap EXCEPT ![nobj + 1] = dbChan, ![att[p].obj] = c]
    BY <1>6 DEF RecoverRequest
  <2> HIDE DEF b
  <2>3. c.height = ObjOf(p).height
    BY <2>0, WithRemoteNextType
  <2> HIDE DEF c
  <2>5. /\ heap'[att[p].obj] = c /\ heap'[nobj + 1] = dbChan
        /\ \A x \in 1 .. nobj : x # att[p].obj => heap'[x] = heap[x]
    <3>1. nobj + 1 \in Objects /\ att[p].obj # nobj + 1
      BY <1>6, InUse, NewObjectType DEF RecoverRequest
    <3>2. heap \in [Objects -> Channels] /\ att[p].obj \in Objects
      BY AttemptType DEF TypeOK
    <3>3. \A x \in 1 .. nobj : x \in Objects /\ x # nobj + 1
      BY InUse
    <3>. QED
      BY <2>4, <3>1, <3>2, <3>3
  <2>6. Sound(p)'
    BY <1>6, <2>1, <2>2
    DEF RecoverRequest, Sound, MutexHeld, SuccessorVerified, PeerWentFirst, At
  <2>7. NeverAhead'
    BY <1>0, <1>6, <2>3, <2>5, InUse, StaysBehind DEF RecoverRequest
  <2>. QED
    BY <1>6, <2>1, <2>2, <2>5, <2>6, <2>7, InUse, OneMoves DEF RecoverRequest
<1>. QED
  BY <1>1, <1>2, <1>3, <1>4, <1>5, <1>6

\* A step that only moves an attempt that holds its object on.
LEMMA HeldMoves ==
  ASSUME TypeOK, TypeOK', ExchangeInv, NEW p \in Pay,
         att[p].st \in Active, att'[p].st \in Active,
         att'[p].obj = att[p].obj,
         \A q \in Pay \ {p} : att'[q] = att[q],
         UNCHANGED <<nobj, lock, dbChan, dbBackup>>,
         \A x \in 1 .. nobj : x # att[p].obj => heap'[x] = heap[x],
         heap'[att[p].obj].height = ObjOf(p).height,
         peer.height <= peer'.height,
         SuccessorVerified(p)', PeerWentFirst(p)'
  PROVE  ExchangeInv'
<1>1. lock[att[p].obj] = p /\ NeverAhead
  BY DEF ExchangeInv, MutexHeld
<1>2. Sound(p)'
  BY <1>1 DEF Sound, MutexHeld
<1>3. peer.height \in Nat /\ peer'.height \in Nat /\ ObjOf(p).height \in Nat
  BY AttemptType, PeerType DEF TypeOK, Commitments
<1>4. heap'[att[p].obj].height <= peer'.height
  BY <1>1, <1>3, InUse
<1>5. NeverAhead'
  BY <1>1, <1>4, StaysBehind
<1>. QED
  BY <1>1, <1>2, <1>5, OneMoves

LEMMA ExchangeSteps ==
  ASSUME TypeOK, TypeOK', ExchangeInv, NEW p \in Pay
  PROVE  /\ SignExchange(p) => ExchangeInv'
         /\ UnlockAck(p) => ExchangeInv'
         /\ LockAck(p) => ExchangeInv'
         /\ LockFinish(p) => ExchangeInv'
         /\ ListReservation(p) => ExchangeInv'
         /\ SaveReservation(p) => ExchangeInv'
         /\ Advance(p) => ExchangeInv'
<1> USE DEF mem, disk, book, net
<1>0. /\ NeverAhead /\ Sound(p) /\ ObjOf(p) \in Channels
      /\ peer.height \in Nat /\ ObjOf(p).height \in Nat
      /\ peer.height <= peer.height
  BY AttemptType, PeerType, InUse DEF ExchangeInv, Sound
<1>1. ASSUME SignExchange(p)
      PROVE  ExchangeInv'
  <2> DEFINE c == WithLocalNext(ObjOf(p))
  <2>1. /\ att'[p].st = "ack" /\ att'[p].obj = att[p].obj
        /\ \A q \in Pay \ {p} : att'[q] = att[q]
    BY <1>1, AttemptType DEF SignExchange, TypeOK, Attempts
  <2>2. c.height = ObjOf(p).height /\ c.local = Commitment(c.height + 1, c.paid)
    BY <1>0, WithLocalNextType
  <2>3. heap' = [heap EXCEPT ![att[p].obj] = c]
    BY <1>1 DEF SignExchange
  <2> HIDE DEF c
  <2>4. /\ heap'[att[p].obj] = c
        /\ \A x \in 1 .. nobj : x # att[p].obj => heap'[x] = heap[x]
    BY <2>3, AttemptType DEF TypeOK
  <2>5. SuccessorVerified(p)' /\ PeerWentFirst(p)'
    BY <2>1, <2>2, <2>4 DEF SuccessorVerified, PeerWentFirst, At, ObjOf
  <2>. QED
    BY <1>0, <1>1, <2>1, <2>2, <2>4, <2>5, HeldMoves DEF SignExchange, At, Active
<1>2. ASSUME UnlockAck(p)
      PROVE  ExchangeInv'
  <2>1. /\ att'[p].st = "commit" /\ att'[p].obj = att[p].obj
        /\ \A q \in Pay \ {p} : att'[q] = att[q]
    BY <1>2, MoveFacts DEF UnlockAck
  <2>2. peer'.height = peer.height + 1 /\ ObjOf(p).height = peer.height
    BY <1>0, <1>2, PeerAdvances DEF UnlockAck
  <2>3. ObjOf(p)' = ObjOf(p)
    BY <1>2, <2>1 DEF UnlockAck, ObjOf
  <2>4. SuccessorVerified(p)' /\ PeerWentFirst(p)'
    BY <1>0, <2>1, <2>2, <2>3 DEF SuccessorVerified, PeerWentFirst, At
  <2>5. heap'[att[p].obj].height = ObjOf(p).height /\ peer.height <= peer'.height
    BY <1>0, <1>2, <2>2 DEF UnlockAck, ObjOf
  <2>. QED
    BY <1>2, <2>1, <2>4, <2>5, HeldMoves DEF UnlockAck, At, Active
<1>3. ASSUME LockAck(p)
      PROVE  ExchangeInv'
  <2>1. /\ att'[p].st = "fin" /\ att'[p].obj = att[p].obj
        /\ \A q \in Pay \ {p} : att'[q] = att[q]
    BY <1>3, AttemptType DEF LockAck, TypeOK, Attempts
  <2>2. SuccessorVerified(p)' /\ PeerWentFirst(p)'
    BY <2>1 DEF SuccessorVerified, PeerWentFirst, At
  <2>3. heap'[att[p].obj].height = ObjOf(p).height
    BY <1>3 DEF LockAck, ObjOf
  <2>. QED
    BY <1>0, <1>3, <2>1, <2>2, <2>3, HeldMoves DEF LockAck, At, Active
<1>4. ASSUME LockFinish(p)
      PROVE  ExchangeInv'
  <2>1. /\ att'[p].st = "commit" /\ att'[p].obj = att[p].obj
        /\ \A q \in Pay \ {p} : att'[q] = att[q]
    BY <1>4, MoveFacts DEF LockFinish
  <2>2. peer'.height = peer.height + 1 /\ ObjOf(p).height = peer.height
    BY <1>0, <1>4, PeerAdvances DEF LockFinish
  <2>3. ObjOf(p)' = ObjOf(p)
    BY <1>4, <2>1 DEF LockFinish, ObjOf
  <2>4. SuccessorVerified(p)' /\ PeerWentFirst(p)'
    BY <1>0, <2>1, <2>2, <2>3 DEF SuccessorVerified, PeerWentFirst, At
  <2>5. heap'[att[p].obj].height = ObjOf(p).height /\ peer.height <= peer'.height
    BY <1>0, <1>4, <2>2 DEF LockFinish, ObjOf
  <2>. QED
    BY <1>4, <2>1, <2>4, <2>5, HeldMoves DEF LockFinish, At, Active
<1>5. ASSUME NEW st \in {"listed", "saved"}, Move(p, st),
             att[p].st \in {"commit", "listed"}, UNCHANGED <<mem, dbChan, dbBackup, peer>>
      PROVE  ExchangeInv'
  <2>1. /\ att'[p].st = st /\ att'[p].obj = att[p].obj
        /\ \A q \in Pay \ {p} : att'[q] = att[q]
    BY <1>5, MoveFacts
  <2>2. ObjOf(p)' = ObjOf(p) /\ ObjOf(p).height < peer.height
    BY <1>0, <1>5, <2>1 DEF ObjOf, Sound, PeerWentFirst
  <2>3. SuccessorVerified(p)' /\ PeerWentFirst(p)'
    BY <1>5, <2>1, <2>2 DEF SuccessorVerified, PeerWentFirst, At
  <2>4. heap'[att[p].obj].height = ObjOf(p).height
    BY <1>5 DEF ObjOf
  <2>. QED
    BY <1>0, <1>5, <2>1, <2>3, <2>4, HeldMoves DEF Active
<1>6. ASSUME ListReservation(p)
      PROVE  ExchangeInv'
  BY <1>5, <1>6 DEF ListReservation, At
<1>7. ASSUME SaveReservation(p)
      PROVE  ExchangeInv'
  BY <1>5, <1>7 DEF SaveReservation, At
<1>8. ASSUME Advance(p)
      PROVE  ExchangeInv'
  <2> DEFINE c == Advanced(ObjOf(p))
  <2>1. /\ att'[p].st = "done"
        /\ \A q \in Pay \ {p} : att'[q] = att[q]
    BY <1>8, MoveFacts DEF Advance
  <2>2. lock[att[p].obj] = p /\ ObjOf(p).height < peer.height
    BY <1>0, <1>8 DEF Advance, Sound, MutexHeld, PeerWentFirst, At, Active
  <2>3. c.height <= peer.height /\ Stored(c).height = c.height
    BY <1>0, <2>2, AdvancedType, StoredType
  <2>4. heap' = [heap EXCEPT ![att[p].obj] = c] /\ dbChan' \in {dbChan, Stored(c)}
    BY <1>8 DEF Advance, SaveAdvanced
  <2>5. lock' = [lock EXCEPT ![att[p].obj] = None]
    BY <1>8 DEF Advance
  <2> HIDE DEF c
  <2>6. /\ heap'[att[p].obj] = c
        /\ \A x \in 1 .. nobj : x # att[p].obj => heap'[x] = heap[x] /\ lock'[x] = lock[x]
    BY <2>4, <2>5, InUse, AttemptType DEF TypeOK
  <2>7. Sound(p)'
    BY <2>1 DEF Sound, MutexHeld, SuccessorVerified, PeerWentFirst, At, Active
  <2>8. NeverAhead'
    BY <1>0, <1>8, <2>3, <2>4, <2>6, StaysBehind DEF Advance
  <2>. QED
    BY <1>0, <1>8, <2>1, <2>2, <2>6, <2>7, <2>8, OneMoves DEF Advance
<1>. QED
  BY <1>1, <1>2, <1>3, <1>4, <1>6, <1>7, <1>8

\* An attempt ends and lets go of its object.
LEMMA LetsGo ==
  ASSUME TypeOK, TypeOK', ExchangeInv, NEW p \in Pay,
         att[p].st \in Active, att'[p].st \notin Active,
         \A q \in Pay \ {p} : att'[q] = att[q],
         lock' = [lock EXCEPT ![att[p].obj] = None],
         UNCHANGED <<nobj, dbBackup>>,
         \A x \in 1 .. nobj : x # att[p].obj => heap'[x] = heap[x],
         heap'[att[p].obj].height <= peer'.height,
         dbChan' = dbChan \/ dbChan'.height <= peer'.height,
         peer.height <= peer'.height
  PROVE  ExchangeInv'
<1>1. lock[att[p].obj] = p /\ NeverAhead
  BY DEF ExchangeInv, MutexHeld
<1>2. \A x \in 1 .. nobj : x # att[p].obj => lock'[x] = lock[x]
  BY InUse, AttemptType DEF TypeOK
<1>3. Sound(p)'
  BY DEF Sound, MutexHeld, SuccessorVerified, PeerWentFirst, At, Active
<1>4. NeverAhead'
  BY <1>1, StaysBehind
<1>. QED
  BY <1>1, <1>2, <1>3, <1>4, OneMoves

\* An attempt that fails is running.
LEMMA FailsActive ==
  ASSUME NEW p \in Pay, Fails(p)
  PROVE  att[p].st \in Active
BY DEF Fails, At, Active

LEMMA EndExchange ==
  ASSUME TypeOK, TypeOK', ExchangeInv, NEW p \in Pay
  PROVE  /\ Rollback(p) => ExchangeInv'
         /\ RecoverFinish(p) => ExchangeInv'
         /\ RecoverAbandon(p) => ExchangeInv'
         /\ RecoverStoreFails(p) => ExchangeInv'
<1> USE DEF mem, disk, book, net
<1>0. /\ NeverAhead /\ Sound(p) /\ ObjOf(p) \in Channels
      /\ heap[att[p].old] \in Channels
      /\ peer.height \in Nat /\ peer.height <= peer.height
      /\ ObjOf(p).height \in Nat /\ ObjOf(p).height <= peer.height
      /\ heap[att[p].old].height \in Nat /\ heap[att[p].old].height <= peer.height
      /\ peer'.height \in Nat
  BY AttemptType, CommitmentType, PeerType, InUse
  DEF ExchangeInv, Sound, TypeOK, Commitments
<1>1. ASSUME Rollback(p)
      PROVE  ExchangeInv'
  <2> DEFINE h == IF At(p, "req") /\ att[p].kind = "lock" THEN LockChange(p) ELSE heap
             c == [h[att[p].obj] EXCEPT !.busy = None]
  <2>1. /\ att[p].st \in Active /\ att'[p].st = "dead"
        /\ \A q \in Pay \ {p} : att'[q] = att[q]
    BY <1>1, FailsActive, MoveFacts DEF Rollback
  <2>2. peer.height <= peer'.height
    BY <1>1, LateFacts DEF Rollback
  <2>3. /\ h \in [Objects -> Channels]
        /\ h[att[p].obj] \in Channels /\ h[att[p].obj].height = ObjOf(p).height
        /\ \A x \in 1 .. nobj : x # att[p].obj => h[x] = heap[x]
    <3>1. LockChange(p) = [heap EXCEPT ![att[p].obj] = WithPayment(ObjOf(p), p)]
      BY DEF LockChange, ObjOf
    <3>2. /\ WithPayment(ObjOf(p), p) \in Channels
          /\ WithPayment(ObjOf(p), p).height = ObjOf(p).height
      BY <1>0, WithPaymentType
    <3>3. heap \in [Objects -> Channels] /\ att[p].obj \in Objects
          /\ heap[att[p].obj] = ObjOf(p) /\ 1 .. nobj \subseteq Objects
      BY AttemptType, InUse DEF TypeOK, ObjOf
    <3>. QED
      BY <1>0, <3>1, <3>2, <3>3
  <2>4. heap' = [h EXCEPT ![att[p].obj].busy = None]
    BY <1>1 DEF Rollback
  <2> HIDE DEF h
  <2>5. c \in Channels /\ c.height = ObjOf(p).height
    BY <2>3, BusyType
  <2>6. heap' = [h EXCEPT ![att[p].obj] = c]
    BY <2>4
  <2> HIDE DEF c
  <2>7. /\ heap'[att[p].obj] = c
        /\ \A x \in 1 .. nobj : x # att[p].obj => heap'[x] = heap[x]
    BY <2>3, <2>6, AttemptType, InUse
  <2>8. heap'[att[p].obj].height <= peer'.height
    BY <1>0, <2>2, <2>5, <2>7
  <2>9. dbChan'.height = heap[att[p].old].height
    BY <1>0, <1>1, StoredType DEF Rollback, FallBack
  <2>10. dbChan'.height <= peer'.height
    BY <1>0, <2>2, <2>9
  <2>. QED
    BY <1>1, <2>1, <2>2, <2>7, <2>8, <2>10, LetsGo DEF Rollback, Active
<1>2. ASSUME RecoverFinish(p)
      PROVE  ExchangeInv'
  <2> DEFINE c == Advanced(Enabled(ObjOf(p), att[p].tx))
  <2>1. /\ att[p].st \in Active /\ att'[p].st = "done"
        /\ \A q \in Pay \ {p} : att'[q] = att[q]
    BY <1>2, MoveFacts DEF RecoverFinish, At, Active
  <2>2. ObjOf(p).height < peer.height
    BY <1>0, <1>2 DEF RecoverFinish, Sound, PeerWentFirst, At
  <2>3. c \in Channels /\ c.height = ObjOf(p).height + 1
    BY <1>0, EnabledType, AdvancedType
  <2>4. heap' = [heap EXCEPT ![att[p].obj] = c] /\ dbChan' = Stored(c)
    BY <1>2 DEF RecoverFinish
  <2> HIDE DEF c
  <2>5. /\ heap'[att[p].obj] = c
        /\ \A x \in 1 .. nobj : x # att[p].obj => heap'[x] = heap[x]
    BY <2>4, InUse, AttemptType DEF TypeOK
  <2>6. c.height <= peer.height /\ dbChan'.height = c.height
    BY <1>0, <2>2, <2>3, <2>4, StoredType
  <2>. QED
    BY <1>0, <1>2, <2>1, <2>5, <2>6, LetsGo DEF RecoverFinish, Active
<1>3. ASSUME RecoverAbandon(p)
      PROVE  ExchangeInv'
  <2>1. /\ att[p].st \in Active /\ att'[p].st = "dead"
        /\ \A q \in Pay \ {p} : att'[q] = att[q]
    BY <1>3, FailsActive, MoveFacts DEF RecoverAbandon, At, Active
  <2>2. peer.height <= peer'.height
    BY <1>0, <1>3, LateFacts DEF RecoverAbandon
  <2>3. heap'[att[p].obj].height <= peer'.height
    BY <1>0, <1>3, <2>2 DEF RecoverAbandon, ObjOf
  <2>. QED
    BY <1>3, <2>1, <2>2, <2>3, LetsGo DEF RecoverAbandon, Active
<1>4. ASSUME RecoverStoreFails(p)
      PROVE  ExchangeInv'
  <2> DEFINE c == Enabled(ObjOf(p), att[p].tx)
             d == Advanced(c)
  <2>1. /\ att[p].st \in Active /\ att'[p].st = "dead"
        /\ \A q \in Pay \ {p} : att'[q] = att[q]
    BY <1>4, MoveFacts DEF RecoverStoreFails, At, Active
  <2>2. ObjOf(p).height < peer.height
    BY <1>0, <1>4 DEF RecoverStoreFails, Sound, PeerWentFirst, At
  <2>3. c.height = ObjOf(p).height /\ d.height = ObjOf(p).height + 1
    BY <1>0, EnabledType, AdvancedType
  <2>4. PICK e \in {c, d} : heap' = [heap EXCEPT ![att[p].obj] = e]
    BY <1>4 DEF RecoverStoreFails
  <2>5. e.height <= peer.height
    BY <1>0, <2>2, <2>3, <2>4
  <2>6. /\ heap'[att[p].obj] = e
        /\ \A x \in 1 .. nobj : x # att[p].obj => heap'[x] = heap[x]
    BY <2>4, InUse, AttemptType DEF TypeOK
  <2>. QED
    BY <1>0, <1>4, <2>1, <2>5, <2>6, LetsGo DEF RecoverStoreFails, Active
<1>. QED
  BY <1>1, <1>2, <1>3, <1>4

\* A step that leaves the attempts and the objects in use as they are.
LEMMA Untouched ==
  ASSUME TypeOK, TypeOK', ExchangeInv, NeverAhead',
         UNCHANGED <<att, lock, peer>>,
         \A x \in 1 .. nobj : heap'[x] = heap[x]
  PROVE  ExchangeInv'
<1>1. ASSUME NEW q \in Pay
      PROVE  MutexHeld(q)' /\ SuccessorVerified(q)' /\ PeerWentFirst(q)'
  <2>1. heap'[att[q].obj] = heap[att[q].obj]
    BY InUse
  <2>. QED
    BY <2>1 DEF ExchangeInv, MutexHeld, SuccessorVerified, PeerWentFirst, At, ObjOf
<1>. QED
  BY <1>1 DEF ExchangeInv

LEMMA HandlerExchange ==
  ASSUME TypeOK, TypeOK', ExchangeInv, NEW a \in Actors, HandlerStep(a)
  PROVE  ExchangeInv'
<1> USE DEF mem, disk, book, net
<1>0. NeverAhead
  BY DEF ExchangeInv
<1>1. CASE Broadcast(a) \/ BroadcastFails(a) \/ MarkBroadcast(a)
  <2>1. UNCHANGED <<heap, nobj, lock, att, peer, dbChan, dbBackup>>
    BY <1>1 DEF Broadcast, BroadcastFails, MarkBroadcast
  <2>2. NeverAhead'
    BY <1>0, <2>1 DEF NeverAhead
  <2>. QED
    BY <2>1, <2>2, Untouched
<1>2. CASE EnableUtxo(a)
  <2> DEFINE c == Enabled(heap[run[a].obj], run[a].pay)
  <2>1. run[a].obj \in Objects /\ run[a].obj \in 1 .. nobj /\ heap[run[a].obj] \in Channels
    BY ConstantTypes DEF TypeOK, Objects
  <2>2. c \in Channels /\ c.height = heap[run[a].obj].height
    BY <2>1, EnabledType
  <2>3. heap' = [heap EXCEPT ![run[a].obj] = c] /\ dbChan' = Stored(c)
    BY <1>2 DEF EnableUtxo
  <2>4. lock[run[a].obj] = None /\ UNCHANGED <<nobj, lock, dbBackup, att, peer>>
    BY <1>2 DEF EnableUtxo, Free
  <2> HIDE DEF c
  <2>5. /\ heap'[run[a].obj] = c
        /\ \A x \in 1 .. nobj : x # run[a].obj => heap'[x] = heap[x]
    BY <2>1, <2>3 DEF TypeOK
  <2>6. c.height <= peer.height /\ dbChan'.height = c.height
    BY <1>0, <2>1, <2>2, <2>3, StoredType DEF NeverAhead
  <2>7. peer.height \in Nat /\ peer'.height = peer.height /\ peer.height <= peer'.height
    BY <2>4, PeerType
  <2>8. NeverAhead'
    BY <1>0, <2>4, <2>5, <2>6, <2>7, StaysBehind
  <2>9. ASSUME NEW q \in Pay
        PROVE  Sound(q)'
    <3>1. Sound(q) /\ lock[run[a].obj] # q
      BY <2>4, ConstantTypes DEF ExchangeInv, Sound
    <3>. QED
      BY <2>1, <2>4, <2>5, <2>7, <3>1, Undisturbed
  <2>. QED
    BY <2>8, <2>9 DEF ExchangeInv, Sound
<1>. QED
  BY <1>1, <1>2 DEF HandlerStep

LEMMA MonitorExchange ==
  ASSUME TypeOK, TypeOK', ExchangeInv, NEW p \in Pay,
         MonitorStep(p) \/ ChainConfirms(p)
  PROVE  ExchangeInv'
<1> USE DEF mem, disk, book, net
<1>0. NeverAhead /\ peer.height <= peer.height
  BY InUse DEF ExchangeInv
<1>1. CASE MonitorStarts(p) \/ MonitorFinishes(p) \/ ChainConfirms(p)
  <2>1. UNCHANGED <<heap, nobj, lock, att, peer, dbChan, dbBackup>>
    BY <1>1 DEF MonitorStarts, MonitorFinishes, ChainConfirms
  <2>2. NeverAhead'
    BY <1>0, <2>1 DEF NeverAhead
  <2>. QED
    BY <2>1, <2>2, Untouched
<1>2. CASE MonitorTimesOut(p)
  <2>1. nobj + 1 \in Objects /\ nobj + 1 \notin 1 .. nobj
    BY <1>2, InUse, NewObjectType DEF MonitorTimesOut
  <2>2. /\ heap'[nobj + 1] = dbBackup
        /\ \A x \in 1 .. nobj : heap'[x] = heap[x]
    BY <1>2, <2>1 DEF MonitorTimesOut, TypeOK
  <2>3. NeverAhead'
    BY <1>0, <1>2, <2>2, InUse, StaysBehind DEF MonitorTimesOut
  <2>. QED
    BY <1>2, <2>2, <2>3, Untouched DEF MonitorTimesOut
<1>. QED
  BY <1>1, <1>2 DEF MonitorStep

LEMMA RestartExchange ==
  ASSUME TypeOK, TypeOK', ExchangeInv, Restart
  PROVE  ExchangeInv'
<1> USE DEF mem, disk, book, net
<1>0. NeverAhead /\ peer.height <= peer.height
  BY InUse, ConstantTypes DEF ExchangeInv
<1>1. nobj + 1 \in Objects /\ nobj + 1 \notin 1 .. nobj
  BY InUse, ConstantTypes, NewObjectType DEF Restart
<1>2. /\ heap'[nobj + 1] = dbChan
      /\ \A x \in 1 .. nobj : heap'[x] = heap[x]
  BY <1>1 DEF Restart, TypeOK
<1>3. NeverAhead'
  BY <1>0, <1>2, InUse, ConstantTypes, StaysBehind DEF Restart
<1>4. \A p \in Pay : MutexHeld(p)' /\ SuccessorVerified(p)' /\ PeerWentFirst(p)'
  BY RestartedType DEF MutexHeld, SuccessorVerified, PeerWentFirst, At, Active
<1>. QED
  BY <1>3, <1>4 DEF ExchangeInv

LEMMA NextExchange ==
  ASSUME TypeOK, ExchangeInv, [Next]_vars
  PROVE  ExchangeInv'
<1>0. TypeOK'
  BY NextType
<1>1. ASSUME NEW p \in Pay, AttemptStep(p)
      PROVE  ExchangeInv'
  BY <1>0, <1>1, RequestExchange, ExchangeSteps, EndExchange DEF AttemptStep
<1>2. ASSUME NEW p \in Pay, NEW k \in Kinds, NEW t \in Pay, Fetch(p, k, t)
      PROVE  ExchangeInv'
  BY <1>0, <1>2, RequestExchange
<1>3. CASE UNCHANGED vars
  BY <1>3
  DEF vars, mem, disk, book, net, ExchangeInv, MutexHeld, SuccessorVerified,
      PeerWentFirst, NeverAhead, At, ObjOf
<1>. QED
  BY <1>0, <1>1, <1>2, <1>3, HandlerExchange, MonitorExchange, RestartExchange
  DEF Next

\* A running attempt holds the mutex of its object, has verified its next
\* local commitment before the secret may go, and advances behind the peer:
\* for any number of overlapping attempts and whatever fails.
THEOREM ExchangeInvariant == Spec => []ExchangeInv
<1>1. TypeOK /\ ExchangeInv /\ [Next]_vars => ExchangeInv'
  BY NextExchange
<1>. QED
  BY InitExchange, TypeCorrect, <1>1, PTL DEF Spec

\* No object and no record of the channel is ever at a greater height than
\* the peer.
THEOREM WalletNeverAhead == Spec => []NeverAhead
<1>1. ExchangeInv => NeverAhead
  BY DEF ExchangeInv
<1>. QED
  BY ExchangeInvariant, <1>1, PTL

\* A secret that leaves is that of an attempt about to send its last message.
LEMMA OnlyAnAckReleases ==
  ASSUME TypeOK, Next, NEW h \in released' \ released
  PROVE  \E p \in Pay : At(p, "ack") /\ released' = Revoked(ObjOf(p))
<1> USE DEF mem, disk, book, net
<1>0. released' # released
  OBVIOUS
<1>1. ASSUME NEW p \in Pay, AttemptStep(p)
      PROVE  At(p, "ack") /\ released' = Revoked(ObjOf(p))
  <2>1. \/ UnlockAck(p) \/ LockAck(p) \/ Rollback(p) \/ RecoverAbandon(p)
    BY <1>0, <1>1
    DEF AttemptStep, Acquire, AcquireRecover, UnlockRequest, SignExchange,
        LockRequest, LockFinish, ListReservation, SaveReservation, Advance,
        RecoverRequest, RecoverFinish, RecoverStoreFails
  <2>2. CASE UnlockAck(p) \/ LockAck(p)
    BY <2>2 DEF UnlockAck, LockAck
  <2>3. CASE Rollback(p) \/ RecoverAbandon(p)
    BY <1>0, <2>3 DEF Rollback, RecoverAbandon, Fails
  <2>. QED
    BY <2>1, <2>2, <2>3
<1>2. ASSUME NEW p \in Pay, NEW k \in Kinds, NEW t \in Pay, Fetch(p, k, t)
      PROVE  FALSE
  BY <1>0, <1>2 DEF Fetch
<1>3. ASSUME NEW p \in Pay, MonitorStep(p) \/ ChainConfirms(p)
      PROVE  FALSE
  BY <1>0, <1>3
  DEF MonitorStep, MonitorStarts, MonitorFinishes, MonitorTimesOut, ChainConfirms
<1>4. ASSUME NEW a \in Actors, HandlerStep(a)
      PROVE  FALSE
  BY <1>0, <1>4
  DEF HandlerStep, Broadcast, BroadcastFails, EnableUtxo, MarkBroadcast
<1>5. ASSUME Restart
      PROVE  FALSE
  BY <1>0, <1>5 DEF Restart
<1>. QED
  BY <1>1, <1>2, <1>3, <1>4, <1>5 DEF Next

LEMMA ReleaseIsSafe ==
  ASSUME TypeOK, ExchangeInv, Next, NEW h \in released' \ released
  PROVE  \E p \in Pay :
           /\ At(p, "ack") /\ lock[att[p].obj] = p
           /\ ObjOf(p).height = h
           /\ ObjOf(p).local = Commitment(h + 1, ObjOf(p).paid)
<1>1. PICK p \in Pay : At(p, "ack") /\ released' = Revoked(ObjOf(p))
  BY OnlyAnAckReleases
<1>2. ObjOf(p).height = h
  BY <1>1 DEF Revoked
<1>3. lock[att[p].obj] = p
  BY <1>1 DEF ExchangeInv, MutexHeld, At, Active
<1>4. ObjOf(p).local = Commitment(h + 1, ObjOf(p).paid)
  BY <1>1, <1>2 DEF ExchangeInv, SuccessorVerified
<1>. QED
  BY <1>1, <1>2, <1>3, <1>4

\* RevokeCurrentCommitment gives up a height only when the attempt that
\* holds the object has its successor verified, for any number of attempts.
THEOREM SecretIsSafe == Spec => SecretAfterCommitment
<1> DEFINE Safe == \A h \in released' \ released : \E p \in Pay :
             /\ At(p, "ack") /\ lock[att[p].obj] = p
             /\ ObjOf(p).height = h
             /\ ObjOf(p).local = Commitment(h + 1, ObjOf(p).paid)
<1>1. TypeOK /\ ExchangeInv /\ [Next]_vars => [Safe]_vars
  BY ReleaseIsSafe
<1>2. [][Safe]_vars <=> SecretAfterCommitment
  BY DEF SecretAfterCommitment
<1>. HIDE DEF Safe
<1>. QED
  BY TypeCorrect, ExchangeInvariant, <1>1, <1>2, PTL DEF Spec

-----------------------------------------------------------------------------
(* A payment whose reservation is past broadcasting is not pending any     *)
(* more, while no attempt failed.                                          *)

\* What the parts of a payment do to the balance and to what is pending.
Same(d, c) == d.height = c.height /\ d.paid = c.paid /\ d.pending = c.pending

LEMMA SameFields ==
  ASSUME NEW c \in Channels
  PROVE  Same(WithRemoteNext(c), c) /\ Same(WithLocalNext(c), c) /\ Same(Stored(c), c)
BY DEF Same, WithRemoteNext, WithLocalNext, Stored, Channels

LEMMA PaymentFields ==
  ASSUME NEW c \in Channels, NEW t \in Pay
  PROVE  /\ WithPayment(c, t) \in Channels /\ WithPayment(c, t).height = c.height
         /\ WithPayment(c, t).paid = c.paid \cup {t}
         /\ WithPayment(c, t).pending = c.pending \cup {t}
<1>1. WithPayment(c, t) \in Channels /\ WithPayment(c, t).height = c.height
  BY WithPaymentType
<1>2. WithPayment(c, t).paid = c.paid \cup {t} /\ WithPayment(c, t).pending = c.pending \cup {t}
  BY DEF WithPayment, Channels
<1>. QED
  BY <1>1, <1>2

LEMMA PartFields ==
  ASSUME NEW c \in Channels, NEW t \in Pay, NEW b \in Pay \cup {None}
  PROVE  /\ Same(WithRemoteNext(c), c) /\ Same(WithLocalNext(c), c) /\ Same(Stored(c), c)
         /\ Same([c EXCEPT !.busy = b], c)
         /\ WithPayment(c, t).height = c.height
         /\ WithPayment(c, t).paid = c.paid \cup {t}
         /\ WithPayment(c, t).pending = c.pending \cup {t}
         /\ Enabled(c, t).height = c.height /\ Enabled(c, t).paid = c.paid
         /\ Enabled(c, t).pending = c.pending \ {t}
BY DEF Same, WithRemoteNext, WithLocalNext, Stored, WithPayment, Enabled, Channels

LEMMA AdvancedFields ==
  ASSUME NEW c \in Channels
  PROVE  /\ Advanced(c).height = c.height + 1 /\ Advanced(c).paid = c.paid
         /\ Advanced(c).pending = c.pending
<1>1. ASSUME NEW n
      PROVE  /\ [c EXCEPT !.height = n, !.busy = None].height = n
             /\ [c EXCEPT !.height = n, !.busy = None].paid = c.paid
             /\ [c EXCEPT !.height = n, !.busy = None].pending = c.pending
  BY DEF Channels
<1>. QED
  BY <1>1 DEF Advanced

InStep ==
  /\ \A p \in Pay : AttemptInStep(p) /\ ReservationInStep(p)
  /\ \A a \in Actors : HandlerInStep(a)
  /\ confirmed \subseteq onL2
  /\ dbChan.height <= heap[chanMap].height

LEMMA MapType ==
  ASSUME TypeOK
  PROVE  /\ chanMap \in Objects /\ chanMap \in 1 .. nobj /\ heap[chanMap] \in Channels
         /\ dbChan \in Channels /\ dbBackup \in Channels
         /\ heap[chanMap].height \in Nat /\ dbChan.height \in Nat /\ peer.height \in Nat
         /\ heap[chanMap].paid \subseteq Pay /\ heap[chanMap].pending \subseteq Pay
<1>1. chanMap \in Objects /\ chanMap \in 1 .. nobj
  BY ConstantTypes DEF TypeOK, Objects
<1>2. heap[chanMap] \in Channels /\ dbChan \in Channels /\ dbBackup \in Channels
  BY <1>1 DEF TypeOK
<1>3. heap[chanMap].pending \subseteq Pay
  BY <1>2 DEF Channels
<1>. QED
  BY <1>1, <1>2, <1>3, CommitmentType, PeerType

\* Who holds the object in the map is alone in it.
LEMMA Alone ==
  ASSUME TypeOK, ExchangeInv, InStep, NEW p \in Pay, att[p].obj = chanMap,
         lock[chanMap] \in {None, p}
  PROVE  \A q \in Pay \ {p} : att[q].st \notin Active
<1>. SUFFICES ASSUME NEW q \in Pay \ {p}, att[q].st \in Active PROVE FALSE
  OBVIOUS
<1>1. att[q].obj = chanMap /\ lock[att[q].obj] = q
  BY DEF InStep, AttemptInStep, ExchangeInv, MutexHeld
<1>. QED
  BY <1>1, ConstantTypes

\* A step of attempt p that leaves the map at its object.
LEMMA AttemptKeeps ==
  ASSUME TypeOK, TypeOK', InStep, NEW p \in Pay,
         \A q \in Pay \ {p} : att'[q] = att[q],
         UNCHANGED <<chanMap, onL2, confirmed>>,
         \A a \in Actors : run'[a] = run[a] \/ HandlerInStep(a)',
         \A q \in Pay \ {p} : resv'[q] = resv[q] /\ dbResv'[q] = dbResv[q],
         listed' \subseteq listed \cup {p},
         heap[chanMap].paid \subseteq heap'[chanMap].paid,
         heap'[chanMap].pending \subseteq heap[chanMap].pending \cup {p},
         ~Told(p) \/ heap'[chanMap].pending = heap[chanMap].pending,
         dbChan'.pending \subseteq heap[chanMap].pending \cup dbChan.pending,
         Told(p) => Told(p)' /\ (att[p].st = "done" => att'[p].st = "done"),
         \A q \in Pay \ {p} : Committed(q) =>
           Includes(heap[chanMap], q)' /\ Includes(dbChan, q)',
         \/ \A q \in Pay \ {p} : att[q].st \notin Active
         \/ Committed(p)' => Committed(p),
         AttemptInStep(p)', ReservationInStep(p)',
         dbChan'.height <= heap'[chanMap].height
  PROVE  InStep'
<1>1. ASSUME NEW q \in Pay \ {p}
      PROVE  AttemptInStep(q)'
  <2>1. AttemptInStep(q) /\ att'[q] = att[q] /\ confirmed' = confirmed /\ chanMap' = chanMap
    BY DEF InStep
  <2>2. CarriesAll(q)'
    BY <2>1 DEF CarriesAll, AttemptInStep, Committed, Active
  <2>3. Committed(q)' => Includes(heap[chanMap], q)' /\ Includes(dbChan, q)'
    BY <2>1 DEF Committed
  <2>. QED
    BY <2>1, <2>2, <2>3 DEF AttemptInStep
<1>2. ASSUME NEW q \in Pay \ {p}
      PROVE  ReservationInStep(q)'
  <2>1. NotPending(q) => NotPending(q)'
    BY DEF NotPending
  <2>. QED
    BY <2>1 DEF InStep, ReservationInStep, Told
<1>3. ASSUME NEW a \in Actors, run'[a] = run[a]
      PROVE  HandlerInStep(a)'
  <2>1. run[a].pay \in Pay /\ HandlerInStep(a)
    BY DEF TypeOK, InStep
  <2>2. PICK q \in Pay : q = run[a].pay
    BY <2>1
  <2>3. NotPending(q) /\ Told(q) => NotPending(q)'
    BY DEF NotPending
  <2>4. /\ Told(q) => Told(q)'
        /\ att[q].st = "done" => att'[q].st = "done"
    BY DEF Told
  <2>5. att[q].st = "done" => Told(q)
    BY DEF Told
  <2>6. run'[a] = run[a] /\ chanMap' = chanMap
    BY <1>3
  <2>. QED
    BY <2>1, <2>2, <2>3, <2>4, <2>5, <2>6 DEF HandlerInStep
<1>. QED
  BY <1>1, <1>2, <1>3 DEF InStep

LEMMA MoveAll ==
  ASSUME TypeOK, NEW p \in Pay, NEW st, Move(p, st)
  PROVE  /\ att'[p].st = st /\ att'[p].obj = att[p].obj /\ att'[p].kind = att[p].kind
         /\ att'[p].tx = att[p].tx /\ att'[p].old = att[p].old
         /\ att'[p].punish = att[p].punish
         /\ \A q \in Pay \ {p} : att'[q] = att[q]
BY AttemptType DEF Move, TypeOK, Attempts

LEMMA SignMoves ==
  ASSUME TypeOK, NEW p \in Pay, SignExchange(p) \/ LockAck(p)
  PROVE  /\ att'[p].st \in {"ack", "fin"} /\ att'[p].obj = att[p].obj
         /\ att'[p].kind = att[p].kind /\ \A q \in Pay \ {p} : att'[q] = att[q]
<1>1. PICK st \in {"ack", "fin"} : att' = [att EXCEPT ![p].st = st, ![p].punish = TRUE]
  BY DEF SignExchange, LockAck
<1>2. PICK r \in Attempts : r = att[p]
  BY AttemptType
<1>3. PICK a : a = [r EXCEPT !.st = st, !.punish = TRUE]
  OBVIOUS
<1>4. a.st = st /\ a.obj = r.obj /\ a.kind = r.kind
  BY <1>3 DEF Attempts
<1>5. att'[p] = a /\ \A q \in Pay \ {p} : att'[q] = att[q]
  BY <1>1, <1>2, <1>3 DEF TypeOK
<1>. QED
  BY <1>2, <1>4, <1>5

LEMMA FetchInStep ==
  ASSUME TypeOK, TypeOK', InStep, NEW p \in Pay, NEW k \in Kinds, NEW t \in Pay, Fetch(p, k, t)
  PROVE  InStep'
<1> USE DEF mem, disk, book, net
<1>1. /\ att[p].st = "idle" /\ att'[p].st = "wait" /\ att'[p].obj = chanMap /\ att'[p].kind = k
      /\ att'[p].tx = t /\ \A q \in Pay \ {p} : att'[q] = att[q]
  BY AttemptType DEF Fetch, At, TypeOK, Attempts
<1>2. UNCHANGED <<heap, chanMap, dbChan, dbResv, resv, listed, run, peer, onL2, confirmed>>
  BY DEF Fetch
<1>3. k = "recover" => t \in confirmed
  BY DEF Fetch
<1>4. AttemptInStep(p)'
  BY <1>1, <1>2, <1>3 DEF AttemptInStep, CarriesAll, Committed, Active
<1>5. ReservationInStep(p)'
  BY <1>1, <1>2 DEF InStep, ReservationInStep, Told, NotPending, Active
<1>6. \A q \in Pay : Committed(q) => Includes(heap[chanMap], q)' /\ Includes(dbChan, q)'
  BY <1>2 DEF InStep, AttemptInStep, Includes
<1>7. ~Told(p) /\ ~Committed(p)'
  BY <1>1 DEF Told, Committed
<1>. QED
  BY <1>1, <1>2, <1>4, <1>5, <1>6, <1>7, AttemptKeeps DEF InStep

\* An attempt takes the mutex.
LEMMA AcquireInStep ==
  ASSUME TypeOK, TypeOK', InStep, NEW p \in Pay, NoneFailed',
         Acquire(p) \/ AcquireRecover(p)
  PROVE  InStep'
<1> USE DEF mem, disk, book, net
<1>1. /\ att[p].st = "wait" /\ att'[p].st = "req" /\ att'[p].obj = att[p].obj
      /\ att'[p].kind = att[p].kind /\ att'[p].tx = att[p].tx
      /\ \A q \in Pay \ {p} : att'[q] = att[q]
  <2>1. CASE Acquire(p)
    BY <2>1, AttemptType DEF Acquire, At, TypeOK, Attempts
  <2>2. CASE AcquireRecover(p)
    BY <2>2, MoveAll DEF AcquireRecover, At, NoneFailed
  <2>. QED
    BY <2>1, <2>2
<1>2. /\ UNCHANGED <<chanMap, dbChan, dbResv, resv, listed, run, peer, onL2, confirmed>>
      /\ heap'[chanMap] = heap[chanMap]
  BY MapType, InUse DEF Acquire, AcquireRecover, TypeOK
<1>3. AttemptInStep(p)'
  BY <1>1, <1>2 DEF InStep, AttemptInStep, CarriesAll, Committed, Active
<1>4. ReservationInStep(p)'
  BY <1>1, <1>2 DEF InStep, ReservationInStep, Told, NotPending, Active
<1>5. \A q \in Pay : Committed(q) => Includes(heap[chanMap], q)' /\ Includes(dbChan, q)'
  BY <1>2 DEF InStep, AttemptInStep, Includes
<1>6. ~Told(p) /\ ~Committed(p)'
  BY <1>1 DEF Told, Committed
<1>. QED
  BY <1>1, <1>2, <1>3, <1>4, <1>5, <1>6, AttemptKeeps DEF InStep

\* A running attempt alone has its object, which is the one in the map.
LEMMA Running ==
  ASSUME TypeOK, ExchangeInv, InStep, NEW p \in Pay, att[p].st \in Active
  PROVE  /\ att[p].obj = chanMap /\ ObjOf(p) = heap[chanMap] /\ lock[chanMap] = p
         /\ \A q \in Pay \ {p} : att[q].st \notin Active
         /\ att[p].kind = "recover" => att[p].st = "req"
         /\ dbChan.height <= ObjOf(p).height
         /\ \A q \in Pay : Committed(q) => Includes(heap[chanMap], q) /\ Includes(dbChan, q)
<1>1. att[p].obj = chanMap /\ (att[p].kind = "recover" => att[p].st \notin Active \/ att[p].st = "req")
      /\ dbChan.height <= heap[chanMap].height
      /\ \A q \in Pay : Committed(q) => Includes(heap[chanMap], q) /\ Includes(dbChan, q)
  BY DEF InStep, AttemptInStep, Active
<1>2. lock[att[p].obj] = p
  BY DEF ExchangeInv, MutexHeld
<1>. QED
  BY <1>1, <1>2, Alone DEF ObjOf

\* While the peer stands where the object stands, all that is committed is in it.
LEMMA AllIn ==
  ASSUME TypeOK, InStep, PeerAgrees(heap[chanMap]), NEW q \in Pay, Committed(q)
  PROVE  q \in heap[chanMap].paid
BY MapType DEF InStep, AttemptInStep, Includes, PeerAgrees

\* The attempt changes its object: the payment is in it from here on.
LEMMA RequestInStep ==
  ASSUME TypeOK, TypeOK', ExchangeInv, InStep, NEW p \in Pay,
         UnlockRequest(p) \/ LockRequest(p)
  PROVE  InStep'
<1> USE DEF mem, disk, book, net
<1>0. p \in Pay \cup {None} /\ heap[chanMap] \in Channels
  BY MapType
<1>1. /\ att[p].st = "req" /\ att[p].kind # "recover" /\ ObjOf(p) = heap[chanMap]
      /\ att[p].obj = chanMap /\ \A q \in Pay \ {p} : att[q].st \notin Active
  BY Running DEF UnlockRequest, LockRequest, At, Active
<1>2. PICK d \in Channels : /\ heap' = [heap EXCEPT ![chanMap] = d]
                            /\ d.height = heap[chanMap].height
                            /\ d.paid = heap[chanMap].paid \cup {p}
                            /\ d.pending = heap[chanMap].pending \cup {p}
  <2>. DEFINE c == heap[chanMap]
  <2>1. CASE UnlockRequest(p)
    <3>1. PICK e \in Channels : e = [c EXCEPT !.busy = p] /\ Same(e, c)
      BY <1>0, BusyType, PartFields
    <3>2. PICK f \in Channels : f = WithPayment(e, p)
      BY WithPaymentType
    <3>3. PICK g \in Channels : g = WithRemoteNext(f)
      BY WithRemoteNextType
    <3>4. /\ f.height = e.height /\ f.paid = e.paid \cup {p} /\ f.pending = e.pending \cup {p}
          /\ Same(g, f)
      BY <3>2, <3>3, PaymentFields, SameFields
    <3>5. heap' = [heap EXCEPT ![chanMap] = g]
      BY <1>1, <2>1, <3>1, <3>2, <3>3 DEF UnlockRequest
    <3>. QED
      BY <3>1, <3>4, <3>5 DEF Same
  <2>2. CASE LockRequest(p)
    <3>1. PICK e \in Channels : /\ e = WithPayment(c, p) /\ e.height = c.height
                                /\ e.paid = c.paid \cup {p} /\ e.pending = c.pending \cup {p}
      BY <1>0, PaymentFields
    <3>2. PICK f \in Channels : f = [e EXCEPT !.busy = p] /\ Same(f, e)
      BY <1>0, BusyType, PartFields
    <3>3. PICK g \in Channels : g = WithLocalNext(f)
      BY WithLocalNextType
    <3>4. PICK h \in Channels : h = WithRemoteNext(g)
      BY WithRemoteNextType
    <3>5. Same(g, f) /\ Same(h, g)
      BY <3>3, <3>4, SameFields
    <3>6. heap' = [heap EXCEPT ![chanMap] = h]
      BY <1>1, <2>2, <3>1, <3>2, <3>3, <3>4 DEF LockRequest
    <3>. QED
      BY <3>1, <3>2, <3>5, <3>6 DEF Same
  <2>. QED
    BY <2>1, <2>2
<1>3. /\ att'[p].st \in {"sign", "ack"} /\ att'[p].obj = att[p].obj /\ att'[p].kind = att[p].kind
      /\ \A q \in Pay \ {p} : att'[q] = att[q]
  BY MoveAll DEF UnlockRequest, LockRequest
<1>4. /\ UNCHANGED <<chanMap, dbChan, dbResv, resv, listed, run, peer, onL2, confirmed>>
      /\ heap'[chanMap] = d
  BY <1>2, MapType DEF UnlockRequest, LockRequest, TypeOK
<1>5. PeerAgrees(heap[chanMap])
  <2>1. CASE UnlockRequest(p)
    BY <1>1, <2>1 DEF UnlockRequest
  <2>2. CASE LockRequest(p)
    <3>1. PeerSigns(WithPayment(heap[chanMap], p), p)
      BY <1>1, <2>2 DEF LockRequest
    <3>2. WithPayment(heap[chanMap], p).height = heap[chanMap].height
      BY <1>0, PartFields
    <3>. QED
      BY <3>1, <3>2 DEF PeerSigns, PeerAgrees
  <2>. QED
    BY <2>1, <2>2
<1>6. \A q \in Pay : Committed(q) => q \in heap[chanMap].paid
  BY <1>5, AllIn
<1>7. ~Told(p) /\ ~Committed(p)' /\ \A q \in Pay : Committed(q)' => Committed(q)
  BY <1>1, <1>3 DEF Told, Committed
<1>8. AttemptInStep(p)'
  BY <1>1, <1>2, <1>3, <1>4, <1>6, <1>7 DEF AttemptInStep, CarriesAll
<1>9. ReservationInStep(p)'
  BY <1>1, <1>3, <1>4, <1>7 DEF InStep, ReservationInStep, Told
<1>10. \A q \in Pay : Committed(q) => Includes(heap[chanMap], q)' /\ Includes(dbChan, q)'
  BY <1>2, <1>4, <1>6 DEF InStep, AttemptInStep, Includes
<1>11. dbChan'.height <= heap'[chanMap].height
  BY <1>2, <1>4 DEF InStep
<1>. QED
  BY <1>1, <1>2, <1>3, <1>4, <1>7, <1>8, <1>9, <1>10, <1>11, AttemptKeeps

\* Recovery needs a confirmed payment that the channel does not have.
LEMMA NothingToRecover ==
  ASSUME TypeOK, ExchangeInv, InStep, NEW p \in Pay
  PROVE  ~RecoverRequest(p) /\ ~RecoverFinish(p) /\ ~RecoverStoreFails(p)
<1>1. ASSUME RecoverRequest(p)
      PROVE  FALSE
  <2>1. /\ att[p].st = "req" /\ att[p].kind = "recover" /\ ObjOf(p) = heap[chanMap]
    BY <1>1, Running DEF RecoverRequest, At, Active
  <2>2. att[p].tx \in Pay /\ att[p].tx \in onL2 /\ att[p].tx \notin heap[chanMap].paid
    BY <1>1, <2>1, AttemptType DEF RecoverRequest, SpendsCurrent, InStep, AttemptInStep
  <2>3. Committed(att[p].tx)
    BY <2>2 DEF InStep, ReservationInStep, Told, Committed
  <2>4. PeerAgrees(heap[chanMap])
    BY <1>1, <2>1 DEF RecoverRequest
  <2>. QED
    BY <2>2, <2>3, <2>4, AllIn
<1>2. ASSUME RecoverFinish(p) \/ RecoverStoreFails(p)
      PROVE  FALSE
  BY <1>2 DEF InStep, AttemptInStep, RecoverFinish, RecoverStoreFails, At
<1>. QED
  BY <1>1, <1>2

\* The exchange after the request: the attempt goes on, and the peer may advance.
LEMMA ExchangeInStep ==
  ASSUME TypeOK, TypeOK', ExchangeInv, InStep, NEW p \in Pay,
         SignExchange(p) \/ UnlockAck(p) \/ LockAck(p) \/ LockFinish(p)
  PROVE  InStep'
<1> USE DEF mem, disk, book, net
<1>1. /\ att[p].st \in {"sign", "ack", "fin"} /\ att[p].kind # "recover"
      /\ ObjOf(p) = heap[chanMap]
      /\ att[p].obj = chanMap /\ \A q \in Pay \ {p} : att[q].st \notin Active
  BY Running DEF SignExchange, UnlockAck, LockAck, LockFinish, At, Active
<1>2. /\ att'[p].st \in {"ack", "fin", "commit"} /\ att'[p].obj = att[p].obj
      /\ att'[p].kind = att[p].kind /\ \A q \in Pay \ {p} : att'[q] = att[q]
  <2>1. CASE UnlockAck(p) \/ LockFinish(p)
    BY <2>1, MoveAll DEF UnlockAck, LockFinish
  <2>2. CASE SignExchange(p) \/ LockAck(p)
    BY <2>2, SignMoves
  <2>. QED
    BY <2>1, <2>2
<1>3. UNCHANGED <<chanMap, dbChan, dbResv, resv, listed, run, onL2, confirmed>>
  BY DEF SignExchange, UnlockAck, LockAck, LockFinish
<1>4. Same(heap'[chanMap], heap[chanMap])
  <2>1. CASE SignExchange(p)
    <3>1. heap'[chanMap] = WithLocalNext(heap[chanMap])
      BY <1>1, <2>1, MapType DEF SignExchange, TypeOK
    <3>. QED
      BY <3>1, MapType, SameFields
  <2>2. CASE UnlockAck(p) \/ LockAck(p) \/ LockFinish(p)
    BY <2>2 DEF UnlockAck, LockAck, LockFinish, Same
  <2>. QED
    BY <2>1, <2>2
<1>5. /\ \A q \in Pay : Committed(q) => q \in heap[chanMap].paid
      /\ peer' = peer \/ heap[chanMap].height < peer'.height
      /\ att'[p].st = "commit" => heap[chanMap].height < peer'.height
  <2>1. \A q \in Pay : Committed(q) => q \in heap[chanMap].paid
    BY <1>1 DEF InStep, AttemptInStep, CarriesAll, Active
  <2>2. CASE UnlockAck(p) \/ LockFinish(p)
    <3>1. \E t : PeerSigns(heap[chanMap], t) /\ peer' = PeerAdvanced(heap[chanMap])
      BY <1>1, <2>2 DEF UnlockAck, LockFinish
    <3>2. peer'.height = heap[chanMap].height + 1
      BY <3>1, MapType, PeerAdvances
    <3>. QED
      BY <2>1, <3>2, MapType
  <2>3. CASE SignExchange(p) \/ LockAck(p)
    <3>1. att'[p].st # "commit" /\ peer' = peer
      BY <2>3, SignMoves DEF SignExchange, LockAck
    <3>. QED
      BY <2>1, <3>1
  <2>. QED
    BY <2>1, <2>2, <2>3
<1>6. dbChan.height <= heap[chanMap].height /\ heap[chanMap].height \in Nat
      /\ dbChan.height \in Nat /\ peer'.height \in Nat
  BY MapType DEF InStep, TypeOK, Commitments
<1>7. \A q \in Pay : Committed(q) => Includes(heap[chanMap], q)' /\ Includes(dbChan, q)'
  <2>1. CASE peer' = peer
    BY <1>3, <1>4, <2>1 DEF InStep, AttemptInStep, Includes, Same
  <2>2. CASE heap[chanMap].height < peer'.height
    BY <1>3, <1>4, <1>6, <2>2 DEF Includes, Same
  <2>. QED
    BY <1>5, <2>1, <2>2
<1>8. AttemptInStep(p)'
  <2>1. ASSUME att'[p].st = "commit"
        PROVE  p \in heap[chanMap].paid /\ Includes(heap[chanMap], p)' /\ Includes(dbChan, p)'
    <3>1. p \in heap[chanMap].paid
      BY <1>1 DEF InStep, AttemptInStep, CarriesAll, Active
    <3>. QED
      BY <1>3, <1>4, <1>5, <1>6, <2>1, <3>1 DEF Includes, Same
  <2>2. ~Committed(p) /\ (Committed(p)' => att'[p].st = "commit")
    BY <1>1, <1>2 DEF Committed
  <2>3. CarriesAll(p)'
    <3>1. \A q \in Pay : q = p \/ Committed(q) => q \in heap[chanMap].paid
      BY <1>1 DEF InStep, AttemptInStep, CarriesAll, Active
    <3>2. \A q \in Pay \ {p} : Committed(q)' => Committed(q)
      BY <1>2 DEF Committed
    <3>. QED
      BY <1>3, <1>4, <3>1, <3>2 DEF CarriesAll, Same
  <2>. QED
    BY <1>1, <1>2, <1>3, <2>1, <2>2, <2>3 DEF AttemptInStep
<1>9. ReservationInStep(p)'
  BY <1>1, <1>2, <1>3, <1>4 DEF InStep, ReservationInStep, Told, NotPending, Same
<1>10. ~Told(p) /\ dbChan'.height <= heap'[chanMap].height
  BY <1>1, <1>3, <1>4, <1>6 DEF Told, Same
<1>. QED
  BY <1>1, <1>2, <1>3, <1>4, <1>7, <1>8, <1>9, <1>10, AttemptKeeps DEF Same

\* The reservation is listed, then saved: the payment is told.
LEMMA ReserveInStep ==
  ASSUME TypeOK, TypeOK', ExchangeInv, InStep, NEW p \in Pay,
         ListReservation(p) \/ SaveReservation(p)
  PROVE  InStep'
<1> USE DEF mem, disk, book, net
<1>1. /\ att[p].st \in {"commit", "listed"} /\ att[p].kind # "recover"
      /\ att[p].obj = chanMap /\ \A q \in Pay \ {p} : att[q].st \notin Active
  BY Running DEF ListReservation, SaveReservation, At, Active
<1>2. /\ att'[p].st \in {"listed", "saved"} /\ att'[p].obj = att[p].obj
      /\ att'[p].kind = att[p].kind /\ \A q \in Pay \ {p} : att'[q] = att[q]
  BY MoveAll DEF ListReservation, SaveReservation
<1>3. UNCHANGED <<heap, chanMap, dbChan, run, peer, onL2, confirmed>>
      /\ listed' \subseteq listed \cup {p}
  BY DEF ListReservation, SaveReservation
<1>4. /\ \A q \in Pay \ {p} : resv'[q] = resv[q] /\ dbResv'[q] = dbResv[q]
      /\ resv'[p] = "started" /\ dbResv'[p] \in {"none", "started"}
  <2>1. CASE ListReservation(p)
    BY <2>1 DEF ListReservation, At, TypeOK, InStep, ReservationInStep, Told
  <2>2. CASE SaveReservation(p)
    BY <2>2 DEF SaveReservation, At, TypeOK, InStep, ReservationInStep, Told, Active
  <2>. QED
    BY <2>1, <2>2
<1>5. \A q \in Pay : Committed(q) => Includes(heap[chanMap], q)' /\ Includes(dbChan, q)'
  BY <1>3 DEF InStep, AttemptInStep, Includes
<1>6. Committed(p) /\ Told(p)' /\ \A q \in Pay : Committed(q)' => Committed(q)
  BY <1>1, <1>2 DEF Committed, Told
<1>7. AttemptInStep(p)'
  BY <1>1, <1>2, <1>3, <1>5, <1>6 DEF InStep, AttemptInStep, CarriesAll, Active
<1>8. ReservationInStep(p)'
  BY <1>4, <1>6 DEF ReservationInStep
<1>. QED
  BY <1>1, <1>2, <1>3, <1>4, <1>5, <1>6, <1>7, <1>8, AttemptKeeps DEF InStep

\* The attempt is over: its object, saved or not, has the next height.
LEMMA AdvanceInStep ==
  ASSUME TypeOK, TypeOK', ExchangeInv, InStep, NEW p \in Pay, Advance(p)
  PROVE  InStep'
<1> USE DEF mem, disk, book, net
<1>1. /\ att[p].st = "saved" /\ att[p].kind # "recover" /\ ObjOf(p) = heap[chanMap]
      /\ att[p].obj = chanMap /\ \A q \in Pay \ {p} : att[q].st \notin Active
      /\ heap[chanMap].height < peer.height
  <2>1. att[p].st = "saved" /\ PeerWentFirst(p)
    BY DEF Advance, At, ExchangeInv
  <2>. QED
    BY <2>1, Running DEF PeerWentFirst, Active
<1>2. /\ att'[p].st = "done" /\ att'[p].obj = att[p].obj /\ att'[p].kind = att[p].kind
      /\ \A q \in Pay \ {p} : att'[q] = att[q]
  BY MoveAll DEF Advance
<1>3. UNCHANGED <<chanMap, resv, dbResv, listed, peer, onL2, confirmed>>
  BY DEF Advance
<1>4. PICK d \in Channels : /\ heap'[chanMap] = d /\ d.height = heap[chanMap].height + 1
                            /\ d.paid = heap[chanMap].paid /\ d.pending = heap[chanMap].pending
                            /\ dbChan' = dbChan \/ Same(dbChan', d)
  <2>1. PICK d \in Channels : d = Advanced(heap[chanMap])
    BY MapType, AdvancedType
  <2>2. heap' = [heap EXCEPT ![chanMap] = d] /\ dbChan' \in {dbChan, Stored(d)}
    BY <1>1, <2>1 DEF Advance, SaveAdvanced
  <2>3. Same(Stored(d), d)
    BY PartFields, ConstantTypes
  <2>4. heap'[chanMap] = d
    BY <2>2, MapType DEF TypeOK
  <2>. QED
    BY <2>1, <2>2, <2>3, <2>4, MapType, AdvancedFields
<1>5. \A q \in Pay : q = p \/ Committed(q) => q \in heap[chanMap].paid
  BY <1>1 DEF InStep, AttemptInStep, CarriesAll, Active
<1>6. /\ heap[chanMap].height \in Nat /\ dbChan.height \in Nat /\ peer.height \in Nat
      /\ dbChan.height <= heap[chanMap].height
  BY MapType DEF InStep
<1>7. \A q \in Pay : q = p \/ Committed(q) =>
        Includes(heap[chanMap], q)' /\ Includes(dbChan, q)'
  BY <1>1, <1>3, <1>4, <1>5, <1>6 DEF Includes, Same
<1>8. AttemptInStep(p)'
  BY <1>1, <1>2, <1>3, <1>7 DEF AttemptInStep, CarriesAll, Active
<1>9. ReservationInStep(p)'
  <2>1. NotPending(p) => NotPending(p)'
    BY <1>3, <1>4 DEF NotPending, Same
  <2>. QED
    BY <1>1, <1>2, <1>3, <2>1 DEF InStep, ReservationInStep, Told, Active
<1>10. ASSUME NEW a \in Actors
       PROVE  run'[a] = run[a] \/ HandlerInStep(a)'
  <2>1. a # p => run'[a] = run[a]
    BY DEF Advance, TypeOK
  <2>2. a = p => run'[a].pay = p /\ run'[a].st = "start"
    BY ConstantTypes DEF Advance, TypeOK
  <2>. QED
    BY <1>2, <2>1, <2>2 DEF HandlerInStep, Told
<1>11. Committed(p) /\ Told(p)'
  BY <1>1, <1>2 DEF Committed, Told
<1>12. dbChan'.height <= heap'[chanMap].height
  BY <1>4, <1>6 DEF Same
<1>. QED
  BY <1>1, <1>2, <1>3, <1>4, <1>7, <1>8, <1>9, <1>10, <1>11, <1>12, AttemptKeeps DEF Same

\* The handlers and the monitor leave the attempts alone, and the map.
LEMMA HandlersKeep ==
  ASSUME TypeOK, InStep, UNCHANGED <<att, chanMap, peer>>,
         Same(heap'[chanMap], heap[chanMap]) \/
           \E t : /\ heap'[chanMap].height = heap[chanMap].height
                  /\ heap'[chanMap].paid = heap[chanMap].paid
                  /\ heap'[chanMap].pending = heap[chanMap].pending \ {t},
         dbChan' = dbChan \/ Same(dbChan', heap'[chanMap]),
         confirmed \subseteq confirmed', confirmed' \subseteq onL2',
         \A q \in Pay : q \in onL2' \ onL2 => Told(q),
         listed' \subseteq listed,
         \A q \in Pay : /\ resv'[q] = resv[q] /\ dbResv'[q] = dbResv[q]
                        \/ ReservationInStep(q)',
         \A a \in Actors : run'[a] = run[a] \/ HandlerInStep(a)'
  PROVE  InStep'
<1>1. PICK d : d = heap'[chanMap]
  OBVIOUS
<1>2. /\ heap'[chanMap'] = d /\ d.height = heap[chanMap].height /\ d.paid = heap[chanMap].paid
      /\ d.pending \subseteq heap[chanMap].pending
      /\ dbChan' = dbChan \/ Same(dbChan', d)
  BY <1>1 DEF Same
<1>3. \A q \in Pay : NotPending(q) => NotPending(q)'
  BY <1>2 DEF NotPending, Same
<1>4. ASSUME NEW q \in Pay
      PROVE  AttemptInStep(q)'
  <2>1. Includes(heap[chanMap], q) => Includes(heap[chanMap], q)'
    BY <1>2 DEF Includes
  <2>2. Includes(heap[chanMap], q) /\ Includes(dbChan, q) => Includes(dbChan, q)'
    BY <1>2 DEF Includes, Same
  <2>3. CarriesAll(q) => CarriesAll(q)'
    BY <1>2 DEF CarriesAll, Committed
  <2>. QED
    BY <2>1, <2>2, <2>3 DEF InStep, AttemptInStep, Committed
<1>5. ASSUME NEW q \in Pay, resv'[q] = resv[q], dbResv'[q] = dbResv[q]
      PROVE  ReservationInStep(q)'
  BY <1>3, <1>5 DEF InStep, ReservationInStep, Told
<1>6. ASSUME NEW a \in Actors, run'[a] = run[a]
      PROVE  HandlerInStep(a)'
  <2>1. PICK q \in Pay : q = run[a].pay
    BY DEF TypeOK
  <2>. QED
    BY <1>3, <1>6, <2>1 DEF InStep, HandlerInStep, Told
<1>7. dbChan'.height <= heap'[chanMap'].height
  <2>1. heap[chanMap].height \in Nat
    BY MapType
  <2>. QED
    BY <1>2, <2>1 DEF InStep, Same
<1>. QED
  BY <1>4, <1>5, <1>6, <1>7 DEF InStep

LEMMA HandlerInStepNext ==
  ASSUME TypeOK, TypeOK', ExchangeInv, InStep, NEW a \in Actors, HandlerStep(a)
  PROVE  InStep'
<1> USE DEF mem, disk, book, net
<1>0. /\ run[a] \in [st : {"off", "start", "lock", "mark"}, pay : Pay, obj : Objects]
      /\ HandlerInStep(a) /\ \A q \in Pay : ReservationInStep(q) /\ AttemptInStep(q)
      /\ confirmed \subseteq onL2
  BY DEF TypeOK, InStep
<1>1. PICK p \in Pay : p = run[a].pay
  BY <1>0
<1>2. UNCHANGED <<att, chanMap, peer, listed, confirmed>>
  BY DEF HandlerStep, Broadcast, BroadcastFails, EnableUtxo, MarkBroadcast
<1>3. \A b \in Actors \ {a} : run'[b] = run[b]
  BY DEF HandlerStep, Broadcast, BroadcastFails, EnableUtxo, MarkBroadcast, TypeOK
<1>4. CASE Broadcast(a)
  <2>1. UNCHANGED <<heap, dbChan, resv, dbResv>> /\ onL2' = onL2 \cup {p} /\ Told(p)
    BY <1>0, <1>1, <1>4 DEF Broadcast, HandlerInStep
  <2>2. run'[a].st = "lock" /\ run'[a].obj = chanMap /\ run'[a].pay = p
    BY <1>0, <1>1, <1>4 DEF Broadcast, TypeOK
  <2>3. HandlerInStep(a)'
    BY <1>2, <2>1, <2>2 DEF HandlerInStep, Told
  <2>4. Same(heap'[chanMap], heap[chanMap])
    BY <2>1 DEF Same
  <2>. QED
    BY <1>0, <1>2, <1>3, <2>1, <2>3, <2>4, HandlersKeep
<1>5. CASE BroadcastFails(a)
  <2>1. UNCHANGED <<heap, dbChan, resv, dbResv, onL2>>
    BY <1>5 DEF BroadcastFails
  <2>2. run'[a].st = "off"
    BY <1>0, <1>5 DEF BroadcastFails, TypeOK
  <2>3. HandlerInStep(a)'
    BY <2>2 DEF HandlerInStep
  <2>4. Same(heap'[chanMap], heap[chanMap])
    BY <2>1 DEF Same
  <2>. QED
    BY <1>0, <1>2, <1>3, <2>1, <2>3, <2>4, HandlersKeep
<1>6. CASE EnableUtxo(a)
  <2>1. /\ run[a].obj = chanMap /\ lock[chanMap] = None /\ Told(p)
        /\ UNCHANGED <<resv, dbResv, onL2>>
    BY <1>0, <1>1, <1>6 DEF EnableUtxo, HandlerInStep, Free
  <2>2. PICK d \in Channels : d = Enabled(heap[chanMap], p)
    BY MapType, EnabledType
  <2>3. /\ d.height = heap[chanMap].height /\ d.paid = heap[chanMap].paid
        /\ d.pending = heap[chanMap].pending \ {p} /\ Same(Stored(d), d)
    BY <2>2, MapType, PartFields, ConstantTypes
  <2>4. heap'[chanMap] = d /\ dbChan' = Stored(d)
    BY <1>1, <1>6, <2>1, <2>2, MapType DEF EnableUtxo, TypeOK
  <2>5. att[p].st = "done"
    <3>1. att[p].st \notin Active
      BY <1>0, <2>1, ConstantTypes DEF AttemptInStep, ExchangeInv, MutexHeld
    <3>. QED
      BY <2>1, <3>1 DEF Told, Active
  <2>6. run'[a].st = "mark" /\ run'[a].pay = p
    BY <1>0, <1>1, <1>6 DEF EnableUtxo, TypeOK
  <2>7. NotPending(p)'
    BY <1>2, <2>3, <2>4 DEF NotPending, Same
  <2>8. HandlerInStep(a)'
    BY <1>2, <2>5, <2>6, <2>7 DEF HandlerInStep, Told
  <2>9. Same(dbChan', heap'[chanMap])
    BY <2>3, <2>4
  <2>. QED
    BY <1>0, <1>2, <1>3, <2>1, <2>3, <2>4, <2>8, <2>9, HandlersKeep
<1>7. CASE MarkBroadcast(a)
  <2>1. UNCHANGED <<heap, dbChan, onL2>> /\ NotPending(p) /\ att[p].st = "done"
    BY <1>0, <1>1, <1>7 DEF MarkBroadcast, HandlerInStep
  <2>2. /\ resv'[p] = "broadcast" /\ dbResv'[p] = "broadcast"
        /\ \A q \in Pay \ {p} : resv'[q] = resv[q] /\ dbResv'[q] = dbResv[q]
    BY <1>1, <1>7 DEF MarkBroadcast, TypeOK
  <2>3. run'[a].st = "off"
    BY <1>0, <1>7 DEF MarkBroadcast, TypeOK
  <2>4. HandlerInStep(a)'
    BY <2>3 DEF HandlerInStep
  <2>5. Same(heap'[chanMap], heap[chanMap])
    BY <2>1 DEF Same
  <2>6. ReservationInStep(p)'
    BY <1>2, <2>1, <2>2 DEF ReservationInStep, Told, NotPending, Active
  <2>. QED
    BY <1>0, <1>2, <1>3, <2>1, <2>2, <2>4, <2>5, <2>6, HandlersKeep
<1>. QED
  BY <1>4, <1>5, <1>6, <1>7 DEF HandlerStep

LEMMA MonitorInStepNext ==
  ASSUME TypeOK, TypeOK', InStep, NEW p \in Pay, MonitorStep(p) \/ ChainConfirms(p)
  PROVE  InStep'
<1> USE DEF mem, disk, book, net
<1>0. ReservationInStep(p) /\ confirmed \subseteq onL2
  BY DEF InStep
<1>1. ~MonitorTimesOut(p)
  BY <1>0 DEF MonitorTimesOut, ReservationInStep
<1>2. /\ UNCHANGED <<att, chanMap, peer, heap, dbChan>> /\ listed' \subseteq listed
      /\ Same(heap'[chanMap], heap[chanMap])
  BY <1>1 DEF MonitorStep, MonitorStarts, MonitorFinishes, ChainConfirms, Same
<1>3. CASE MonitorStarts(p)
  <2>1. UNCHANGED <<resv, dbResv, onL2, confirmed>> /\ Told(p)
    BY <1>0, <1>3 DEF MonitorStarts, Due, ReservationInStep
  <2>2. \A b \in Actors \ {Monitor} : run'[b] = run[b]
    BY <1>3 DEF MonitorStarts, TypeOK
  <2>3. run'[Monitor].st = "start" /\ run'[Monitor].pay = p
    BY <1>3, ConstantTypes DEF MonitorStarts, TypeOK
  <2>4. HandlerInStep(Monitor)'
    BY <1>2, <2>1, <2>3 DEF HandlerInStep, Told
  <2>. QED
    BY <1>0, <1>2, <2>1, <2>2, <2>4, HandlersKeep
<1>4. CASE MonitorFinishes(p)
  <2>1. UNCHANGED <<onL2, confirmed, run>> /\ p \in listed /\ resv[p] = "broadcast"
    BY <1>4 DEF MonitorFinishes
  <2>2. /\ resv'[p] = "closed" /\ dbResv'[p] = "closed"
        /\ \A q \in Pay \ {p} : resv'[q] = resv[q] /\ dbResv'[q] = dbResv[q]
    BY <1>4 DEF MonitorFinishes, TypeOK
  <2>3. ReservationInStep(p)'
    BY <1>0, <1>2, <2>1, <2>2 DEF ReservationInStep, Told, NotPending
  <2>. QED
    BY <1>0, <1>2, <2>1, <2>2, <2>3, HandlersKeep
<1>5. CASE ChainConfirms(p)
  <2>1. UNCHANGED <<onL2, run, resv, dbResv>> /\ confirmed' = confirmed \cup {p} /\ p \in onL2
    BY <1>5 DEF ChainConfirms
  <2>. QED
    BY <1>0, <1>2, <2>1, HandlersKeep
<1>. QED
  BY <1>1, <1>3, <1>4, <1>5 DEF MonitorStep

\* A restart that cuts no attempt off loads what every attempt has left.
LEMMA RestartInStepNext ==
  ASSUME TypeOK, TypeOK', InStep, Restart, NoneFailed'
  PROVE  InStep'
<1> USE DEF mem, disk, book, net
<1>1. \A p \in Pay : att'[p] = att[p] /\ att[p].st \in {"idle", "done"}
  <2>1. ASSUME NEW p \in Pay, att[p].st \notin {"idle", "done"}
        PROVE  FALSE
    <3>1. att'[p].st = "dead"
      BY <2>1, AttemptType DEF Restart, Attempts
    <3>. QED
      BY <3>1 DEF NoneFailed, At
  <2>. QED
    BY <2>1 DEF Restart
<1>2. heap'[chanMap'] = dbChan /\ dbChan' = dbChan
  BY NewObjectType DEF Restart, TypeOK
<1>3. UNCHANGED <<dbResv, peer, onL2, confirmed>> /\ resv' = dbResv /\ listed' = {}
  BY DEF Restart
<1>4. \A a \in Actors : run'[a].st = "off"
  BY DEF Restart, TypeOK
<1>5. ASSUME NEW p \in Pay
      PROVE  AttemptInStep(p)' /\ ReservationInStep(p)'
  <2>1. att'[p] = att[p] /\ att[p].st \in {"idle", "done"} /\ AttemptInStep(p)
        /\ ReservationInStep(p)
    BY <1>1 DEF InStep
  <2>2. AttemptInStep(p)'
    BY <1>2, <1>3, <2>1 DEF AttemptInStep, CarriesAll, Committed, Includes, Active
  <2>3. ReservationInStep(p)'
    BY <1>2, <1>3, <2>1 DEF ReservationInStep, NotPending, Told, Active
  <2>. QED
    BY <2>2, <2>3
<1>6. dbChan'.height <= heap'[chanMap'].height
  BY <1>2, MapType
<1>. QED
  BY <1>3, <1>4, <1>5, <1>6 DEF InStep, HandlerInStep

LEMMA StillNoneFailed ==
  ASSUME TypeOK, [Next]_vars, NoneFailed'
  PROVE  NoneFailed
<1> USE DEF mem, disk, book, net
<1>. SUFFICES ASSUME NEW q \in Pay, att[q].st = "dead" PROVE att'[q].st = "dead"
  BY DEF NoneFailed, At
<1>1. ASSUME NEW p \in Pay, AttemptStep(p)
      PROVE  att'[q].st = "dead"
  <2>1. p # q
    BY <1>1, FailsActive
       DEF AttemptStep, Acquire, AcquireRecover, UnlockRequest, SignExchange, UnlockAck,
           LockRequest, LockAck, LockFinish, ListReservation, SaveReservation, Advance,
           Rollback, RecoverRequest, RecoverFinish, RecoverAbandon, RecoverStoreFails, At, Active
  <2>2. att'[q] = att[q]
    BY <1>1, <2>1
       DEF AttemptStep, Acquire, AcquireRecover, UnlockRequest, SignExchange, UnlockAck,
           LockRequest, LockAck, LockFinish, ListReservation, SaveReservation, Advance,
           Rollback, RecoverRequest, RecoverFinish, RecoverAbandon, RecoverStoreFails, Move,
           TypeOK
  <2>. QED
    BY <2>2
<1>2. ASSUME NEW p \in Pay, NEW k \in Kinds, NEW t \in Pay, Fetch(p, k, t)
      PROVE  att'[q].st = "dead"
  BY <1>2 DEF Fetch, At, TypeOK
<1>3. CASE Restart
  BY <1>3, AttemptType DEF Restart, Attempts
<1>4. ASSUME NEW p \in Pay, MonitorStep(p) \/ ChainConfirms(p)
      PROVE  att'[q].st = "dead"
  BY <1>4 DEF MonitorStep, MonitorStarts, MonitorFinishes, MonitorTimesOut, ChainConfirms
<1>5. ASSUME NEW a \in Actors, HandlerStep(a)
      PROVE  att'[q].st = "dead"
  BY <1>5 DEF HandlerStep, Broadcast, BroadcastFails, EnableUtxo, MarkBroadcast
<1>6. CASE UNCHANGED vars
  BY <1>6 DEF vars
<1>. QED
  BY <1>1, <1>2, <1>3, <1>4, <1>5, <1>6 DEF Next

LEMMA InitInStep == Init => BroadcastInv
<1> SUFFICES ASSUME Init PROVE BroadcastInv
  OBVIOUS
<1>1. /\ \A p \in Pay : att[p].st = "idle" /\ resv[p] = "none" /\ dbResv[p] = "none"
      /\ \A a \in Actors : run[a].st = "off"
      /\ listed = {} /\ onL2 = {} /\ confirmed = {}
  BY DEF Init
<1>2. dbChan.height = 0 /\ heap[chanMap].height = 0
  BY ConstantTypes DEF Init, FirstChannel
<1>. QED
  BY <1>1, <1>2
     DEF BroadcastInv, AttemptInStep, CarriesAll, Committed, Active, ReservationInStep, Told,
         HandlerInStep

LEMMA NextInStep ==
  ASSUME TypeOK, ExchangeInv, BroadcastInv, [Next]_vars
  PROVE  BroadcastInv'
<1>. SUFFICES ASSUME NoneFailed' PROVE InStep'
  BY DEF BroadcastInv, InStep
<1>0. TypeOK' /\ InStep
  BY NextType, StillNoneFailed DEF BroadcastInv, InStep
<1>1. ASSUME NEW p \in Pay, AttemptStep(p)
      PROVE  InStep'
  <2>1. ~Rollback(p) /\ ~RecoverAbandon(p)
    BY MoveFacts DEF Rollback, RecoverAbandon, NoneFailed, At
  <2>. QED
    BY <1>0, <1>1, <2>1, NothingToRecover, AcquireInStep, RequestInStep, ExchangeInStep,
       ReserveInStep, AdvanceInStep DEF AttemptStep
<1>2. ASSUME NEW p \in Pay, NEW k \in Kinds, NEW t \in Pay, Fetch(p, k, t)
      PROVE  InStep'
  BY <1>0, <1>2, FetchInStep
<1>3. CASE UNCHANGED vars
  BY <1>0, <1>3
     DEF vars, mem, disk, book, net, InStep, AttemptInStep, CarriesAll, Committed, Includes,
         ReservationInStep, Told, NotPending, HandlerInStep
<1>. QED
  BY <1>0, <1>1, <1>2, <1>3, HandlerInStepNext, MonitorInStepNext, RestartInStepNext DEF Next

\* While no attempt failed, attempts, handlers and reservations agree on the
\* object in the map and on what is committed.
THEOREM BroadcastInvariant == Spec => []BroadcastInv
<1>1. TypeOK /\ ExchangeInv /\ BroadcastInv /\ [Next]_vars => BroadcastInv'
  BY NextInStep
<1>. QED
  BY InitInStep, TypeCorrect, ExchangeInvariant, <1>1, PTL DEF Spec

\* A payment past broadcasting is not pending in the channel the manager uses,
\* for any number of overlapping attempts, as long as none of them failed.
THEOREM BroadcastIsEnabled == Spec => []EnabledOnceBroadcast
<1>1. BroadcastInv => EnabledOnceBroadcast
  BY DEF BroadcastInv, EnabledOnceBroadcast, ReservationInStep, NotPending
<1>. QED
  BY BroadcastInvariant, <1>1, PTL

-----------------------------------------------------------------------------
(* A caller that starts an attempt only when nothing runs, over storage    *)
(* that does not fail.                                                     *)

Careful == Serial = TRUE /\ {"store", "timeout"} \cap Faults = {}

\* What the parts of a payment do to the commitments.
SameSides(d, c) == d.local = c.local /\ d.remote = c.remote

LEMMA PartSides ==
  ASSUME NEW c \in Channels, NEW t \in Pay, NEW b \in Pay \cup {None}
  PROVE  /\ WithRemoteNext(c).local = c.local
         /\ WithRemoteNext(c).remote = Commitment(c.height + 1, c.paid)
         /\ WithLocalNext(c).local = Commitment(c.height + 1, c.paid)
         /\ WithLocalNext(c).remote = c.remote
         /\ SameSides(Stored(c), c) /\ Stored(c).busy = None
         /\ SameSides([c EXCEPT !.busy = b], c)
         /\ SameSides(WithPayment(c, t), c)
         /\ SameSides(Enabled(c, t), c) /\ Enabled(c, t).busy = c.busy
BY DEF SameSides, WithRemoteNext, WithLocalNext, Stored, WithPayment, Enabled, Channels

LEMMA AdvancedSides ==
  ASSUME NEW c \in Channels
  PROVE  SameSides(Advanced(c), c) /\ Advanced(c).busy = None
<1>1. ASSUME NEW n
      PROVE  /\ SameSides([c EXCEPT !.height = n, !.busy = None], c)
             /\ [c EXCEPT !.height = n, !.busy = None].busy = None
  BY DEF Channels, SameSides
<1>. QED
  BY <1>1 DEF Advanced

\* A channel that is busy for nobody is stored as it is.
LEMMA StoredIsSame ==
  ASSUME NEW c \in Channels, c.busy = None
  PROVE  Stored(c) = c
BY DEF Stored, Channels

\* A commitment is its height and its balance.
LEMMA CommitmentIs ==
  ASSUME NEW w \in Commitments
  PROVE  w = Commitment(w.height, w.paid)
BY DEF Commitment, Commitments

Busy(p) == att[p].st \in Active \cup {"wait"}
OnlyOpen(p) == \A q \in Pay \ {p} : ~Open(q)
Mine(p) == Change(p) /\ Request(p) /\ PastWatched(p) /\ Seen(p)

\* The attempt that runs is alone, and its object is the one in the map.
LEMMA BusyFacts ==
  ASSUME TypeOK, SerialInv, NEW p \in Pay, Busy(p)
  PROVE  /\ OnlyOpen(p) /\ att[p].obj = chanMap /\ ObjOf(p) = heap[chanMap]
         /\ \A q \in Pay \ {p} : ~Busy(q) /\ ~Touches(q)
         /\ att[p].st \in {"wait", "req"} => heap[chanMap] = dbChan
         /\ ~At(p, "dead") /\ ~At(p, "idle")
         /\ att[p].old \in 1 .. nobj
         /\ Mine(p)
<1>1. Mine(p) /\ att[p].obj = chanMap
  BY DEF SerialInv, Mine, Request, Busy
<1>2. OnlyOpen(p)
  BY DEF SerialInv, OneOpen, Open, Busy, OnlyOpen
<1>3. \A q \in Pay \ {p} : ~Busy(q) /\ ~Touches(q)
  BY <1>2 DEF OnlyOpen, Open, Busy, Touches
<1>4. ASSUME att[p].st \in {"wait", "req"}
      PROVE  heap[chanMap] = dbChan
  <2>1. ~Touches(p)
    BY <1>1, <1>4 DEF Mine, Seen, Touches, Active
  <2>. QED
    BY <1>3, <2>1 DEF SerialInv, MapIsDisk
<1>5. ~At(p, "dead") /\ ~At(p, "idle") /\ att[p].old \in 1 .. nobj
  BY InUse DEF At, Busy, Active
<1>. QED
  BY <1>1, <1>2, <1>3, <1>4, <1>5 DEF ObjOf

\* Whoever is alone stays alone while only it moves.
LEMMA OnlyOpenNext ==
  ASSUME NEW p \in Pay, OnlyOpen(p),
         \A q \in Pay \ {p} : att'[q] = att[q] /\ resv'[q] = resv[q],
         listed' \subseteq listed \cup {p},
         \A a \in Actors : run'[a].st = "off" \/ run'[a] = run[a] \/ run'[a].pay = p
  PROVE  OnlyOpen(p)' /\ OneOpen'
<1>1. ASSUME NEW q \in Pay \ {p}, Open(q)'
      PROVE  FALSE
  <2>1. att'[q] = att[q] /\ resv'[q] = resv[q] /\ ~Open(q)
    BY DEF OnlyOpen
  <2>2. ~\E a \in Actors : run'[a].st # "off" /\ run'[a].pay = q
    BY <2>1 DEF Open
  <2>. QED
    BY <1>1, <2>1, <2>2 DEF Open
<1>. QED
  BY <1>1 DEF OnlyOpen, OneOpen

\* A step of the attempt that is alone keeps what is known of the others.
LEMMA OthersKeep ==
  ASSUME TypeOK, TypeOK', SerialInv, NEW p \in Pay, OnlyOpen(p),
         \A q \in Pay \ {p} : att'[q] = att[q] /\ resv'[q] = resv[q],
         listed' \subseteq listed \cup {p},
         \A x \in 1 .. nobj : x # chanMap => heap'[x] = heap[x],
         chanMap' = chanMap \/ (HasFallBack(p) /\ chanMap' = att[p].old),
         HasFallBack(p)' =>
           att'[p].old = nobj + 1 \/ (HasFallBack(p) /\ att'[p].old = att[p].old),
         \A w \in tower : w.height < dbChan.height => w \in tower',
         dbChan.height <= dbChan'.height,
         \A q \in dbChan'.paid \ dbChan.paid : q = p \/ At(q, "done") \/ At(q, "dead"),
         \A q \in onL2' \ onL2 : q = p \/ Told(q) \/ At(q, "dead"),
         NEW q \in Pay \ {p}
  PROVE  Mine(q)' /\ ~Touches(q)' /\ ~Busy(q)
<1>1. /\ att'[q] = att[q] /\ resv'[q] = resv[q] /\ (q \in listed' => q \in listed)
      /\ ~Open(q) /\ Mine(q) /\ ~Busy(q) /\ ~Busy(q)'
  BY DEF OnlyOpen, SerialInv, Mine, Open, Busy
<1>2. ~Touches(q)' /\ Change(q)' /\ ~HasFallBack(q)'
  BY <1>1 DEF Open, Busy, Touches, Change, HasFallBack
<1>3. Request(q)'
  BY <1>1, <1>2 DEF Mine, Request, Busy, At, Active
<1>4. Seen(q)'
  BY <1>1 DEF Mine, Seen, Told, At, Busy, Active
<1>5. PastWatched(q)'
  <2>1. CASE att[q].st # "done"
    BY <1>1, <2>1 DEF PastWatched, Busy, Active, At
  <2>2. CASE att[q].st = "done"
    <3>1. PICK o \in 1 .. nobj : o = att[q].old
      BY InUse
    <3>2. PICK w : w = heap[o].remote
      OBVIOUS
    <3>3. /\ o # chanMap /\ w \in tower /\ w.height < dbChan.height
          /\ HasFallBack(p) => att[p].old # o
          /\ att[q].punish
      <4>1. PastWatched(q) /\ At(q, "done") /\ att[q].old = o
        BY <1>1, <2>2, <3>1 DEF Mine, At
      <4>2. att[q].punish /\ heap[o].remote \in tower
        BY <4>1 DEF PastWatched, At
      <4>3. /\ heap[o].remote.height < dbChan.height /\ o # chanMap
            /\ \A r \in Pay : HasFallBack(r) => att[r].old # o
        BY <4>1 DEF PastWatched
      <4>. QED
        BY <3>2, <4>2, <4>3
    <3>4. heap'[o] = heap[o] /\ att'[q].old = o /\ w \in tower' /\ o # chanMap'
      BY <1>1, <3>1, <3>3
    <3>5. w.height < dbChan'.height
      <4>1. w.height \in Nat /\ dbChan.height \in Nat /\ dbChan'.height \in Nat
        BY <3>3, MapType DEF TypeOK, Commitments, Channels
      <4>. QED
        BY <3>3, <4>1
    <3>6. \A r \in Pay : HasFallBack(r)' => att'[r].old # o
      <4>1. HasFallBack(p)' => att'[p].old # o
        BY <3>1, <3>3, InUse
      <4>2. \A r \in Pay \ {p} : ~HasFallBack(r)'
        BY DEF OnlyOpen, Open, HasFallBack, At
      <4>. QED
        BY <4>1, <4>2
    <3>. QED
      BY <1>1, <2>2, <3>2, <3>3, <3>4, <3>5, <3>6 DEF PastWatched, At
  <2>. QED
    BY <2>1, <2>2
<1>. QED
  BY <1>1, <1>2, <1>3, <1>4, <1>5 DEF Mine

\* What the tower and the peer may be ahead by, while p runs.
LEMMA BusyBehind ==
  ASSUME TypeOK, SerialInv, NEW p \in Pay, Busy(p), UndoneInTime
  PROVE  /\ \/ \A w \in tower : w.height < dbChan.height
            \/ att[p].st \in Active /\ att[p].punish
         /\ dbChan.height = peer.height \/ att[p].st \in {"commit", "listed", "saved"}
<1>1. \A q \in Pay : att[q].st \in Active => q = p
  BY BusyFacts DEF Busy
<1>. QED
  BY <1>1 DEF SerialInv, TowerBehind, PeerLevel, Active

\* A step of the attempt that runs.
LEMMA StepKeeps ==
  ASSUME TypeOK, TypeOK', SerialInv, NEW p \in Pay, Busy(p),
         \A q \in Pay \ {p} : att'[q] = att[q] /\ resv'[q] = resv[q],
         att'[p].kind = att[p].kind,
         Told(p) => Told(p)' /\ chanMap' = chanMap,
         listed' \subseteq listed \cup {p},
         \A a \in Actors : run'[a] = run[a] \/ (run'[a].pay = p /\ Handles(a)'),
         \A x \in 1 .. nobj : x # chanMap => heap'[x] = heap[x],
         chanMap' = chanMap \/ (HasFallBack(p) /\ chanMap' = att[p].old),
         HasFallBack(p)' =>
           att'[p].old = nobj + 1 \/ (HasFallBack(p) /\ att'[p].old = att[p].old),
         \A w \in tower : w.height < dbChan.height => w \in tower',
         dbChan.height <= dbChan'.height,
         \A q \in dbChan'.paid \ dbChan.paid : q = p \/ At(q, "done") \/ At(q, "dead"),
         \A q \in onL2' \ onL2 : q = p \/ Told(q) \/ At(q, "dead"),
         onL2 \subseteq onL2', UNCHANGED confirmed,
         DiskWhole', Mine(p)',
         ~Touches(p)' => heap'[chanMap'] = dbChan',
         \A w \in tower' : w.height <= dbChan'.height,
         UndoneInTime /\ UndoneInTime' =>
           \/ \A w \in tower' : w.height < dbChan'.height
           \/ att'[p].st \in Active /\ att'[p].punish,
         UndoneInTime /\ UndoneInTime' =>
           dbChan'.height = peer'.height \/ att'[p].st \in {"commit", "listed", "saved"}
  PROVE  SerialInv'
<1>0. OnlyOpen(p) /\ ~At(p, "dead")
  BY BusyFacts
<1>1. OneOpen'
  BY <1>0, OnlyOpenNext
<1>2. \A q \in Pay \ {p} : Mine(q)' /\ ~Touches(q)'
  BY <1>0, OthersKeep
<1>3. MapIsDisk'
  BY <1>2 DEF MapIsDisk
<1>4. UndoneInTime' => UndoneInTime
  BY <1>0 DEF UndoneInTime, At
<1>5. TowerBehind' /\ PeerLevel'
  BY <1>4 DEF TowerBehind, PeerLevel
<1>6. ASSUME NEW a \in Actors, run'[a] = run[a]
      PROVE  Handles(a)'
  <2>1. CASE run[a].st = "off"
    BY <1>6, <2>1 DEF Handles
  <2>2. CASE run[a].st # "off"
    <3>1. run[a].pay \in Pay /\ Open(run[a].pay)
      BY <2>2 DEF Open, TypeOK
    <3>2. run[a].pay = p
      BY <1>0, <3>1 DEF OnlyOpen
    <3>3. Handles(a)
      BY DEF SerialInv
    <3>. QED
      BY <1>6, <2>2, <3>2, <3>3 DEF Handles
  <2>. QED
    BY <2>1, <2>2
<1>7. confirmed' \subseteq onL2'
  BY DEF SerialInv
<1>8. \A q \in Pay : Mine(q)'
  BY <1>2
<1>. QED
  BY <1>1, <1>3, <1>5, <1>6, <1>7, <1>8 DEF SerialInv, Mine

\* The caller starts an attempt when nothing runs.
LEMMA FetchSerial ==
  ASSUME TypeOK, TypeOK', Careful, SerialInv, NEW p \in Pay, NEW k \in Kinds, NEW t \in Pay,
         Fetch(p, k, t)
  PROVE  SerialInv'
<1> USE DEF mem, disk, book, net
<1>1. /\ att[p].st = "idle" /\ att'[p].st = "wait" /\ att'[p].obj = chanMap /\ att'[p].kind = k
      /\ att'[p].tx = t /\ \A q \in Pay \ {p} : att'[q] = att[q]
  BY AttemptType DEF Fetch, At, TypeOK, Attempts
<1>2. UNCHANGED <<heap, nobj, chanMap, dbChan, resv, listed, run, tower, peer, onL2, confirmed>>
  BY DEF Fetch
<1>3. /\ k = "recover" => t \in confirmed
      /\ k # "recover" => t = p
  BY DEF Fetch
<1>4. Quiet
  BY DEF Fetch, Careful
<1>5. \A q \in Pay : ~Open(q)
  BY <1>4 DEF Quiet, Open, Active
<1>6. OnlyOpen(p)
  BY <1>5 DEF OnlyOpen
<1>7. OneOpen'
  BY <1>1, <1>2, <1>6, OnlyOpenNext
<1>8. ~HasFallBack(p)' /\ ~Touches(p)' /\ Change(p)'
  <2>1. ~Touches(p)
    BY <1>5 DEF Open, Touches, Active
  <2>. QED
    BY <1>1, <1>2, <2>1 DEF HasFallBack, Touches, Change, Active
<1>9. Mine(p)'
  <2>1. Seen(p)
    BY DEF SerialInv
  <2>2. Seen(p)'
    BY <1>1, <1>2, <2>1 DEF Seen, At, Told, Active
  <2>3. Request(p)'
    BY <1>1, <1>2, <1>3, <1>8 DEF Request, At, Active
  <2>4. PastWatched(p)'
    BY <1>1 DEF PastWatched, At
  <2>. QED
    BY <1>8, <2>2, <2>3, <2>4 DEF Mine
<1>10. \A q \in Pay \ {p} : Mine(q)' /\ ~Touches(q)'
  <2>1. dbChan.height <= dbChan'.height
    BY <1>2, MapType
  <2>. QED
    BY <1>1, <1>2, <1>6, <1>8, <2>1, OthersKeep
<1>11. heap[chanMap] = dbChan
  BY <1>5 DEF SerialInv, MapIsDisk, Open, Touches
<1>12. UndoneInTime' => UndoneInTime
  BY <1>1 DEF UndoneInTime, At
<1>13. \A q \in Pay : att[q].st \notin Active
  BY <1>5 DEF Open
<1>14. TowerBehind' /\ PeerLevel'
  BY <1>2, <1>12, <1>13 DEF SerialInv, TowerBehind, PeerLevel, Active
<1>15. \A a \in Actors : Handles(a)'
  BY <1>2, <1>4 DEF Quiet, Handles
<1>16. DiskWhole' /\ MapIsDisk' /\ confirmed' \subseteq onL2'
  BY <1>2, <1>11 DEF SerialInv, DiskWhole, MapIsDisk
<1>17. \A q \in Pay : Mine(q)'
  BY <1>9, <1>10
<1>. QED
  BY <1>7, <1>14, <1>15, <1>16, <1>17 DEF SerialInv, Mine

\* It takes the mutex, and reads the object to fall back on from disk.
LEMMA AcquireSerial ==
  ASSUME TypeOK, TypeOK', SerialInv, NEW p \in Pay, Acquire(p) \/ AcquireRecover(p)
  PROVE  SerialInv'
<1> USE DEF mem, disk, book, net
<1>0. att[p].st = "wait" /\ Busy(p)
  BY DEF Acquire, AcquireRecover, At, Busy
<1>1. /\ att[p].obj = chanMap /\ heap[chanMap] = dbChan /\ Mine(p) /\ DiskWhole
      /\ dbChan.busy = None /\ ObjOf(p) = heap[chanMap]
  BY <1>0, BusyFacts DEF SerialInv, DiskWhole
<1>2. /\ att'[p].st = "req" /\ att'[p].obj = att[p].obj /\ att'[p].kind = att[p].kind
      /\ att'[p].tx = att[p].tx /\ att'[p].punish = att[p].punish
      /\ \A q \in Pay \ {p} : att'[q] = att[q]
      /\ att[p].kind # "recover" => att'[p].old = nobj + 1 /\ heap'[nobj + 1] = dbChan
  <2>1. CASE Acquire(p)
    <3>1. heap'[nobj + 1] = dbChan
      BY <2>1, NewObjectType DEF Acquire, TypeOK
    <3>. QED
      BY <2>1, <3>1, AttemptType DEF Acquire, At, TypeOK, Attempts
  <2>2. CASE AcquireRecover(p)
    BY <1>1, <2>2, MoveAll DEF AcquireRecover, At
  <2>. QED
    BY <2>1, <2>2
<1>3. /\ UNCHANGED <<chanMap, dbChan, resv, listed, run, tower, peer, onL2, confirmed>>
      /\ \A x \in 1 .. nobj : heap'[x] = heap[x]
      /\ chanMap \in 1 .. nobj /\ nobj + 1 # chanMap
  BY MapType, InUse DEF Acquire, AcquireRecover, TypeOK
<1>4. Change(p)' /\ PastWatched(p)' /\ Seen(p)'
  BY <1>0, <1>1, <1>2, <1>3 DEF Mine, Change, PastWatched, Seen, At, Told, Active
<1>5. Request(p)'
  BY <1>0, <1>1, <1>2, <1>3 DEF Mine, Request, HasFallBack, At, Active
<1>6. ~Told(p) /\ ~HasFallBack(p) /\ (HasFallBack(p)' => att'[p].old = nobj + 1)
  BY <1>0, <1>2 DEF Told, HasFallBack, At, Active
<1>7. DiskWhole' /\ heap'[chanMap'] = dbChan' /\ dbChan.height <= dbChan'.height
  BY <1>1, <1>3, MapType DEF DiskWhole
<1>8. \A w \in tower' : w.height <= dbChan'.height
  BY <1>3 DEF SerialInv, TowerBehind
<1>9. UndoneInTime => /\ \/ \A w \in tower' : w.height < dbChan'.height
                         \/ att'[p].st \in Active /\ att'[p].punish
                      /\ dbChan'.height = peer'.height
  BY <1>0, <1>2, <1>3, BusyBehind DEF Active
<1>10. Mine(p)'
  BY <1>4, <1>5 DEF Mine
<1>. QED
  BY <1>0, <1>2, <1>3, <1>6, <1>7, <1>8, <1>9, <1>10, StepKeeps

\* The channel an attempt starts from stands where the peer stands.
LEMMA FromDisk ==
  ASSUME TypeOK, SerialInv, PeerAgrees(dbChan)
  PROVE  peer = Commitment(dbChan.height, dbChan.paid)
<1>1. peer \in Commitments
  BY DEF TypeOK
<1>. QED
  BY <1>1, CommitmentIs DEF SerialInv, DiskWhole, PeerAgrees

\* The channel with a payment and the next commitments of one or both sides.
Carries(d, c, t) ==
  /\ d.height = c.height /\ d.paid = c.paid \cup {t} /\ d.pending = c.pending \cup {t}
  /\ d.remote = Commitment(c.height + 1, c.paid \cup {t})

Unlocks(c, t, b) == WithRemoteNext(WithPayment([c EXCEPT !.busy = b], t))
Locks(c, t, b) == WithRemoteNext(WithLocalNext([WithPayment(c, t) EXCEPT !.busy = b]))

LEMMA CarriesPayment ==
  ASSUME NEW c \in Channels, NEW t \in Pay, NEW b \in Pay \cup {None}
  PROVE  /\ Unlocks(c, t, b) \in Channels /\ Carries(Unlocks(c, t, b), c, t)
         /\ Locks(c, t, b) \in Channels /\ Carries(Locks(c, t, b), c, t)
         /\ Locks(c, t, b).local = Commitment(c.height + 1, c.paid \cup {t})
<1> DEFINE e == [c EXCEPT !.busy = b]
           f == WithPayment(e, t)
           g == WithPayment(c, t)
           h == [g EXCEPT !.busy = b]
           l == WithLocalNext(h)
<1>1. e \in Channels /\ Same(e, c)
  BY BusyType, PartFields
<1>2. g \in Channels /\ g.height = c.height /\ g.paid = c.paid \cup {t}
      /\ g.pending = c.pending \cup {t}
  BY WithPaymentType, PartFields
<1> HIDE DEF e, g
<1>3. f \in Channels /\ f.height = c.height /\ f.paid = c.paid \cup {t}
      /\ f.pending = c.pending \cup {t}
  BY <1>1, WithPaymentType, PartFields DEF Same
<1>4. h \in Channels /\ Same(h, g)
  BY <1>2, BusyType, PartFields
<1> HIDE DEF f, h
<1>5. l \in Channels /\ Same(l, h) /\ l.local = Commitment(h.height + 1, h.paid)
  BY <1>4, WithLocalNextType, PartFields
<1> HIDE DEF l
<1>6. ASSUME NEW w \in Channels
      PROVE  /\ WithRemoteNext(w) \in Channels /\ Same(WithRemoteNext(w), w)
             /\ WithRemoteNext(w).local = w.local
             /\ WithRemoteNext(w).remote = Commitment(w.height + 1, w.paid)
  BY WithRemoteNextType, PartFields, PartSides
<1>7. WithRemoteNext(f) \in Channels /\ Carries(WithRemoteNext(f), c, t)
  BY <1>3, <1>6 DEF Carries, Same
<1>8. /\ WithRemoteNext(l) \in Channels /\ Carries(WithRemoteNext(l), c, t)
      /\ WithRemoteNext(l).local = Commitment(c.height + 1, c.paid \cup {t})
  BY <1>2, <1>4, <1>5, <1>6 DEF Carries, Same
<1>. QED
  BY <1>7, <1>8 DEF Unlocks, Locks, e, f, g, h, l

\* The attempt changes its object.
LEMMA RequestSerial ==
  ASSUME TypeOK, TypeOK', SerialInv, NEW p \in Pay,
         UnlockRequest(p) \/ LockRequest(p) \/ RecoverRequest(p)
  PROVE  SerialInv'
<1> USE DEF mem, disk, book, net
<1> DEFINE t == att[p].tx
           next == Commitment(dbChan.height + 1, dbChan.paid \cup {t})
<1>0. att[p].st = "req" /\ Busy(p)
  BY DEF UnlockRequest, LockRequest, RecoverRequest, At, Busy, Active
<1>1. /\ att[p].obj = chanMap /\ heap[chanMap] = dbChan /\ Mine(p) /\ DiskWhole
      /\ ObjOf(p) = dbChan /\ t \in Pay
      /\ dbChan \in Channels /\ p \in Pay \cup {None}
      /\ chanMap \in 1 .. nobj /\ nobj + 1 # chanMap /\ chanMap \in Objects
  BY <1>0, BusyFacts, MapType, InUse, AttemptType DEF SerialInv
<1>2. /\ t \notin dbChan.paid /\ (att[p].kind # "recover" => t = p)
      /\ p \notin dbChan.paid /\ p \notin listed /\ p \notin onL2
  <2>1. /\ att[p].kind # "recover" => t = p
        /\ p \notin dbChan.paid /\ p \notin listed /\ p \notin onL2
    BY <1>0, <1>1 DEF Mine, Request, Seen, At, Told
  <2>2. RecoverRequest(p) => t \notin dbChan.paid
    BY <1>1 DEF RecoverRequest, SpendsCurrent
  <2>. QED
    BY <2>1, <2>2 DEF UnlockRequest, LockRequest, At
<1>3. PICK d \in Channels : /\ heap'[chanMap] = d /\ Carries(d, dbChan, t)
                            /\ LockRequest(p) => d.local = next
                            /\ PeerAgrees(dbChan)
  <2>1. CASE UnlockRequest(p)
    <3>1. t = p /\ PeerAgrees(dbChan)
      BY <1>1, <1>2, <2>1 DEF UnlockRequest
    <3>2. PICK d \in Channels : d = Unlocks(dbChan, t, p) /\ Carries(d, dbChan, t)
      BY <1>1, CarriesPayment
    <3>3. heap' = [heap EXCEPT ![chanMap] = d] /\ ~LockRequest(p)
      BY <1>1, <2>1, <3>1, <3>2 DEF UnlockRequest, LockRequest, Unlocks
    <3>. QED
      BY <1>1, <3>1, <3>2, <3>3 DEF TypeOK
  <2>2. CASE RecoverRequest(p)
    <3>1. PeerAgrees(dbChan)
      BY <1>1, <2>2 DEF RecoverRequest
    <3>2. PICK d \in Channels : d = Unlocks(dbChan, t, p) /\ Carries(d, dbChan, t)
      BY <1>1, CarriesPayment
    <3>3. heap' = [heap EXCEPT ![nobj + 1] = dbChan, ![chanMap] = d] /\ ~LockRequest(p)
      BY <1>1, <2>2, <3>2 DEF RecoverRequest, LockRequest, Unlocks
    <3>. QED
      BY <1>1, <3>1, <3>2, <3>3 DEF TypeOK
  <2>3. CASE LockRequest(p)
    <3>1. t = p /\ PeerSigns(WithPayment(dbChan, p), p)
      BY <1>1, <1>2, <2>3 DEF LockRequest
    <3>2. PICK d \in Channels : d = Locks(dbChan, t, p)
      BY <1>1, CarriesPayment
    <3>3. Carries(d, dbChan, t) /\ d.local = next
      BY <1>1, <3>2, CarriesPayment
    <3>4. heap' = [heap EXCEPT ![chanMap] = d]
      BY <1>1, <2>3, <3>1, <3>2 DEF LockRequest, Locks
    <3>5. PeerAgrees(dbChan)
      BY <1>1, <3>1, PartFields DEF PeerSigns, PeerAgrees
    <3>. QED
      BY <1>1, <3>3, <3>4, <3>5 DEF TypeOK
  <2>. QED
    BY <2>1, <2>2, <2>3
<1>31. /\ d.height = dbChan.height /\ d.paid = dbChan.paid \cup {t}
       /\ d.pending = dbChan.pending \cup {t} /\ d.remote = next
  BY <1>3 DEF Carries
<1>4. /\ att'[p].obj = att[p].obj /\ att'[p].kind = att[p].kind /\ att'[p].tx = t
      /\ \A q \in Pay \ {p} : att'[q] = att[q]
      /\ att'[p].punish = att[p].punish
      /\ IF RecoverRequest(p)
           THEN att'[p].st = "sign" /\ att'[p].old = nobj + 1 /\ att[p].kind = "recover"
           ELSE att'[p].old = att[p].old /\ att[p].kind # "recover"
      /\ IF LockRequest(p) THEN att'[p].st = "ack" /\ att'[p].kind = "lock"
                           ELSE att'[p].st = "sign"
  <2>1. CASE RecoverRequest(p)
    <3>1. /\ att' = [att EXCEPT ![p].st = "sign", ![p].old = nobj + 1]
          /\ att[p].kind = "recover" /\ ~LockRequest(p)
      BY <2>1 DEF RecoverRequest, LockRequest
    <3>. QED
      BY <2>1, <3>1, AttemptType DEF TypeOK, Attempts
  <2>2. CASE UnlockRequest(p)
    <3>1. Move(p, "sign") /\ att[p].kind = "unlock"
      BY <2>2 DEF UnlockRequest
    <3>2. ~RecoverRequest(p) /\ ~LockRequest(p)
      BY <3>1 DEF RecoverRequest, LockRequest
    <3>. QED
      BY <3>1, <3>2, MoveAll
  <2>3. CASE LockRequest(p)
    <3>1. Move(p, "ack") /\ att[p].kind = "lock"
      BY <2>3 DEF LockRequest
    <3>2. ~RecoverRequest(p)
      BY <3>1 DEF RecoverRequest
    <3>. QED
      BY <2>3, <3>1, <3>2, MoveAll
  <2>. QED
    BY <2>1, <2>2, <2>3
<1>5. /\ UNCHANGED <<chanMap, dbChan, run, tower, peer, onL2, confirmed>>
      /\ \A x \in 1 .. nobj : x # chanMap => heap'[x] = heap[x]
      /\ RecoverRequest(p) => heap'[nobj + 1] = dbChan
      /\ listed' \subseteq listed \cup {p}
      /\ \A q \in Pay \ {p} : resv'[q] = resv[q]
      /\ IF RecoverRequest(p) THEN p \in listed' /\ resv'[p] = "init" ELSE p \notin listed'
  <2>1. CASE RecoverRequest(p)
    <3>1. heap'[nobj + 1] = dbChan
      <4>1. nobj + 1 \in Objects
        BY <2>1, NewObjectType DEF RecoverRequest
      <4>. QED
        BY <1>1, <2>1, <4>1 DEF RecoverRequest, TypeOK
    <3>2. \A x \in 1 .. nobj : x # chanMap => heap'[x] = heap[x]
      BY <1>1, <2>1, InUse DEF RecoverRequest, TypeOK
    <3>3. /\ UNCHANGED <<chanMap, dbChan, run, tower, peer, onL2, confirmed>>
          /\ listed' = listed \cup {p} /\ resv' = [resv EXCEPT ![p] = "init"]
      BY <2>1 DEF RecoverRequest
    <3>. QED
      BY <2>1, <3>1, <3>2, <3>3 DEF TypeOK
  <2>2. CASE UnlockRequest(p) \/ LockRequest(p)
    <3>1. \A x \in 1 .. nobj : x # chanMap => heap'[x] = heap[x]
      BY <1>1, <2>2, InUse DEF UnlockRequest, LockRequest, TypeOK
    <3>2. UNCHANGED <<chanMap, dbChan, run, tower, peer, onL2, confirmed, listed, resv>>
          /\ ~RecoverRequest(p)
      BY <2>2 DEF UnlockRequest, LockRequest, RecoverRequest
    <3>. QED
      BY <1>2, <3>1, <3>2
  <2>. QED
    BY <2>1, <2>2
<1>6. peer = Commitment(dbChan.height, dbChan.paid)
  BY <1>3, FromDisk
<1>7. Change(p)'
  <2>1. ObjOf(p)' = d
    BY <1>1, <1>3, <1>4, <1>5 DEF ObjOf
  <2>2. LockRequest(p) \/ att'[p].st = "sign"
    BY <1>4
  <2>3. att'[p].st \in {"sign", "ack"}
    BY <1>4
  <2>. QED
    BY <1>2, <1>3, <1>31, <1>4, <1>5, <1>6, <2>1, <2>2, <2>3 DEF Change, At
<1>8. Request(p)'
  <2>1. heap'[att'[p].old] = dbChan /\ att'[p].old # chanMap
    <3>1. CASE RecoverRequest(p)
      BY <1>1, <1>4, <1>5, <3>1
    <3>2. CASE ~RecoverRequest(p)
      <4>1. HasFallBack(p)
        BY <1>0, <1>4, <3>2 DEF HasFallBack, At, Active
      <4>2. heap[att[p].old] = dbChan /\ att[p].old # chanMap
        BY <1>1, <4>1 DEF Mine, Request
      <4>. QED
        BY <1>4, <1>5, <3>2, <4>2, InUse
    <3>. QED
      BY <3>1, <3>2
  <2>2. att[p].kind = "recover" => t \in confirmed
    BY <1>0, <1>1 DEF Mine, Request, Active
  <2>. QED
    BY <1>1, <1>2, <1>4, <1>5, <2>1, <2>2 DEF Request, HasFallBack, At, Active
<1>9. PastWatched(p)'
  BY <1>4 DEF PastWatched, At
<1>10. Seen(p)'
  <2>1. RecoverRequest(p) => att'[p].kind = "recover"
    BY <1>4 DEF RecoverRequest
  <2>. QED
    BY <1>2, <1>4, <1>5, <2>1 DEF Seen, At
<1>11. Touches(p)' /\ ~Told(p)
  BY <1>0, <1>4 DEF Touches, Told, Active
<1>12. HasFallBack(p)' => att'[p].old = nobj + 1 \/ (HasFallBack(p) /\ att'[p].old = att[p].old)
  BY <1>0, <1>4 DEF HasFallBack, At, Active
<1>13. DiskWhole' /\ dbChan.height <= dbChan'.height
  BY <1>1, <1>5, MapType DEF DiskWhole
<1>14. \A w \in tower' : w.height <= dbChan'.height
  BY <1>5 DEF SerialInv, TowerBehind
<1>15. UndoneInTime => /\ \/ \A w \in tower' : w.height < dbChan'.height
                          \/ att[p].punish
                       /\ dbChan'.height = peer'.height
  BY <1>0, <1>5, BusyBehind
<1>17. Mine(p)' /\ att'[p].st \in Active
  BY <1>4, <1>7, <1>8, <1>9, <1>10 DEF Mine, Active
<1>. QED
  BY <1>0, <1>4, <1>5, <1>11, <1>12, <1>13, <1>14, <1>15, <1>17, StepKeeps

\* The peer signs, gives its old secret, and advances.
LEMMA ExchangeSerial ==
  ASSUME TypeOK, TypeOK', SerialInv, NEW p \in Pay,
         SignExchange(p) \/ UnlockAck(p) \/ LockAck(p) \/ LockFinish(p)
  PROVE  SerialInv'
<1> USE DEF mem, disk, book, net
<1> DEFINE c == heap[chanMap]
           next == Commitment(dbChan.height + 1, c.paid)
<1>0. att[p].st \in {"sign", "ack", "fin"} /\ Busy(p)
  BY DEF SignExchange, UnlockAck, LockAck, LockFinish, At, Busy, Active
<1>1. /\ att[p].obj = chanMap /\ Mine(p) /\ DiskWhole /\ ObjOf(p) = c
      /\ c \in Channels /\ chanMap \in 1 .. nobj /\ chanMap \in Objects
      /\ att[p].old \in 1 .. nobj /\ HasFallBack(p)
      /\ heap[att[p].old] = dbChan /\ att[p].old # chanMap
  <2>1. HasFallBack(p)
    BY <1>0 DEF HasFallBack, At, Active
  <2>2. Mine(p) /\ att[p].obj = chanMap /\ ObjOf(p) = c /\ att[p].old \in 1 .. nobj
    BY <1>0, BusyFacts
  <2>. QED
    BY <2>1, <2>2, MapType DEF SerialInv, Mine, Request
<1>2. /\ c.height = dbChan.height /\ c.paid = dbChan.paid \cup {att[p].tx}
      /\ c.pending = dbChan.pending \cup {att[p].tx} /\ att[p].tx \notin dbChan.paid
      /\ c.remote = next /\ (att[p].st # "sign" => c.local = next)
      /\ peer = Commitment(dbChan.height, dbChan.paid)
  BY <1>0, <1>1 DEF Mine, Change, At, Active
<1>3. /\ att'[p].obj = att[p].obj /\ att'[p].old = att[p].old /\ att'[p].tx = att[p].tx
      /\ att'[p].kind = att[p].kind /\ \A q \in Pay \ {p} : att'[q] = att[q]
      /\ IF SignExchange(p) \/ LockAck(p)
           THEN att'[p].punish /\ att'[p].st \in {"ack", "fin"}
           ELSE att'[p].punish = att[p].punish /\ att'[p].st = "commit"
  <2>1. CASE SignExchange(p) \/ LockAck(p)
    <3>1. PICK st \in {"ack", "fin"} : att' = [att EXCEPT ![p].st = st, ![p].punish = TRUE]
      BY <2>1 DEF SignExchange, LockAck
    <3>2. /\ att'[p] = [att[p] EXCEPT !.st = st, !.punish = TRUE] /\ att[p] \in Attempts
          /\ \A q \in Pay \ {p} : att'[q] = att[q]
      BY <3>1 DEF TypeOK
    <3>3. /\ att'[p].obj = att[p].obj /\ att'[p].old = att[p].old /\ att'[p].tx = att[p].tx
          /\ att'[p].kind = att[p].kind /\ att'[p].st = st /\ att'[p].punish = TRUE
      BY <3>2 DEF Attempts
    <3>. QED
      BY <2>1, <3>2, <3>3
  <2>2. CASE ~(SignExchange(p) \/ LockAck(p))
    BY <2>2, MoveAll DEF UnlockAck, LockFinish
  <2>. QED
    BY <2>1, <2>2
<1>31. /\ SignExchange(p) => att[p].st = "sign" /\ att'[p].st = "ack"
       /\ LockAck(p) => att[p].st = "ack" /\ att[p].kind = "lock" /\ att'[p].st = "fin"
       /\ UnlockAck(p) => att[p].st = "ack" /\ att[p].kind # "lock"
       /\ LockFinish(p) => att[p].st = "fin"
  BY AttemptType DEF SignExchange, LockAck, UnlockAck, LockFinish, At, TypeOK, Attempts
<1>4. UNCHANGED <<nobj, chanMap, dbChan, run, resv, listed, onL2, confirmed>>
  BY DEF SignExchange, UnlockAck, LockAck, LockFinish
<1>5. IF SignExchange(p) \/ LockAck(p)
        THEN tower' = tower \cup {dbChan.remote} /\ peer' = peer
        ELSE tower' = tower /\ peer' = next
  <2>1. CASE SignExchange(p) \/ LockAck(p)
    BY <1>1, <2>1 DEF SignExchange, LockAck, Watched
  <2>2. CASE ~(SignExchange(p) \/ LockAck(p))
    BY <1>1, <1>2, <2>2 DEF UnlockAck, LockFinish, PeerAdvanced
  <2>. QED
    BY <2>1, <2>2
<1>6. PICK d \in Channels : /\ heap'[chanMap] = d /\ Same(d, c) /\ d.remote = c.remote
                            /\ d.local = next
  <2>1. CASE SignExchange(p)
    <3>1. PICK d \in Channels : d = WithLocalNext(c) /\ Same(d, c) /\ d.remote = c.remote
                                /\ d.local = Commitment(c.height + 1, c.paid)
      BY <1>1, WithLocalNextType, PartFields, PartSides, ConstantTypes
    <3>2. heap'[chanMap] = d
      BY <1>1, <2>1, <3>1 DEF SignExchange, TypeOK
    <3>. QED
      BY <1>2, <3>1, <3>2
  <2>2. CASE ~SignExchange(p)
    <3>1. heap' = heap /\ att[p].st # "sign"
      BY <1>31, <2>2 DEF UnlockAck, LockAck, LockFinish
    <3>. QED
      BY <1>1, <1>2, <3>1 DEF Same
  <2>. QED
    BY <2>1, <2>2
<1>7. \A x \in 1 .. nobj : x # chanMap => heap'[x] = heap[x]
  BY <1>1, InUse DEF SignExchange, UnlockAck, LockAck, LockFinish, TypeOK
<1>8. Change(p)'
  <2>1. ObjOf(p)' = d
    BY <1>1, <1>3, <1>4, <1>6 DEF ObjOf
  <2>2. d.paid = c.paid /\ d.height = dbChan.height
    BY <1>2, <1>6 DEF Same
  <2>3. IF att'[p].st = "commit" THEN peer' = next
                                 ELSE peer' = Commitment(dbChan.height, dbChan.paid)
                                      /\ att'[p].st \in {"ack", "fin"}
    BY <1>2, <1>3, <1>5
  <2>. QED
    BY <1>2, <1>3, <1>4, <1>6, <2>1, <2>2, <2>3 DEF Change, Same
<1>9. heap'[att'[p].old] = dbChan
  BY <1>1, <1>3, <1>7
<1>10. Request(p)'
  BY <1>0, <1>1, <1>3, <1>31, <1>4, <1>9 DEF Mine, Request, HasFallBack, At, Active
<1>11. att'[p].punish /\ dbChan.remote \in tower'
  <2>1. CASE SignExchange(p) \/ LockAck(p)
    BY <1>3, <1>5, <2>1
  <2>2. CASE ~(SignExchange(p) \/ LockAck(p))
    <3>1. att[p].punish /\ heap[att[p].old].remote \in tower
      BY <1>1, <1>31, <2>2 DEF Mine, PastWatched, At
    <3>. QED
      BY <1>1, <1>3, <1>5, <2>2, <3>1
  <2>. QED
    BY <2>1, <2>2
<1>12. PastWatched(p)'
  BY <1>3, <1>9, <1>11 DEF PastWatched, At
<1>13. Seen(p)' /\ ~Told(p) /\ Touches(p)'
  BY <1>0, <1>1, <1>3, <1>4 DEF Mine, Seen, Told, Touches, At, Active
<1>14. Mine(p)'
  BY <1>8, <1>10, <1>12, <1>13 DEF Mine
<1>15. DiskWhole' /\ dbChan.height <= dbChan'.height
  <2>1. peer' = peer \/ peer'.height = dbChan.height + 1
    BY <1>5 DEF Commitment
  <2>2. dbChan.height \in Nat
    BY MapType
  <2>. QED
    BY <1>1, <1>4, <2>1, <2>2 DEF DiskWhole
<1>16. \A w \in tower' : w.height <= dbChan'.height
  <2>1. dbChan.remote.height = dbChan.height /\ dbChan.height \in Nat
    BY <1>1, MapType DEF DiskWhole, Commitment
  <2>. QED
    BY <1>4, <1>5, <2>1 DEF SerialInv, TowerBehind
<1>17. dbChan'.height = peer'.height \/ att'[p].st \in {"commit", "listed", "saved"}
  BY <1>2, <1>3, <1>4, <1>5 DEF Commitment
<1>18. att'[p].st \in Active /\ (HasFallBack(p)' => HasFallBack(p) /\ att'[p].old = att[p].old)
  BY <1>1, <1>3 DEF Active
<1>19. tower \subseteq tower'
  BY <1>5
<1>. QED
  BY <1>0, <1>3, <1>4, <1>7, <1>11, <1>13, <1>14, <1>15, <1>16, <1>17, <1>18, <1>19, StepKeeps

\* A reservation is listed, then saved.
LEMMA ReserveSerial ==
  ASSUME TypeOK, TypeOK', SerialInv, NEW p \in Pay, ListReservation(p) \/ SaveReservation(p)
  PROVE  SerialInv'
<1> USE DEF mem, disk, book, net
<1>0. att[p].st \in {"commit", "listed"} /\ Busy(p)
  BY DEF ListReservation, SaveReservation, At, Busy, Active
<1>1. Mine(p) /\ ObjOf(p) = heap[chanMap] /\ att[p].obj = chanMap
  BY <1>0, BusyFacts
<1>2. /\ att'[p].st \in {"listed", "saved"} /\ att'[p].obj = att[p].obj
      /\ att'[p].kind = att[p].kind /\ att'[p].tx = att[p].tx /\ att'[p].old = att[p].old
      /\ att'[p].punish = att[p].punish
      /\ \A q \in Pay \ {p} : att'[q] = att[q]
  BY MoveAll DEF ListReservation, SaveReservation
<1>3. /\ UNCHANGED <<heap, nobj, chanMap, dbChan, run, tower, peer, onL2, confirmed>>
      /\ \A q \in Pay \ {p} : resv'[q] = resv[q]
      /\ listed' \subseteq listed \cup {p}
      /\ att[p].kind # "recover"
      /\ resv'[p] = "started" \/ UNCHANGED <<resv, listed>>
  <2>1. CASE ListReservation(p)
    BY <2>1 DEF ListReservation, TypeOK
  <2>2. CASE SaveReservation(p)
    <3>1. att[p].st = "listed"
      BY <2>2 DEF SaveReservation, At
    <3>2. att[p].kind # "recover"
      BY <1>1, <3>1 DEF Mine, Request, At
    <3>. QED
      BY <2>2, <3>2 DEF SaveReservation
  <2>. QED
    BY <2>1, <2>2
<1>4. Change(p)'
  <2>1. ObjOf(p)' = ObjOf(p)
    BY <1>2, <1>3 DEF ObjOf
  <2>. QED
    BY <1>0, <1>1, <1>2, <1>3, <2>1 DEF Mine, Change, At, Active
<1>5. HasFallBack(p) /\ Told(p)' /\ Touches(p)' /\ att'[p].st \in Active
  BY <1>0, <1>2 DEF HasFallBack, Told, Touches, At, Active
<1>6. Request(p)'
  BY <1>0, <1>1, <1>2, <1>3, <1>5 DEF Mine, Request, HasFallBack, At, Active
<1>7. PastWatched(p)'
  <2>1. att[p].punish /\ heap[att[p].old].remote \in tower
    BY <1>0, <1>1 DEF Mine, PastWatched
  <2>. QED
    BY <1>2, <1>3, <2>1 DEF PastWatched, At
<1>8. Seen(p)'
  <2>1. Seen(p)
    BY <1>1 DEF Mine
  <2>. QED
    BY <1>0, <1>2, <1>3, <1>5, <2>1 DEF Seen, At, Told
<1>9. Mine(p)'
  BY <1>4, <1>6, <1>7, <1>8 DEF Mine
<1>10. DiskWhole' /\ dbChan.height <= dbChan'.height
  BY <1>3, MapType DEF SerialInv, DiskWhole
<1>11. \A w \in tower' : w.height <= dbChan'.height
  BY <1>3 DEF SerialInv, TowerBehind
<1>12. att'[p].punish
  BY <1>0, <1>1, <1>2 DEF Mine, PastWatched
<1>. QED
  BY <1>0, <1>2, <1>3, <1>5, <1>9, <1>10, <1>11, <1>12, StepKeeps

\* What a completed attempt leaves in the map and on disk.
LEMMA FinishFacts ==
  ASSUME TypeOK, Careful, SerialInv, NEW p \in Pay, Advance(p) \/ RecoverFinish(p)
  PROVE  /\ att[p].st \in {"commit", "saved"} /\ Busy(p)
         /\ heap'[chanMap] = dbChan'
         /\ att[p].tx \in Pay \ dbChan.paid
         /\ dbChan'.height = dbChan.height + 1
         /\ dbChan'.paid = dbChan.paid \cup {att[p].tx}
         /\ dbChan'.pending = IF Advance(p) THEN dbChan.pending \cup {att[p].tx}
                              ELSE dbChan.pending
         /\ dbChan'.busy = None
         /\ peer = Commitment(dbChan'.height, dbChan'.paid)
         /\ dbChan'.local = peer /\ dbChan'.remote = peer
<1> USE DEF mem, disk, book, net
<1> DEFINE c == heap[chanMap]
           t == att[p].tx
<1>0. att[p].st \in {"commit", "saved"} /\ Busy(p)
  BY DEF Advance, RecoverFinish, At, Busy, Active
<1>1. /\ att[p].obj = chanMap /\ Mine(p) /\ DiskWhole /\ ObjOf(p) = c /\ t \in Pay
      /\ c \in Channels /\ chanMap \in Objects
  BY <1>0, BusyFacts, MapType, AttemptType DEF SerialInv
<1>2. /\ c.height = dbChan.height /\ c.paid = dbChan.paid \cup {t}
      /\ c.pending = dbChan.pending \cup {t} /\ t \notin dbChan.paid
      /\ c.remote = peer /\ c.local = peer
      /\ peer = Commitment(dbChan.height + 1, c.paid)
  BY <1>0, <1>1 DEF Mine, Change, At, Active
<1>3. PICK e \in Channels : /\ e = IF Advance(p) THEN c ELSE Enabled(c, t)
                            /\ e.height = c.height /\ e.paid = c.paid
                            /\ e.local = c.local /\ e.remote = c.remote
                            /\ e.pending = IF Advance(p) THEN c.pending ELSE c.pending \ {t}
  <2>1. /\ Enabled(c, t) \in Channels
        /\ Enabled(c, t).height = c.height /\ Enabled(c, t).paid = c.paid
        /\ Enabled(c, t).local = c.local /\ Enabled(c, t).remote = c.remote
        /\ Enabled(c, t).pending = c.pending \ {t}
    <3>1. c \in Channels /\ t \in Pay /\ None \in Pay \cup {None}
      BY <1>1
    <3>. HIDE DEF c, t
    <3>. QED
      BY <3>1, EnabledType, PartFields, PartSides DEF SameSides
  <2>2. CASE Advance(p)
    BY <1>1, <2>2
  <2>3. CASE ~Advance(p)
    BY <2>1, <2>3
  <2>. QED
    BY <2>2, <2>3
<1>4. PICK d \in Channels : /\ d = Advanced(e) /\ d.busy = None /\ d.height = e.height + 1
                            /\ d.paid = e.paid /\ d.pending = e.pending
                            /\ d.local = e.local /\ d.remote = e.remote
  BY <1>3, AdvancedType, AdvancedFields, AdvancedSides DEF SameSides
<1>5. Stored(d) = d
  BY <1>4, StoredIsSame
<1>6. heap' = [heap EXCEPT ![chanMap] = d] /\ dbChan' = d
  <2>1. CASE Advance(p)
    <3>1. d = Advanced(c)
      BY <1>3, <1>4, <2>1
    <3>. QED
      BY <1>1, <1>5, <2>1, <3>1 DEF Advance, SaveAdvanced, Careful
  <2>2. CASE ~Advance(p)
    <3>1. RecoverFinish(p) /\ d = Advanced(Enabled(c, t))
      BY <1>3, <1>4, <2>2
    <3>. QED
      BY <1>1, <1>5, <3>1 DEF RecoverFinish
  <2>. QED
    BY <2>1, <2>2
<1>7. heap'[chanMap] = d
  BY <1>1, <1>6 DEF TypeOK
<1>8. (dbChan.pending \cup {t}) \ {t} = dbChan.pending
  BY <1>1, <1>2 DEF DiskWhole
<1>. QED
  BY <1>0, <1>1, <1>2, <1>3, <1>4, <1>6, <1>7, <1>8

\* The attempt is over: its object and the record have the next height.
LEMMA FinishSerial ==
  ASSUME TypeOK, TypeOK', Careful, SerialInv, NEW p \in Pay, Advance(p) \/ RecoverFinish(p)
  PROVE  SerialInv'
<1> USE DEF mem, disk, book, net
<1> DEFINE t == att[p].tx
<1>0. att[p].st \in {"commit", "saved"} /\ Busy(p) /\ Mine(p) /\ DiskWhole
      /\ att[p].obj = chanMap /\ OnlyOpen(p)
  BY FinishFacts, BusyFacts DEF SerialInv
<1>1. /\ heap'[chanMap] = dbChan' /\ t \in Pay \ dbChan.paid
      /\ dbChan'.height = dbChan.height + 1 /\ dbChan'.paid = dbChan.paid \cup {t}
      /\ dbChan'.pending \subseteq dbChan.pending \cup {t}
      /\ dbChan'.busy = None
      /\ peer = Commitment(dbChan'.height, dbChan'.paid)
      /\ dbChan'.local = peer /\ dbChan'.remote = peer
  BY FinishFacts
<1>2. /\ att'[p].st = "done" /\ att'[p].obj = att[p].obj /\ att'[p].kind = att[p].kind
      /\ att'[p].tx = t /\ att'[p].old = att[p].old /\ att'[p].punish = att[p].punish
      /\ \A q \in Pay \ {p} : att'[q] = att[q]
  BY MoveAll DEF Advance, RecoverFinish
<1>3. /\ UNCHANGED <<nobj, chanMap, tower, peer, onL2, confirmed>>
      /\ \A q \in Pay \ {p} : resv'[q] = resv[q]
      /\ listed' \subseteq listed
      /\ p \in listed' => resv'[p] = resv[p]
  BY DEF Advance, RecoverFinish, TypeOK
<1>4. \A x \in 1 .. nobj : x # chanMap => heap'[x] = heap[x]
  BY <1>0, InUse DEF Advance, RecoverFinish, TypeOK
<1>5. Told(p)' /\ Change(p)' /\ ~HasFallBack(p)'
  BY <1>2 DEF Told, Change, HasFallBack, Active
<1>6. ASSUME NEW a \in Actors
      PROVE  run'[a] = run[a] \/ (run'[a].pay = p /\ Handles(a)')
  <2>1. CASE Advance(p) /\ a = p
    <3>1. run'[a].pay = p /\ run'[a].st = "start"
      BY <2>1 DEF Advance, TypeOK
    <3>2. att[p].kind # "recover"
      BY <1>0, <2>1 DEF Advance, Mine, Request, At
    <3>. QED
      BY <1>2, <1>5, <3>1, <3>2 DEF Handles
  <2>2. CASE ~(Advance(p) /\ a = p)
    BY <2>2 DEF Advance, RecoverFinish, TypeOK
  <2>. QED
    BY <2>1, <2>2
<1>7. HasFallBack(p)
  BY <1>0 DEF HasFallBack, At, Active
<1>8. PICK o \in 1 .. nobj : o = att[p].old
  BY InUse
<1>9. heap[o] = dbChan /\ o # chanMap /\ dbChan.remote \in tower /\ att[p].punish
  BY <1>0, <1>7, <1>8 DEF Mine, Request, PastWatched
<1>10. heap'[o] = dbChan /\ dbChan.remote.height < dbChan'.height
  <2>1. dbChan.remote.height = dbChan.height /\ dbChan.height \in Nat
    BY <1>0, MapType DEF DiskWhole, Commitment
  <2>. QED
    BY <1>1, <1>4, <1>9, <2>1
<1>11. PastWatched(p)'
  <2>1. \A q \in Pay : ~HasFallBack(q)'
    <3>1. \A q \in Pay \ {p} : ~HasFallBack(q)'
      BY <1>0, <1>2 DEF OnlyOpen, Open, HasFallBack, At
    <3>. QED
      BY <1>5, <3>1
  <2>. QED
    BY <1>2, <1>3, <1>8, <1>9, <1>10, <2>1 DEF PastWatched, At
<1>12. Request(p)'
  BY <1>0, <1>2, <1>5 DEF Mine, Request, At, Active
<1>13. Seen(p)'
  BY <1>0, <1>2, <1>3, <1>5 DEF Mine, Seen, At, Active
<1>14. Mine(p)'
  BY <1>5, <1>11, <1>12, <1>13 DEF Mine
<1>15. DiskWhole'
  <2>1. dbChan'.pending \subseteq dbChan'.paid
    BY <1>0, <1>1 DEF DiskWhole
  <2>. QED
    BY <1>1, <1>3, <2>1 DEF DiskWhole, Commitment
<1>16. ASSUME NEW q \in dbChan'.paid \ dbChan.paid
       PROVE  q = p \/ At(q, "done") \/ At(q, "dead")
  <2>1. q = t
    BY <1>1
  <2>2. CASE att[p].kind # "recover"
    BY <1>0, <2>1, <2>2 DEF Mine, Request
  <2>3. CASE att[p].kind = "recover"
    <3>1. q \in Pay /\ q \in onL2
      BY <1>0, <1>1, <2>1, <2>3 DEF Mine, Request, Busy, SerialInv
    <3>2. Told(q) \/ At(q, "dead")
      BY <3>1 DEF SerialInv, Seen
    <3>3. q = p \/ att[q].st \notin Active
      BY <1>0, <3>1 DEF OnlyOpen, Open
    <3>. QED
      BY <3>2, <3>3 DEF Told, At, Active
  <2>. QED
    BY <2>2, <2>3
<1>17. dbChan.height <= dbChan'.height /\ \A w \in tower' : w.height < dbChan'.height
  <2>1. \A w \in tower : w.height \in Nat /\ w.height <= dbChan.height
    BY DEF TypeOK, Commitments, SerialInv, TowerBehind
  <2>2. dbChan.height \in Nat
    BY MapType
  <2>. QED
    BY <1>1, <1>3, <2>1, <2>2
<1>18. \A w \in tower' : w.height <= dbChan'.height
  <2>1. \A w \in tower' : w.height \in Nat
    BY DEF TypeOK, Commitments
  <2>2. dbChan'.height \in Nat
    BY <1>1, MapType
  <2>. QED
    BY <1>17, <2>1, <2>2
<1>19. dbChan'.height = peer'.height
  BY <1>1, <1>3 DEF Commitment
<1>. QED
  BY <1>0, <1>1, <1>2, <1>3, <1>4, <1>5, <1>6, <1>14, <1>15, <1>16, <1>17, <1>18, <1>19, StepKeeps

\* What an attempt that fails has made the peer and layer 2 do.
LEMMA FailFacts ==
  ASSUME TypeOK, Careful, SerialInv, NEW p \in Pay, Fails(p)
  PROVE  /\ att[p].st \in {"req", "sign", "ack", "fin", "commit"} /\ Busy(p) /\ ~Told(p)
         /\ peer' = peer \/ peer'.height = dbChan.height + 1
         /\ att[p].kind # "recover" /\ ~att[p].punish => peer' = peer
         /\ \A q \in onL2' \ onL2 : q = p
         /\ onL2 \subseteq onL2'
<1> USE DEF mem, disk, book, net
<1>1. att[p].st \in {"req", "sign", "ack", "fin", "commit"}
  BY DEF Fails, At, Careful
<1>2. Busy(p) /\ ~Told(p)
  BY <1>1 DEF Busy, Told, Active
<1>3. Mine(p) /\ ObjOf(p) = heap[chanMap] /\ confirmed \subseteq onL2
  BY <1>2, BusyFacts DEF SerialInv
<1>4. att[p].tx = p \/ att[p].tx \in onL2
  BY <1>2, <1>3 DEF Mine, Request, Busy
<1>5. CASE UNCHANGED <<peer, onL2>>
  BY <1>1, <1>2, <1>5
<1>6. CASE ~UNCHANGED <<peer, onL2>>
  <2>1. LateOutcome(p)
    BY <1>6 DEF Fails
  <2>2. /\ (At(p, "ack") /\ att[p].kind # "lock") \/ At(p, "fin")
        /\ \/ peer' = PeerAdvanced(ObjOf(p)) /\ onL2' = onL2
           \/ onL2' = onL2 \cup {att[p].tx} /\ peer' = peer
    BY <1>6, <2>1 DEF LateOutcome
  <2>3. att[p].punish
    BY <1>3, <2>2 DEF Mine, PastWatched, At
  <2>4. ObjOf(p).height = dbChan.height
    BY <1>3, <2>2 DEF Mine, Change, At, Active
  <2>5. peer' = peer \/ peer'.height = dbChan.height + 1
    BY <2>2, <2>4 DEF PeerAdvanced, Commitment
  <2>. QED
    BY <1>1, <1>2, <1>4, <2>2, <2>3, <2>5
<1>. QED
  BY <1>5, <1>6

\* An abandoned recovery stays what it is: listed, and not undone.
LEMMA AbandonSerial ==
  ASSUME TypeOK, TypeOK', Careful, SerialInv, NEW p \in Pay, RecoverAbandon(p)
  PROVE  SerialInv'
<1> USE DEF mem, disk, book, net
<1>2. /\ Busy(p) /\ ~Told(p) /\ (peer' = peer \/ peer'.height = dbChan.height + 1)
      /\ (\A q \in onL2' \ onL2 : q = p) /\ onL2 \subseteq onL2'
  <2>1. CASE Fails(p)
    BY <2>1, FailFacts
  <2>2. CASE ~Fails(p)
    <3>1. att[p].st = "req" /\ UNCHANGED <<peer, onL2>>
      BY <2>2 DEF RecoverAbandon, At
    <3>. QED
      BY <3>1 DEF Busy, Told, Active
  <2>. QED
    BY <2>1, <2>2
<1>3. Mine(p) /\ att[p].kind = "recover" /\ DiskWhole
  BY <1>2, BusyFacts DEF RecoverAbandon, SerialInv
<1>4. /\ att'[p].st = "dead" /\ att'[p].kind = "recover"
      /\ \A q \in Pay \ {p} : att'[q] = att[q]
  BY <1>3, MoveAll DEF RecoverAbandon
<1>5. UNCHANGED <<heap, nobj, chanMap, dbChan, resv, listed, run, confirmed>>
  BY DEF RecoverAbandon
<1>6. ~HasFallBack(p)' /\ ~UndoneInTime'
  BY <1>4 DEF HasFallBack, UndoneInTime, At, Active
<1>7. Mine(p)'
  <2>1. Change(p)' /\ Request(p)' /\ PastWatched(p)'
    BY <1>4, <1>6 DEF Change, Request, PastWatched, At, Active
  <2>2. Seen(p)'
    BY <1>3, <1>4, <1>5 DEF Mine, Seen, At, Active
  <2>. QED
    BY <2>1, <2>2 DEF Mine
<1>8. ~Touches(p)' => heap'[chanMap'] = dbChan'
  <2>1. CASE att[p].st \in {"wait", "req"}
    BY <1>2, <1>5, <2>1, BusyFacts
  <2>2. CASE att[p].st \notin {"wait", "req"}
    <3>1. p \in listed /\ resv[p] = "init"
      BY <1>2, <1>3, <2>2 DEF Mine, Seen, Busy
    <3>. QED
      BY <1>5, <3>1 DEF Touches
  <2>. QED
    BY <2>1, <2>2
<1>9. \A w \in tower' : w.height <= dbChan'.height
  <2>1. CASE tower' = tower
    BY <1>5, <2>1 DEF SerialInv, TowerBehind
  <2>2. CASE At(p, "sign") /\ tower' = Watched(p)
    <3>1. heap[att[p].old] = dbChan
      BY <1>3, <2>2 DEF Mine, Request, HasFallBack, At, Active
    <3>2. dbChan.remote.height <= dbChan.height
      BY <1>3, MapType DEF DiskWhole, Commitment
    <3>3. tower' = tower \cup {dbChan.remote}
      BY <2>2, <3>1 DEF Watched
    <3>. QED
      BY <1>5, <3>2, <3>3 DEF SerialInv, TowerBehind
  <2>. QED
    BY <2>1, <2>2 DEF RecoverAbandon
<1>10. tower \subseteq tower'
  BY DEF RecoverAbandon, Watched
<1>11. DiskWhole' /\ dbChan.height <= dbChan'.height
  <2>1. dbChan.height \in Nat
    BY MapType
  <2>. QED
    BY <1>2, <1>3, <1>5, <2>1 DEF DiskWhole
<1>. QED
  BY <1>2, <1>3, <1>4, <1>5, <1>6, <1>7, <1>8, <1>9, <1>10, <1>11, StepKeeps

\* A rollback puts the channel on disk back into the map.
LEMMA RollbackSerial ==
  ASSUME TypeOK, TypeOK', Careful, SerialInv, NEW p \in Pay, Rollback(p)
  PROVE  SerialInv'
<1> USE DEF mem, disk, book, net
<1>0. Fails(p) /\ att[p].kind # "recover"
  BY DEF Rollback
<1>1. /\ att[p].st \in {"req", "sign", "ack", "fin", "commit"} /\ Busy(p) /\ ~Told(p)
      /\ peer' = peer \/ peer'.height = dbChan.height + 1
      /\ ~att[p].punish => peer' = peer
      /\ \A q \in onL2' \ onL2 : q = p
      /\ onL2 \subseteq onL2'
  BY <1>0, FailFacts
<1>2. Mine(p) /\ att[p].obj = chanMap /\ DiskWhole /\ HasFallBack(p)
  BY <1>0, <1>1, BusyFacts DEF SerialInv, HasFallBack, At, Active
<1>3. PICK o \in 1 .. nobj : o = att[p].old
  BY InUse
<1>4. heap[o] = dbChan /\ o # chanMap
  BY <1>2, <1>3 DEF Mine, Request
<1>5. /\ att'[p].st = "dead" /\ att'[p].kind = att[p].kind /\ att'[p].tx = att[p].tx
      /\ att'[p].punish = att[p].punish
      /\ \A q \in Pay \ {p} : att'[q] = att[q]
  BY MoveAll DEF Rollback
<1>6. /\ UNCHANGED <<nobj, resv, run, confirmed>> /\ chanMap' = o /\ listed' = listed \ {p}
  BY <1>3 DEF Rollback
<1>7. dbChan' = dbChan
  BY <1>2, <1>3, <1>4, MapType, StoredIsSame DEF Rollback, FallBack, DiskWhole
<1>8. \A x \in 1 .. nobj : x # chanMap => heap'[x] = heap[x]
  <2>1. PICK h \in [Objects -> Channels] :
          h = (IF At(p, "req") /\ att[p].kind = "lock" THEN LockChange(p) ELSE heap)
    <3>1. LockChange(p) \in [Objects -> Channels]
      BY AttemptType, WithPaymentType DEF LockChange, ObjOf, TypeOK
    <3>. QED
      BY <3>1 DEF TypeOK
  <2>2. \A x \in 1 .. nobj : x # chanMap => h[x] = heap[x]
    BY <1>2, <2>1, InUse DEF LockChange, TypeOK
  <2>3. heap' = [h EXCEPT ![chanMap].busy = None]
    BY <1>2, <2>1 DEF Rollback
  <2>. QED
    BY <2>1, <2>2, <2>3, InUse
<1>9. heap'[chanMap'] = dbChan'
  BY <1>4, <1>6, <1>7, <1>8
<1>10. ~HasFallBack(p)' /\ Change(p)' /\ PastWatched(p)' /\ Request(p)'
  <2>1. att[p].tx = p
    BY <1>0, <1>2 DEF Mine, Request
  <2>. QED
    BY <1>0, <1>5, <2>1 DEF HasFallBack, Change, PastWatched, Request, At, Active
<1>11. Mine(p)'
  <2>1. Seen(p)'
    BY <1>0, <1>5, <1>6 DEF Seen, At, Active
  <2>. QED
    BY <1>10, <2>1 DEF Mine
<1>12. /\ tower' \subseteq tower
       /\ \A w \in tower : w.height < dbChan.height => w \in tower'
  <2>1. tower' = tower \/ tower' = tower \ {dbChan.remote}
    BY <1>3, <1>4 DEF Rollback, Unwatched
  <2>2. dbChan.remote.height = dbChan.height /\ dbChan.height \in Nat
    BY <1>2, MapType DEF DiskWhole, Commitment
  <2>. QED
    BY <2>1, <2>2
<1>13. \A w \in tower' : w.height <= dbChan'.height
  BY <1>7, <1>12 DEF SerialInv, TowerBehind
<1>14. UndoneInTime /\ UndoneInTime' => (\A w \in tower' : w.height < dbChan'.height)
                                        /\ dbChan'.height = peer'.height
  <2>1. SUFFICES ASSUME UndoneInTime, UndoneInTime'
                 PROVE  (\A w \in tower' : w.height < dbChan'.height)
                        /\ dbChan'.height = peer'.height
    OBVIOUS
  <2>2. ~att[p].punish
    BY <1>5, <2>1 DEF UndoneInTime, At
  <2>3. att[p].st \notin {"commit", "listed", "saved"}
    BY <1>2, <2>2 DEF Mine, PastWatched
  <2>4. (\A w \in tower : w.height < dbChan.height) /\ dbChan.height = peer.height
    BY <1>1, <2>1, <2>2, <2>3, BusyBehind
  <2>. QED
    BY <1>1, <1>7, <1>12, <2>2, <2>4
<1>15. DiskWhole' /\ dbChan.height <= dbChan'.height
  <2>1. dbChan.height \in Nat
    BY MapType
  <2>. QED
    BY <1>1, <1>2, <1>7, <2>1 DEF DiskWhole
<1>. QED
  BY <1>1, <1>2, <1>3, <1>5, <1>6, <1>7, <1>8, <1>9, <1>10, <1>11, <1>12, <1>13, <1>14, <1>15,
     StepKeeps

\* A step beside the attempts: of a handler, or of the monitor.
LEMMA BesideKeeps ==
  ASSUME TypeOK, TypeOK', SerialInv, NEW p \in Pay, OneOpen',
         UNCHANGED <<att, nobj, chanMap, tower, peer>>,
         ~(p \in listed /\ resv[p] = "init"),
         \A q \in Pay \ {p} : resv'[q] = resv[q],
         listed' \subseteq listed, listed \ {p} \subseteq listed',
         p \in listed' => resv'[p] # "init" /\ (resv'[p] = "started" => resv[p] = "started"),
         \A a \in Actors : run'[a] = run[a] \/ Handles(a)',
         onL2 \subseteq onL2', \A q \in onL2' \ onL2 : Told(q),
         UNCHANGED confirmed,
         dbChan'.height = dbChan.height, dbChan'.paid = dbChan.paid,
         SameSides(dbChan', dbChan),
         dbChan'.busy = None, dbChan'.pending \subseteq dbChan.pending,
         \A x \in 1 .. nobj : x # chanMap => heap'[x] = heap[x],
         UNCHANGED <<heap, dbChan>> \/ (heap'[chanMap] = dbChan' /\ \A q \in Pay : ~Busy(q))
  PROVE  SerialInv'
<1>1. ASSUME NEW q \in Pay
      PROVE  Seen(q)'
  <2>1. Seen(q) /\ att'[q] = att[q]
    BY DEF SerialInv
  <2>2. CASE q = p
    BY <2>1, <2>2 DEF Seen, At, Told
  <2>3. CASE q # p
    BY <2>1, <2>3 DEF Seen, At, Told
  <2>. QED
    BY <2>2, <2>3
<1>2. ASSUME NEW q \in Pay
      PROVE  Change(q)' /\ Request(q)' /\ PastWatched(q)'
  <2>0. att'[q] = att[q] /\ Change(q) /\ Request(q) /\ PastWatched(q)
    BY DEF SerialInv
  <2>1. CASE UNCHANGED <<heap, dbChan>>
    BY <2>0, <2>1 DEF Change, Request, PastWatched, HasFallBack, At, ObjOf
  <2>2. CASE \A r \in Pay : ~Busy(r)
    <3>1. att[q].st \notin Active \cup {"wait"} /\ \A r \in Pay : ~HasFallBack(r)'
      BY <2>2 DEF Busy, HasFallBack, At
    <3>2. Change(q)'
      BY <2>0, <3>1 DEF Change
    <3>3. Request(q)'
      BY <2>0, <3>1 DEF Request, At, Active
    <3>4. PastWatched(q)'
      <4>1. CASE att[q].st # "done"
        BY <2>0, <3>1, <4>1 DEF PastWatched, At, Active
      <4>2. CASE att[q].st = "done"
        <5>1. PICK o \in 1 .. nobj : o = att[q].old
          BY InUse
        <5>2. PICK w : w = heap[o].remote
          OBVIOUS
        <5>3. o # chanMap /\ w \in tower /\ w.height < dbChan.height /\ att[q].punish
          BY <2>0, <4>2, <5>1, <5>2 DEF PastWatched, At
        <5>4. heap'[o] = heap[o]
          BY <5>1, <5>3
        <5>. QED
          BY <2>0, <3>1, <4>2, <5>1, <5>2, <5>3, <5>4 DEF PastWatched, At
      <4>. QED
        BY <4>1, <4>2
    <3>. QED
      BY <3>2, <3>3, <3>4
  <2>. QED
    BY <2>1, <2>2
<1>3. MapIsDisk'
  <2>1. ASSUME NEW q \in Pay, Touches(q)
        PROVE  Touches(q)'
    BY <2>1 DEF Touches
  <2>. QED
    BY <2>1 DEF SerialInv, MapIsDisk
<1>4. TowerBehind' /\ PeerLevel'
  <2>1. UndoneInTime' => UndoneInTime
    BY DEF UndoneInTime, At
  <2>. QED
    BY <2>1 DEF SerialInv, TowerBehind, PeerLevel
<1>5. DiskWhole' /\ confirmed' \subseteq onL2'
  BY DEF SerialInv, DiskWhole, SameSides
<1>6. \A a \in Actors : Handles(a)'
  BY DEF SerialInv, Handles, Told
<1>. QED
  BY <1>1, <1>2, <1>3, <1>4, <1>5, <1>6 DEF SerialInv

\* What a handler works on.
LEMMA HandlerFacts ==
  ASSUME TypeOK, SerialInv, NEW a \in Actors, run[a].st # "off"
  PROVE  /\ run[a].pay \in Pay /\ OnlyOpen(run[a].pay) /\ Handles(a) /\ Told(run[a].pay)
         /\ att[run[a].pay].kind # "recover"
         /\ ~(run[a].pay \in listed /\ resv[run[a].pay] = "init")
<1>1. run[a].pay \in Pay
  BY DEF TypeOK
<1>2. Open(run[a].pay)
  BY DEF Open
<1>3. Handles(a) /\ att[run[a].pay].kind # "recover" /\ Told(run[a].pay)
  BY DEF SerialInv, Handles
<1>4. ~(run[a].pay \in listed /\ resv[run[a].pay] = "init")
  BY <1>1, <1>3 DEF SerialInv, Seen
<1>. QED
  BY <1>1, <1>2, <1>3, <1>4 DEF SerialInv, OneOpen, OnlyOpen

\* A payment is enabled when no attempt runs: the map is the disk, and both
\* lose it from what is pending.
LEMMA EnableFacts ==
  ASSUME TypeOK, ExchangeInv, SerialInv, NEW a \in Actors, EnableUtxo(a)
  PROVE  /\ \A q \in Pay : ~Busy(q)
         /\ heap[chanMap] = dbChan /\ run[a].obj = chanMap
         /\ heap'[chanMap] = dbChan'
         /\ \A x \in 1 .. nobj : x # chanMap => heap'[x] = heap[x]
         /\ dbChan'.height = dbChan.height /\ dbChan'.paid = dbChan.paid
         /\ dbChan'.pending = dbChan.pending \ {run[a].pay}
         /\ SameSides(dbChan', dbChan) /\ dbChan'.busy = None
<1> DEFINE p == run[a].pay
<1>1. /\ p \in Pay /\ OnlyOpen(p) /\ Told(p) /\ ~(p \in listed /\ resv[p] = "init")
      /\ run[a].obj = chanMap /\ lock[chanMap] = None
      /\ chanMap \in 1 .. nobj /\ chanMap \in Objects /\ dbChan \in Channels
      /\ DiskWhole
  BY HandlerFacts, MapType DEF EnableUtxo, Handles, Free, SerialInv
<1>2. ~Busy(p)
  <2>1. CASE att[p].st \in Active
    <3>1. att[p].obj = chanMap
      BY <1>1, <2>1 DEF SerialInv, Request
    <3>2. lock[chanMap] = p
      BY <1>1, <2>1, <3>1 DEF ExchangeInv, MutexHeld
    <3>. QED
      BY <1>1, <3>2, ConstantTypes
  <2>2. CASE att[p].st \notin Active
    BY <1>1, <2>2 DEF Told, Busy
  <2>. QED
    BY <2>1, <2>2
<1>3. \A q \in Pay : ~Busy(q) /\ ~Touches(q)
  <2>1. \A q \in Pay \ {p} : ~Busy(q) /\ ~Touches(q)
    BY <1>1 DEF OnlyOpen, Open, Busy, Touches
  <2>2. ~Touches(p)
    BY <1>1, <1>2 DEF Busy, Touches
  <2>. QED
    BY <1>2, <2>1, <2>2
<1>4. heap[chanMap] = dbChan
  BY <1>3 DEF SerialInv, MapIsDisk
<1>5. PICK c \in Channels :
        /\ c = Enabled(dbChan, p) /\ c.height = dbChan.height /\ c.paid = dbChan.paid
        /\ c.pending = dbChan.pending \ {p} /\ SameSides(c, dbChan) /\ c.busy = None
  <2>1. p \in Pay /\ dbChan \in Channels /\ dbChan.busy = None /\ None \in Pay \cup {None}
    BY <1>1 DEF DiskWhole
  <2>. HIDE DEF p
  <2>2. Enabled(dbChan, p) \in Channels
    BY <2>1, EnabledType
  <2>3. /\ Enabled(dbChan, p).height = dbChan.height /\ Enabled(dbChan, p).paid = dbChan.paid
        /\ Enabled(dbChan, p).pending = dbChan.pending \ {p}
    BY <2>1, PartFields
  <2>4. SameSides(Enabled(dbChan, p), dbChan) /\ Enabled(dbChan, p).busy = dbChan.busy
    BY <2>1, PartSides
  <2>. QED
    BY <2>1, <2>2, <2>3, <2>4
<1>6. heap' = [heap EXCEPT ![chanMap] = c] /\ dbChan' = c
  BY <1>1, <1>4, <1>5, StoredIsSame DEF EnableUtxo
<1>7. heap'[chanMap] = c /\ \A x \in 1 .. nobj : x # chanMap => heap'[x] = heap[x]
  BY <1>1, <1>6, InUse DEF TypeOK
<1>. QED
  BY <1>1, <1>3, <1>4, <1>5, <1>6, <1>7

LEMMA HandlerSerial ==
  ASSUME TypeOK, TypeOK', ExchangeInv, SerialInv, NEW a \in Actors, HandlerStep(a)
  PROVE  SerialInv'
<1> USE DEF mem, disk, book, net
<1>0. run[a].st # "off"
  BY DEF HandlerStep, Broadcast, BroadcastFails, EnableUtxo, MarkBroadcast
<1>1. PICK p \in Pay : /\ run[a].pay = p /\ OnlyOpen(p) /\ Told(p)
                       /\ att[p].kind # "recover"
                       /\ ~(p \in listed /\ resv[p] = "init") /\ Handles(a)
  BY <1>0, HandlerFacts
<1>2. /\ UNCHANGED <<att, nobj, chanMap, tower, peer, listed, confirmed>>
      /\ \A q \in Pay \ {p} : resv'[q] = resv[q]
      /\ resv'[p] = resv[p] \/ resv'[p] = "broadcast"
      /\ onL2 \subseteq onL2' /\ \A q \in onL2' \ onL2 : q = p
      /\ \A b \in Actors \ {a} : run'[b] = run[b]
      /\ run'[a].pay = p
      /\ run'[a].st = "lock" => run'[a].obj = chanMap
  <2>1. CASE Broadcast(a)
    <3>1. run' = [run EXCEPT ![a].st = "lock", ![a].obj = chanMap]
      BY <2>1 DEF Broadcast
    <3>2. /\ run'[a] = [run[a] EXCEPT !.st = "lock", !.obj = chanMap]
          /\ \A b \in Actors \ {a} : run'[b] = run[b]
          /\ run[a] \in [st : {"off", "start", "lock", "mark"}, pay : Pay, obj : Objects]
      BY <3>1 DEF TypeOK
    <3>3. run'[a].pay = p /\ run'[a].obj = chanMap
      BY <1>1, <3>2
    <3>. QED
      BY <1>1, <2>1, <3>2, <3>3 DEF Broadcast
  <2>2. CASE BroadcastFails(a)
    BY <1>1, <2>2 DEF BroadcastFails, TypeOK
  <2>3. CASE EnableUtxo(a)
    BY <1>1, <2>3 DEF EnableUtxo, TypeOK
  <2>4. CASE MarkBroadcast(a)
    BY <1>1, <2>4 DEF MarkBroadcast, TypeOK
  <2>. QED
    BY <2>1, <2>2, <2>3, <2>4 DEF HandlerStep
<1>3. OneOpen'
  BY <1>1, <1>2, OnlyOpenNext
<1>4. \A b \in Actors : run'[b] = run[b] \/ Handles(b)'
  <2>1. Handles(a)'
    BY <1>1, <1>2 DEF Handles, Told
  <2>. QED
    BY <1>2, <2>1
<1>5. /\ dbChan'.height = dbChan.height /\ dbChan'.paid = dbChan.paid
      /\ SameSides(dbChan', dbChan)
      /\ dbChan'.busy = None /\ dbChan'.pending \subseteq dbChan.pending
      /\ \A x \in 1 .. nobj : x # chanMap => heap'[x] = heap[x]
      /\ UNCHANGED <<heap, dbChan>> \/ (heap'[chanMap] = dbChan' /\ \A q \in Pay : ~Busy(q))
  <2>1. CASE EnableUtxo(a)
    BY <2>1, EnableFacts
  <2>2. CASE ~EnableUtxo(a)
    <3>1. UNCHANGED <<heap, dbChan>>
      BY <2>2 DEF HandlerStep, Broadcast, BroadcastFails, MarkBroadcast
    <3>2. dbChan.busy = None
      BY DEF SerialInv, DiskWhole
    <3>. QED
      BY <3>1, <3>2 DEF SameSides
  <2>. QED
    BY <2>1, <2>2
<1>. QED
  BY <1>1, <1>2, <1>3, <1>4, <1>5, BesideKeeps

LEMMA MonitorSerial ==
  ASSUME TypeOK, TypeOK', Careful, SerialInv, NEW p \in Pay, MonitorStep(p)
  PROVE  SerialInv'
<1> USE DEF mem, disk, book, net
<1>1. /\ UNCHANGED <<att, heap, dbChan, nobj, chanMap, tower, peer, onL2, confirmed>>
      /\ MonitorStarts(p) \/ MonitorFinishes(p)
      /\ dbChan.busy = None
  BY DEF MonitorStep, MonitorStarts, MonitorFinishes, MonitorTimesOut, Careful, SerialInv,
         DiskWhole
<1>2. CASE MonitorStarts(p)
  <2>1. p \in listed /\ resv[p] = "started"
    BY <1>2 DEF MonitorStarts, Due
  <2>2. OnlyOpen(p) /\ att[p].kind # "recover" /\ Told(p)
    BY <2>1 DEF SerialInv, OneOpen, Open, OnlyOpen, Seen
  <2>3. UNCHANGED <<resv, listed>>
    BY <1>2 DEF MonitorStarts
  <2>4. /\ \A b \in Actors \ {Monitor} : run'[b] = run[b]
        /\ run'[Monitor].pay = p /\ run'[Monitor].st = "start"
    BY <1>2, ConstantTypes DEF MonitorStarts, TypeOK
  <2>5. OneOpen'
    BY <1>1, <2>2, <2>3, <2>4, OnlyOpenNext
  <2>6. Handles(Monitor)'
    BY <1>1, <2>2, <2>4 DEF Handles, Told
  <2>. QED
    BY <1>1, <2>1, <2>3, <2>4, <2>5, <2>6, BesideKeeps DEF SameSides
<1>3. CASE MonitorFinishes(p)
  <2>1. /\ resv[p] = "broadcast" /\ resv'[p] = "closed" /\ listed' = listed \ {p}
        /\ UNCHANGED run /\ \A q \in Pay \ {p} : resv'[q] = resv[q]
    BY <1>3 DEF MonitorFinishes, TypeOK
  <2>2. ASSUME NEW q \in Pay, Open(q)'
        PROVE  Open(q)
    <3>1. q \in listed' => q \in listed /\ resv'[q] = resv[q]
      BY <2>1
    <3>. QED
      BY <1>1, <2>1, <2>2, <3>1 DEF Open
  <2>3. OneOpen'
    BY <2>2 DEF SerialInv, OneOpen
  <2>. QED
    BY <1>1, <2>1, <2>3, BesideKeeps DEF SameSides
<1>. QED
  BY <1>1, <1>2, <1>3

LEMMA ConfirmSerial ==
  ASSUME TypeOK, SerialInv, NEW t \in Pay, ChainConfirms(t)
  PROVE  SerialInv'
<1> USE DEF mem, disk, book, net
<1>1. /\ UNCHANGED <<heap, nobj, chanMap, dbChan, att, resv, listed, run, tower, peer, onL2>>
      /\ confirmed \subseteq confirmed' /\ confirmed' \subseteq onL2
  BY DEF ChainConfirms, SerialInv
<1>2. OneOpen' /\ DiskWhole' /\ MapIsDisk' /\ TowerBehind' /\ PeerLevel'
  BY <1>1
     DEF SerialInv, OneOpen, Open, DiskWhole, MapIsDisk, Touches, TowerBehind, PeerLevel,
         UndoneInTime, At
<1>3. \A q \in Pay : Change(q)' /\ Request(q)' /\ PastWatched(q)' /\ Seen(q)'
  BY <1>1
     DEF SerialInv, Change, Request, PastWatched, Seen, HasFallBack, Told, At, ObjOf
<1>4. \A a \in Actors : Handles(a)'
  BY <1>1 DEF SerialInv, Handles, Told
<1>. QED
  BY <1>1, <1>2, <1>3, <1>4 DEF SerialInv

\* A restart ends every attempt and loads the channel on disk.
LEMMA RestartSerial ==
  ASSUME TypeOK, TypeOK', SerialInv, Restart
  PROVE  SerialInv'
<1> USE DEF mem, disk, book, net
<1>1. /\ chanMap' = nobj + 1 /\ heap'[chanMap'] = dbChan
      /\ \A x \in 1 .. nobj : heap'[x] = heap[x] /\ x # chanMap'
  <2>1. nobj + 1 \in Objects
    BY NewObjectType DEF Restart
  <2>2. \A x \in 1 .. nobj : x \in Objects /\ x # nobj + 1
    BY ConstantTypes DEF TypeOK, Objects
  <2>. QED
    BY <2>1, <2>2 DEF Restart, TypeOK
<1>2. ASSUME NEW q \in Pay
      PROVE  /\ att'[q].kind = att[q].kind /\ att'[q].punish = att[q].punish
             /\ att'[q].old = att[q].old /\ att'[q].tx = att[q].tx
             /\ att'[q].st = IF att[q].st \in {"idle", "done"} THEN att[q].st ELSE "dead"
  BY AttemptType DEF Restart, Attempts
<1>3. /\ UNCHANGED <<dbChan, tower, peer, onL2, confirmed>> /\ listed' = {}
      /\ \A a \in Actors : run'[a].st = "off"
  BY DEF Restart, TypeOK
<1>4. \A q \in Pay : att'[q].st \in {"idle", "done", "dead"}
  BY <1>2
<1>5. \A q \in Pay : ~Open(q)' /\ ~HasFallBack(q)'
  BY <1>3, <1>4 DEF Open, HasFallBack, Active
<1>6. DiskWhole' /\ MapIsDisk' /\ OneOpen'
  BY <1>1, <1>3, <1>5 DEF SerialInv, DiskWhole, MapIsDisk, OneOpen
<1>7. ASSUME UndoneInTime'
      PROVE  /\ UndoneInTime
             /\ \A q \in Pay : ~(att[q].st \in Active /\ att[q].punish)
  <2>1. ASSUME NEW q \in Pay, att'[q].st = "dead"
        PROVE  att[q].kind # "recover" /\ ~att[q].punish
    BY <1>2, <1>7, <2>1 DEF UndoneInTime, At
  <2>. QED
    BY <1>2, <2>1 DEF UndoneInTime, At, Active
<1>8. \A q \in Pay : att[q].st \in {"commit", "listed", "saved"} => att[q].st \in Active /\ att[q].punish
  BY DEF SerialInv, PastWatched, Active
<1>9. TowerBehind' /\ PeerLevel'
  BY <1>3, <1>7, <1>8 DEF SerialInv, TowerBehind, PeerLevel
<1>10. ASSUME NEW q \in Pay
       PROVE  Change(q)' /\ Request(q)' /\ PastWatched(q)' /\ Seen(q)'
  <2>1. Change(q)'
    BY <1>4 DEF Change, Active
  <2>2. Request(q)'
    BY <1>2, <1>4, <1>5 DEF SerialInv, Request, At, Active
  <2>3. Seen(q)'
    BY <1>2, <1>3, <1>4 DEF SerialInv, Seen, Told, At, Active
  <2>4. PastWatched(q)'
    <3>1. CASE att[q].st # "done"
      BY <1>2, <3>1 DEF PastWatched, At
    <3>2. CASE att[q].st = "done"
      <4>1. PICK o \in 1 .. nobj : o = att[q].old
        BY InUse
      <4>2. PICK w : w = heap[o].remote
        OBVIOUS
      <4>3. w \in tower /\ w.height < dbChan.height /\ att[q].punish
        BY <3>2, <4>1, <4>2 DEF SerialInv, PastWatched, At
      <4>4. heap'[o] = heap[o] /\ o # chanMap'
        BY <1>1
      <4>. QED
        BY <1>2, <1>3, <1>5, <3>2, <4>1, <4>2, <4>3, <4>4 DEF PastWatched, At
    <3>. QED
      BY <3>1, <3>2
  <2>. QED
    BY <2>1, <2>2, <2>3, <2>4
<1>11. confirmed' \subseteq onL2' /\ \A a \in Actors : Handles(a)'
  BY <1>3 DEF SerialInv, Handles
<1>. QED
  BY <1>6, <1>9, <1>10, <1>11 DEF SerialInv

LEMMA InitSerial ==
  ASSUME Init
  PROVE  SerialInv
<1>1. /\ \A p \in Pay : att[p].st = "idle" /\ att[p].kind = "unlock" /\ att[p].tx = p
      /\ \A a \in Actors : run[a].st = "off"
      /\ listed = {} /\ onL2 = {} /\ confirmed = {} /\ tower = {}
  BY DEF Init
<1>2. dbChan = FirstChannel /\ heap[chanMap] = dbChan /\ peer = Commitment(0, {})
  BY ConstantTypes DEF Init, FirstCommitment
<1>3. DiskWhole /\ MapIsDisk /\ TowerBehind /\ PeerLevel /\ OneOpen
  BY <1>1, <1>2
     DEF DiskWhole, MapIsDisk, TowerBehind, PeerLevel, OneOpen, Open, FirstChannel,
         FirstCommitment, Commitment, Active
<1>4. ASSUME NEW p \in Pay
      PROVE  Change(p) /\ Request(p) /\ PastWatched(p) /\ Seen(p)
  <2>1. p \notin dbChan.paid
    BY <1>2 DEF FirstChannel
  <2>. QED
    BY <1>1, <2>1 DEF Change, Request, PastWatched, Seen, HasFallBack, At, Active
<1>. QED
  BY <1>1, <1>3, <1>4 DEF SerialInv, Handles

LEMMA NextSerial ==
  ASSUME Careful, TypeOK, ExchangeInv, SerialInv, [Next]_vars
  PROVE  SerialInv'
<1>0. TypeOK'
  BY NextType
<1>1. ASSUME NEW p \in Pay, AttemptStep(p)
      PROVE  SerialInv'
  <2>1. ~RecoverStoreFails(p)
    BY DEF RecoverStoreFails, Careful
  <2>. QED
    BY <1>0, <1>1, <2>1, AcquireSerial, RequestSerial, ExchangeSerial, ReserveSerial,
       FinishSerial, RollbackSerial, AbandonSerial DEF AttemptStep
<1>2. ASSUME NEW p \in Pay, NEW k \in Kinds, NEW t \in Pay, Fetch(p, k, t)
      PROVE  SerialInv'
  BY <1>0, <1>2, FetchSerial
<1>3. CASE UNCHANGED vars
  <2> USE DEF vars, mem, disk, book, net
  <2>1. OneOpen' /\ DiskWhole' /\ MapIsDisk' /\ TowerBehind' /\ PeerLevel'
    BY <1>3
       DEF SerialInv, OneOpen, Open, DiskWhole, MapIsDisk, Touches, TowerBehind, PeerLevel,
           UndoneInTime, At
  <2>2. \A q \in Pay : Change(q)' /\ Request(q)' /\ PastWatched(q)' /\ Seen(q)'
    BY <1>3
       DEF SerialInv, Change, Request, PastWatched, Seen, HasFallBack, Told, At, ObjOf
  <2>3. \A a \in Actors : Handles(a)'
    BY <1>3 DEF SerialInv, Handles, Told
  <2>4. (confirmed \subseteq onL2)'
    BY <1>3 DEF SerialInv
  <2>. QED
    BY <2>1, <2>2, <2>3, <2>4 DEF SerialInv
<1>4. ASSUME NEW p \in Pay, MonitorStep(p) \/ ChainConfirms(p)
      PROVE  SerialInv'
  BY <1>0, <1>4, MonitorSerial, ConfirmSerial
<1>5. ASSUME NEW a \in Actors, HandlerStep(a)
      PROVE  SerialInv'
  BY <1>0, <1>5, HandlerSerial
<1>. QED
  BY <1>0, <1>1, <1>2, <1>3, <1>4, <1>5, RestartSerial DEF Next

\* With such a caller and such storage one payment is open at a time, the
\* channel on disk is whole, and the map, the peer and the watch tower differ
\* from it by no more than what the open payment has done so far.
THEOREM SerialInvariant ==
    ASSUME Careful
    PROVE  Spec => []SerialInv
<1>1. TypeOK /\ ExchangeInv /\ SerialInv /\ [Next]_vars => SerialInv'
  BY NextSerial
<1>. QED
  BY InitSerial, TypeCorrect, ExchangeInvariant, <1>1, PTL DEF Spec

LEMMA Settled ==
  ASSUME TypeOK, SerialInv
  PROVE  SettledInStep
<1>. SUFFICES ASSUME Quiet, UndoneInTime
              PROVE  /\ Stored(heap[chanMap]) = dbChan
                     /\ Commitment(heap[chanMap].height, heap[chanMap].paid) = peer
                     /\ heap[chanMap].local = peer /\ heap[chanMap].remote = peer
                     /\ heap[chanMap].remote \notin tower
  BY DEF SettledInStep
<1>1. \A q \in Pay : ~Touches(q) /\ att[q].st \notin Active
  BY DEF Quiet, Touches, Active
<1>2. heap[chanMap] = dbChan /\ DiskWhole /\ dbChan \in Channels /\ peer \in Commitments
  BY <1>1, MapType DEF SerialInv, MapIsDisk, TypeOK
<1>3. dbChan.height = peer.height /\ \A w \in tower : w.height < dbChan.height
  BY <1>1 DEF SerialInv, PeerLevel, TowerBehind, Active
<1>4. peer = Commitment(dbChan.height, dbChan.paid)
  BY <1>2, <1>3, CommitmentIs DEF DiskWhole
<1>5. dbChan.local = peer /\ dbChan.remote = peer
  BY <1>2, <1>4 DEF DiskWhole
<1>6. dbChan.remote \notin tower
  <2>1. dbChan.remote.height = dbChan.height /\ dbChan.height \in Nat
    BY <1>2, MapType DEF DiskWhole, Commitment
  <2>. QED
    BY <1>3, <2>1
<1>7. Stored(dbChan) = dbChan
  BY <1>2, StoredIsSame DEF DiskWhole
<1>. QED
  BY <1>2, <1>4, <1>5, <1>6, <1>7

\* When nothing runs, the channel in the map is the one on disk and both sides
\* stand at the same height and balance, after any sequence of refusals,
\* rollbacks, recoveries and restarts.
THEOREM QuietIsSettled ==
    ASSUME Careful
    PROVE  Spec => []SettledInStep
<1>1. TypeOK /\ SerialInv => SettledInStep
  BY Settled
<1>. QED
  BY SerialInvariant, TypeCorrect, <1>1, PTL

\* The watch tower can punish every remote commitment that a completed attempt
\* left behind.
THEOREM PastStaysWatched ==
    ASSUME Careful
    PROVE  Spec => []PastIsWatched
<1>1. SerialInv => PastIsWatched
  BY DEF SerialInv, PastIsWatched, PastWatched, At
<1>. QED
  BY SerialInvariant, <1>1, PTL

LEMMA RecoveryStep ==
  ASSUME Careful, TypeOK, SerialInv, [Next]_vars, NEW p \in Pay,
         At(p, "commit"), att[p].kind = "recover", att'[p].st = "done"
  PROVE  /\ Stored(heap'[chanMap']) = dbChan'
         /\ Commitment(dbChan'.height, dbChan'.paid) = peer
         /\ dbChan'.local = peer /\ dbChan'.remote = peer
         /\ att[p].tx \in dbChan'.paid \ dbChan'.pending
<1> USE DEF mem, disk, book, net
<1>1. att'[p] # att[p]
  BY DEF At
<1>2. RecoverFinish(p)
  <2>1. ASSUME NEW q \in Pay, AttemptStep(q)
        PROVE  RecoverFinish(p)
    <3>1. q = p
      <4>1. CASE q # p
        <5>1. att'[p] = att[p]
          BY <2>1, <4>1
             DEF AttemptStep, Acquire, AcquireRecover, UnlockRequest, SignExchange, UnlockAck,
                 LockRequest, LockAck, LockFinish, ListReservation, SaveReservation, Advance,
                 Rollback, RecoverRequest, RecoverFinish, RecoverAbandon, RecoverStoreFails,
                 Move, TypeOK
        <5>. QED
          BY <1>1, <5>1
      <4>. QED
        BY <4>1
    <3>2. att[p].st = "commit" /\ att'[p].st # "dead"
      BY DEF At
    <3>3. ~Rollback(p) /\ ~RecoverAbandon(p) /\ ~RecoverStoreFails(p)
      BY <3>2, MoveFacts DEF Rollback, RecoverAbandon, RecoverStoreFails
    <3>. QED
      BY <2>1, <3>1, <3>2, <3>3
         DEF AttemptStep, Acquire, AcquireRecover, UnlockRequest, SignExchange, UnlockAck,
             LockRequest, LockAck, LockFinish, ListReservation, SaveReservation, Advance,
             RecoverRequest, At
  <2>2. ASSUME NEW q \in Pay, NEW k \in Kinds, NEW t \in Pay, Fetch(q, k, t)
        PROVE  FALSE
    BY <1>1, <2>2 DEF Fetch, At, TypeOK
  <2>3. CASE Restart
    BY <2>3, AttemptType DEF Restart, At, Attempts
  <2>4. ASSUME NEW q \in Pay, MonitorStep(q) \/ ChainConfirms(q)
        PROVE  FALSE
    BY <1>1, <2>4 DEF MonitorStep, MonitorStarts, MonitorFinishes, MonitorTimesOut, ChainConfirms
  <2>5. ASSUME NEW a \in Actors, HandlerStep(a)
        PROVE  FALSE
    BY <1>1, <2>5 DEF HandlerStep, Broadcast, BroadcastFails, EnableUtxo, MarkBroadcast
  <2>6. CASE UNCHANGED vars
    BY <1>1, <2>6 DEF vars
  <2>. QED
    BY <2>1, <2>2, <2>3, <2>4, <2>5, <2>6 DEF Next
<1>3. ~Advance(p)
  BY DEF Advance, At
<1>4. /\ heap'[chanMap] = dbChan'
      /\ att[p].tx \in Pay \ dbChan.paid
      /\ dbChan'.paid = dbChan.paid \cup {att[p].tx}
      /\ dbChan'.pending = dbChan.pending /\ dbChan'.busy = None
      /\ peer = Commitment(dbChan'.height, dbChan'.paid)
      /\ dbChan'.local = peer /\ dbChan'.remote = peer
  BY <1>2, <1>3, FinishFacts
<1>5. chanMap' = chanMap /\ dbChan' \in Channels
  BY <1>2, NextType, MapType DEF RecoverFinish, TypeOK
<1>6. att[p].tx \notin dbChan.pending
  BY <1>4 DEF SerialInv, DiskWhole
<1>. QED
  BY <1>4, <1>5, <1>6, StoredIsSame

\* A recovery that completes settles its payment, in the map and on disk, at
\* the peer's height.
THEOREM RecoveriesReachMap ==
    ASSUME Careful
    PROVE  Spec => RecoveryReachesMap
<1> DEFINE Reaches == \A p \in Pay :
             At(p, "commit") /\ att[p].kind = "recover" /\ att'[p].st = "done" =>
               /\ Stored(heap'[chanMap']) = dbChan'
               /\ Commitment(dbChan'.height, dbChan'.paid) = peer
               /\ dbChan'.local = peer /\ dbChan'.remote = peer
               /\ att[p].tx \in dbChan'.paid \ dbChan'.pending
<1>1. TypeOK /\ SerialInv /\ [Next]_vars => [Reaches]_vars
  BY RecoveryStep
<1>. HIDE DEF Reaches
<1>2. Spec => [][Reaches]_vars
  BY SerialInvariant, TypeCorrect, <1>1, PTL DEF Spec
<1>. QED
  BY <1>2 DEF Reaches, RecoveryReachesMap

LEMMA LedgerStep ==
  ASSUME Careful, TypeOK, ExchangeInv, SerialInv, [Next]_vars
  PROVE  [Ledger!Next]_Ledger!ledger
<1> USE DEF mem, disk, book, net
<1>1. CASE UNCHANGED dbChan
  BY <1>1 DEF Ledger!ledger
<1>2. ASSUME NEW p \in Pay, Advance(p) \/ RecoverFinish(p)
      PROVE  Ledger!Next
  <2>1. PICK t \in Pay : /\ t \notin dbChan.paid
                         /\ dbChan'.height = dbChan.height + 1
                         /\ dbChan'.paid = dbChan.paid \cup {t}
                         /\ dbChan'.pending \in {dbChan.pending, dbChan.pending \cup {t}}
    BY <1>2, FinishFacts
  <2>. QED
    BY <2>1 DEF Ledger!Next, Ledger!Apply
<1>3. ASSUME NEW a \in Actors, EnableUtxo(a)
      PROVE  [Ledger!Next]_Ledger!ledger
  <2>1. /\ dbChan'.height = dbChan.height /\ dbChan'.paid = dbChan.paid
        /\ dbChan'.pending = dbChan.pending \ {run[a].pay} /\ run[a].pay \in Pay
    BY <1>3, EnableFacts DEF TypeOK
  <2>2. CASE run[a].pay \in dbChan.pending
    BY <2>1, <2>2 DEF Ledger!Next, Ledger!Settle
  <2>3. CASE run[a].pay \notin dbChan.pending
    <3>1. dbChan'.pending = dbChan.pending
      BY <2>1, <2>3
    <3>. QED
      BY <2>1, <3>1 DEF Ledger!ledger
  <2>. QED
    BY <2>2, <2>3
<1>4. ASSUME NEW p \in Pay, Rollback(p)
      PROVE  dbChan' = dbChan
  <2>1. Busy(p) /\ att[p].kind # "recover" /\ DiskWhole
    BY <1>4, FailFacts DEF Rollback, SerialInv
  <2>2. HasFallBack(p)
    BY <1>4, <2>1, FailsActive DEF Rollback, HasFallBack
  <2>3. heap[att[p].old] = dbChan
    BY <2>2 DEF SerialInv, Request
  <2>. QED
    BY <1>4, <2>1, <2>3, MapType, StoredIsSame DEF Rollback, FallBack, DiskWhole
<1>5. ASSUME NEW p \in Pay, AttemptStep(p), ~Advance(p), ~RecoverFinish(p), ~Rollback(p)
      PROVE  dbChan' = dbChan
  BY <1>5
     DEF AttemptStep, Acquire, AcquireRecover, UnlockRequest, SignExchange, UnlockAck,
         LockRequest, LockAck, LockFinish, ListReservation, SaveReservation, RecoverRequest,
         RecoverAbandon, RecoverStoreFails
<1>6. ASSUME NEW p \in Pay, NEW k \in Kinds, NEW t \in Pay, Fetch(p, k, t)
      PROVE  dbChan' = dbChan
  BY <1>6 DEF Fetch
<1>7. ASSUME NEW p \in Pay, MonitorStep(p) \/ ChainConfirms(p)
      PROVE  dbChan' = dbChan
  BY <1>7
     DEF MonitorStep, MonitorStarts, MonitorFinishes, MonitorTimesOut, ChainConfirms, Careful
<1>8. ASSUME NEW a \in Actors, HandlerStep(a), ~EnableUtxo(a)
      PROVE  dbChan' = dbChan
  BY <1>8 DEF HandlerStep, Broadcast, BroadcastFails, MarkBroadcast
<1>9. CASE Restart
  BY <1>1, <1>9 DEF Restart
<1>10. CASE UNCHANGED vars
  BY <1>1, <1>10 DEF vars
<1>. QED
  BY <1>1, <1>2, <1>3, <1>4, <1>5, <1>6, <1>7, <1>8, <1>9, <1>10 DEF Next

\* The channel on disk is a ledger of the payments: each enters it once and
\* whole, with the next height, and is taken out of it by nothing that fails.
THEOREM RefinesLedger ==
    ASSUME Careful
    PROVE  Spec => ImplementsLedger
<1>1. Init => Ledger!Init
  BY DEF Init, Ledger!Init, FirstChannel
<1>2. TypeOK /\ ExchangeInv /\ SerialInv /\ [Next]_vars => [Ledger!Next]_Ledger!ledger
  BY LedgerStep
<1>. QED
  BY <1>1, <1>2, TypeCorrect, ExchangeInvariant, SerialInvariant, PTL
     DEF Spec, ImplementsLedger, Ledger!Spec
=============================================================================
