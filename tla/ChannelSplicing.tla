-------------------------- MODULE ChannelSplicing ---------------------------
(***************************************************************************)
(* Assets go into a channel that is open and come out of it: splicing in,  *)
(* splicing out, and expanding by an output that is at the channel's       *)
(* address already.                                                        *)
(*                                                                         *)
(* A call changes the Channel object while it exchanges three messages with*)
(* the peer, saves a reservation and the channel, and starts the           *)
(* transactions.  From there the two ticks of the monitor carry the        *)
(* reservation: splicing in goes from layer 1 to layer 2, splicing out from*)
(* layer 2 to layer 1.  An error puts the channel back that was on disk    *)
(* before, as a new object, whatever the peer has by then.  The handler a  *)
(* call starts, in a goroutine for splicing out, runs next to the tick that*)
(* sees the same reservation.                                              *)
(*                                                                         *)
(* A channel is the set of the splices it includes and of those whose      *)
(* layer 2 output is still pending.  The chains, their indexers and the    *)
(* peer are external.  A status is its name in the code without            *)
(* RS_SPLICINGIN_ and RS_SPLICINGOUT_.                                     *)
(***************************************************************************)
EXTENDS Naturals, Sequences

CONSTANTS
  Faults,       \* what may go wrong
  Courses,      \* the calls the user may make, in the order they get the mutex
  MaxRestart,   \* bound: the process restarts at most that often
  L1, L2        \* the ticks of the monitor

None == "none"
Kinds == {"in", "out", "expand", "recover"}
Ticks == {L1, L2}
Statuses == {None, "STARTED", "BROADCASTED", "CONFIRMED", "ANCHOR_BROADCASTED",
             "ANCHOR_CONFIRMED", "CLOSED"}

\* store: a write of the channel or a reservation returns an error.
\* lost: a request to an indexer or the peer, or its answer, is lost.
\* refuse: an indexer answers a broadcast with an error of another kind.
ASSUME FaultsAssumption == Faults \subseteq {"store", "lost", "refuse"}
\* all: ExpandAsset, which waits for the end with the channel's mutex held;
\* recover is an expanding by an output that layer 2 knows already.
ASSUME CoursesAssumption ==
  /\ Courses \subseteq Seq([kind : Kinds, all : BOOLEAN])
ASSUME RestartAssumption == MaxRestart \in Nat
ASSUME TicksAssumption == L1 # L2 /\ L1 \notin Nat /\ L2 \notin Nat

VARIABLES
  course,     \* the calls of this behaviour; splice s is the s-th
  call,       \* per splice, how far its call is
  hold,       \* per splice, the Channel object of its call
  old,        \* per splice, OldChannel: the channel on disk before
  mutex,      \* per object, the splice whose call holds its mutex, or 0
  obj,        \* the Channel objects
  cur,        \* the object in channelMap, the newest
  disk,       \* the channel as saved last
  resv,       \* splicingChannelMap
  status,     \* per splice, the status of its reservation in memory
  saved,      \* ... and on disk
  run,        \* what the ticks and the handlers started by calls are doing
  tx,         \* the transactions of a splice on both chains
  committed,  \* the splices the peer includes in its state of the channel
  torn,       \* the peer includes them, the wallet has gone back
  upset,      \* a save failed, or a channel that is not in channelMap was used
  restarts

calls == <<call, hold, old, mutex>>
channel == <<obj, cur, disk>>
reservations == <<resv, status, saved>>
vars == <<course, calls, channel, reservations, run, tx, committed, torn, upset, restarts>>

Splices == 1 .. Len(course)
Objects == 1 .. Len(course) + 1
Threads == Splices \cup Ticks     \* the handler a call starts has its number
Kind(s) == course[s].kind
Out(s) == Kind(s) = "out"
NeedSendSplicingTx(s) == Kind(s) \in {"in", "out"}

Channel == [has : SUBSET Splices, pending : SUBSET Splices]
Network == {"splice", "seen", "anchor now", "anchor", "anchored", "pay"}
Places == Network \cup {"idle", "start", "confirm", "enable", "lock", "record", "close"}
IdleThread == [at |-> "idle", s |-> 0, o |-> 0]

TypeOK ==
  /\ course \in Courses
  /\ call \in [Splices -> {"idle", "fetched", "locked", "asked", "signed", "acked",
                           "recorded", "handling", "failing", "wait", "done"}]
  /\ hold \in [Splices -> Objects \cup {0}]
  /\ old \in [Splices -> Channel]
  /\ mutex \in [Objects -> Splices \cup {0}]
  /\ obj \in [Objects -> Channel] /\ cur \in Objects /\ disk \in Channel
  /\ resv \subseteq Splices
  /\ status \in [Splices -> Statuses] /\ saved \in [Splices -> Statuses]
  /\ run \in [Threads -> [at : Places, s : Splices \cup {0}, o : Objects \cup {0}]]
  /\ tx \in [Splices -> [{"splice", "anchor"} -> {None, "pool", "confirmed"}]]
  /\ committed \subseteq Splices /\ torn \subseteq Splices
  /\ upset \in BOOLEAN
  /\ restarts \in 0 .. MaxRestart

NoSplice == [has |-> {}, pending |-> {}]

Init ==
  /\ course \in Courses
  /\ call = [s \in Splices |-> "idle"]
  /\ hold = [s \in Splices |-> 0] /\ old = [s \in Splices |-> NoSplice]
  /\ mutex = [o \in Objects |-> 0]
  /\ obj = [o \in Objects |-> NoSplice] /\ cur = 1 /\ disk = NoSplice
  /\ resv = {}
  /\ status = [s \in Splices |-> None] /\ saved = [s \in Splices |-> None]
  /\ run = [t \in Threads |-> IdleThread]
  /\ tx = [s \in Splices |-> [x \in {"splice", "anchor"} |->
       IF Kind(s) = "recover" \/ (Kind(s) = "expand" /\ x = "splice")
       THEN "confirmed" ELSE None]]
  /\ committed = {} /\ torn = {} /\ upset = FALSE /\ restarts = 0

-----------------------------------------------------------------------------
(* The chains.                                                             *)

\* The splicing transaction spends the channel's output, which the splices
\* before have moved.
Parents(s) == {p \in committed : p < s /\ NeedSendSplicingTx(p)}
Accepts(s, x) == x = "splice" => \A p \in Parents(s) : tx[p]["splice"] # None

Reaches(s, x) ==
  /\ tx[s][x] = None /\ Accepts(s, x)
  /\ tx' = [tx EXCEPT ![s] = [tx[s] EXCEPT ![x] = "pool"]]

Confirm(s, x) ==
  /\ tx[s][x] = "pool"
  /\ tx' = [tx EXCEPT ![s] = [tx[s] EXCEPT ![x] = "confirmed"]]
  /\ UNCHANGED <<course, calls, channel, reservations, run, committed, torn, upset, restarts>>

IsTxConfirmed(s, x) == tx[s][x] = "confirmed"

\* The peer's monitor broadcasts in the same order.
PeerSends(s) ==
  /\ s \in committed
  /\ \/ Out(s) /\ Reaches(s, "anchor")
     \/ Out(s) /\ IsTxConfirmed(s, "anchor") /\ Reaches(s, "splice")
     \/ ~Out(s) /\ Reaches(s, "splice")
     \/ ~Out(s) /\ IsTxConfirmed(s, "splice") /\ Reaches(s, "anchor")
  /\ UNCHANGED <<course, calls, channel, reservations, run, committed, torn, upset, restarts>>

-----------------------------------------------------------------------------
(* Saving.                                                                 *)

\* The result of a save.
Result(ok) == /\ ok \/ "store" \in Faults
              /\ upset' = (upset \/ ~ok)

\* An assignment to the reservation's status and its save.
Set(s, st, ok) ==
  /\ status' = [status EXCEPT ![s] = st]
  /\ saved' = IF ok THEN [saved EXCEPT ![s] = st] ELSE saved
  /\ Result(ok)

-----------------------------------------------------------------------------
(* The call: FunderInitSplicingInProcess, FunderInitSplicingOutProcess and *)
(* FunderInitExpandingProcess, under the mutex of the channel.             *)

At(s, at) == call[s] = at
CallTo(s, at) == call' = [call EXCEPT ![s] = at]
Release(s) == mutex' = [mutex EXCEPT ![hold[s]] = 0]

\* GetChannel.
Fetch(s) ==
  /\ At(s, "idle")
  /\ hold' = [hold EXCEPT ![s] = cur]
  /\ CallTo(s, "fetched")
  /\ UNCHANGED <<course, old, mutex, channel, reservations, run, tx, committed, torn, upset, restarts>>

\* The mutex, which may be that of an object a failed call has replaced, and
\* loadChannel; the splices are numbered in this order.
Acquire(s) ==
  /\ At(s, "fetched") /\ mutex[hold[s]] = 0
  /\ \A r \in 1 .. s - 1 : call[r] \notin {"idle", "fetched"}
  /\ mutex' = [mutex EXCEPT ![hold[s]] = s]
  /\ old' = [old EXCEPT ![s] = disk]
  /\ upset' = (upset \/ hold[s] # cur)
  /\ CallTo(s, "locked")
  /\ UNCHANGED <<course, hold, channel, reservations, run, tx, committed, torn, restarts>>

\* The inputs do not allow it, and nothing has been changed yet.
NotAllowed(s) ==
  /\ At(s, "locked")
  /\ Release(s) /\ CallTo(s, "done")
  /\ UNCHANGED <<course, hold, old, channel, reservations, run, tx, committed, torn, upset, restarts>>

\* SendSplicingInReq and FunderProcessAcceptSplicingIn, or their counterparts
\* for splicing out: the figures of the peer are those of the channel, and the
\* object becomes the channel with the splice.
Ask(s) ==
  /\ At(s, "locked") /\ obj[hold[s]].has = committed
  /\ obj' = [obj EXCEPT ![hold[s]] =
       [has |-> obj[hold[s]].has \cup {s},
        pending |-> obj[hold[s]].pending \cup (IF NeedSendSplicingTx(s) THEN {s} ELSE {})]]
  /\ CallTo(s, "asked")
  /\ UNCHANGED <<course, hold, old, mutex, cur, disk, reservations, run, tx, committed, torn,
                 upset, restarts>>

\* SendSplicingInCommitSigReq: the signatures and the peer's revocation.
Sign(s) ==
  /\ At(s, "asked") /\ CallTo(s, "signed")
  /\ UNCHANGED <<course, hold, old, mutex, channel, reservations, run, tx, committed, torn,
                 upset, restarts>>

\* SendSplicingInRevokeAndAckReq reaches the peer, which includes the splice.
Ack(s) ==
  /\ At(s, "signed") /\ CallTo(s, "acked")
  /\ committed' = committed \cup {s}
  /\ UNCHANGED <<course, hold, old, mutex, channel, reservations, run, tx, torn, upset, restarts>>

\* The answer is here: the reservation is saved ...
\* Mutant: it is left to the ticks to save it.
KeepStarted(s) ==
  /\ At(s, "acked")
  /\ status' = [status EXCEPT ![s] = "STARTED"]
  /\ CallTo(s, "recorded")
  /\ UNCHANGED <<course, hold, old, mutex, channel, resv, saved, run, tx, committed, torn,
                 upset, restarts>>
SaveStarted(s) ==
  /\ At(s, "acked")
  /\ \E ok \in BOOLEAN :
       /\ Set(s, "STARTED", ok)
       /\ CallTo(s, IF ok THEN "recorded" ELSE "failing")
  /\ UNCHANGED <<course, hold, old, mutex, channel, resv, run, tx, committed, torn, restarts>>

\* ... and then the channel; the monitor gets the reservation and its first
\* handler is called.
SaveChannel(s) ==
  /\ At(s, "recorded")
  /\ \E ok \in BOOLEAN :
       /\ disk' \in (IF ok THEN {obj[hold[s]]} ELSE {disk, obj[hold[s]]})
       /\ Result(ok)
       /\ resv' = IF ok THEN resv \cup {s} ELSE resv
       /\ run' = IF ok THEN [run EXCEPT ![s] = [at |-> "start", s |-> s, o |-> 0]] ELSE run
       /\ CallTo(s, IF ok THEN "handling" ELSE "failing")
  /\ UNCHANGED <<course, hold, old, mutex, obj, cur, status, saved, tx, committed, torn, restarts>>

\* An error after the first message: the old channel is saved and becomes the
\* object in channelMap.  Mutant: the object stays.
FailInPlace(s) ==
  /\ \/ call[s] \in {"locked", "asked", "signed", "failing"}
     \/ At(s, "acked") /\ "lost" \in Faults
  /\ \E ok \in BOOLEAN : disk' = (IF ok THEN old[s] ELSE disk) /\ Result(ok)
  /\ resv' = resv \ {s}
  /\ torn' = torn \cup ({s} \cap committed)
  /\ Release(s) /\ CallTo(s, "done")
  /\ UNCHANGED <<course, hold, old, obj, cur, status, saved, run, tx, committed, restarts>>
Fail(s) ==
  /\ \/ call[s] \in {"locked", "asked", "signed", "failing"}
     \/ At(s, "acked") /\ "lost" \in Faults
  /\ \E ok \in BOOLEAN : disk' = (IF ok THEN old[s] ELSE disk) /\ Result(ok)
  /\ cur' = cur + 1
  /\ obj' = [obj EXCEPT ![cur + 1] = old[s]]
  /\ resv' = resv \ {s}
  /\ torn' = torn \cup ({s} \cap committed)
  /\ Release(s) /\ CallTo(s, "done")
  /\ UNCHANGED <<course, hold, old, status, saved, run, tx, committed, restarts>>

\* The handler is done, or it is a goroutine's.
Return(s) ==
  /\ At(s, "handling") /\ (Out(s) \/ run[s].at = "idle")
  /\ IF course[s].all
     THEN CallTo(s, "wait") /\ UNCHANGED mutex
     ELSE CallTo(s, "done") /\ Release(s)
  /\ UNCHANGED <<course, hold, old, channel, reservations, run, tx, committed, torn, upset, restarts>>

\* ExpandAssetInChannel looks at the reservation every 100 ms.
\* Mutant: it expects to find it.
WaitForStatus(s) ==
  /\ At(s, "wait")
  /\ s \in resv /\ status[s] \in {"CLOSED", "ANCHOR_CONFIRMED"}
  /\ Release(s) /\ CallTo(s, "done")
  /\ UNCHANGED <<course, hold, old, channel, reservations, run, tx, committed, torn, upset, restarts>>
WaitOver(s) ==
  /\ At(s, "wait")
  /\ s \notin resv \/ status[s] \in {"CLOSED", "ANCHOR_CONFIRMED"}
  /\ Release(s) /\ CallTo(s, "done")
  /\ UNCHANGED <<course, hold, old, channel, reservations, run, tx, committed, torn, upset, restarts>>

-----------------------------------------------------------------------------
(* The handlers, of the ticks and of the calls.  A tick reads the status of*)
(* a reservation of its snapshot and acts on what it has read.             *)

Goto(t, at) == run' = [run EXCEPT ![t] = [at |-> at, s |-> run[t].s, o |-> run[t].o]]
Leave(t) == run' = [run EXCEPT ![t] = IdleThread]
Is(t, at) == run[t].at = at
Of(t) == run[t].s

\* Mutant: a splice that is recorded and not broadcast is left to its call.
EntryBroadcast(t, s) ==
  CASE t = L1 /\ status[s] \in {"BROADCASTED", "CONFIRMED"} ->
         IF NeedSendSplicingTx(s) THEN "seen" ELSE "confirm"
    [] t = L2 /\ (status[s] = "ANCHOR_BROADCASTED" \/ (Out(s) /\ status[s] = "ANCHOR_CONFIRMED")) ->
         "anchored"
    [] OTHER -> "idle"

\* Where HandleChannelReservationStatus takes the reservation up.
Entry(t, s) ==
  CASE status[s] = "STARTED" /\ (t = L2 <=> Out(s)) -> "start"
    [] t = L1 /\ status[s] \in {"BROADCASTED", "CONFIRMED"} ->
         IF NeedSendSplicingTx(s) THEN "seen" ELSE "confirm"
    [] t = L2 /\ (status[s] = "ANCHOR_BROADCASTED" \/ (Out(s) /\ status[s] = "ANCHOR_CONFIRMED")) ->
         "anchored"
    [] OTHER -> "idle"

LookAt(t, s) ==
  /\ t \in Ticks /\ Is(t, "idle") /\ s \in resv
  /\ Entry(t, s) # "idle"
  /\ run' = [run EXCEPT ![t] = [at |-> Entry(t, s), s |-> s, o |-> 0]]
  /\ UNCHANGED <<course, calls, channel, reservations, tx, committed, torn, upset, restarts>>

\* HandleSplicingInStarted and HandleSplicingOutStarted: an expanding has
\* nothing to send on layer 1, and nothing at all if layer 2 knows the output.
Start(t) ==
  LET s == Of(t) IN
  /\ Is(t, "start")
  /\ IF NeedSendSplicingTx(s)
     THEN /\ Goto(t, IF Out(s) THEN "anchor" ELSE "splice")
          /\ UNCHANGED <<status, saved, upset>>
     ELSE \E ok \in BOOLEAN :
            /\ Set(s, IF Kind(s) = "recover" THEN "ANCHOR_CONFIRMED" ELSE "CONFIRMED", ok)
            /\ IF ok THEN Goto(t, IF Kind(s) = "recover" THEN "close" ELSE "anchor now")
               ELSE Leave(t)
  /\ UNCHANGED <<course, calls, channel, resv, tx, committed, torn, restarts>>

\* HandleSplicingInConfirmed.
Confirmed(t) ==
  LET s == Of(t) IN
  /\ Is(t, "confirm")
  /\ \E ok \in BOOLEAN :
       /\ Set(s, IF Kind(s) = "recover" THEN "ANCHOR_CONFIRMED" ELSE "CONFIRMED", ok)
       /\ IF ok THEN Goto(t, IF Kind(s) = "recover" THEN "close" ELSE "anchor")
          ELSE Leave(t)
  /\ UNCHANGED <<course, calls, channel, resv, tx, committed, torn, restarts>>

\* Mutant: the layer 2 transaction is there, so the assets are.
DeAnchorSeen(t) ==
  /\ Is(t, "anchored") /\ Out(Of(t)) /\ tx[Of(t)]["anchor"] # None
  /\ \E ok \in BOOLEAN :
       /\ Set(Of(t), "ANCHOR_CONFIRMED", ok)
       /\ IF ok THEN Goto(t, "pay") ELSE Leave(t)
  /\ UNCHANGED <<course, calls, channel, resv, tx, committed, torn, restarts>>

\* HandleSplicingOutDeAnchorConfirmed, up to the broadcast.
DeAnchorConfirmed(t) ==
  /\ Is(t, "anchored") /\ Out(Of(t)) /\ IsTxConfirmed(Of(t), "anchor")
  /\ \E ok \in BOOLEAN :
       /\ Set(Of(t), "ANCHOR_CONFIRMED", ok)
       /\ IF ok THEN Goto(t, "pay") ELSE Leave(t)
  /\ UNCHANGED <<course, calls, channel, resv, tx, committed, torn, restarts>>

\* What a confirmed transaction leads to otherwise.
Queried(t) ==
  /\ \/ Is(t, "seen") /\ IsTxConfirmed(Of(t), "splice")
        /\ Goto(t, IF Out(Of(t)) THEN "close" ELSE "confirm")
     \/ Is(t, "anchored") /\ ~Out(Of(t)) /\ IsTxConfirmed(Of(t), "anchor") /\ Goto(t, "close")
  /\ UNCHANGED <<course, calls, channel, reservations, tx, committed, torn, upset, restarts>>

\* The transaction a handler broadcasts where it is; a tick that does not find
\* it confirmed on layer 2 sends it again.
Target(t) ==
  CASE run[t].at \in {"splice", "pay"} -> {"splice"}
    [] run[t].at \in {"anchor", "anchor now", "anchored"} -> {"anchor"}
    [] OTHER -> {}

\* It arrives, and the answer is still under way.
Deliver(t) ==
  /\ \E x \in Target(t) : Reaches(Of(t), x)
  /\ UNCHANGED <<course, calls, channel, reservations, run, committed, torn, upset, restarts>>

\* The indexer's answer, or on layer 1 that the transaction is visible.
Sent(t) ==
  LET s == Of(t) IN
  /\ \E x \in Target(t) : tx[s][x] # None
  /\ \/ /\ run[t].at \in {"splice", "pay", "anchor now"}
        /\ \E ok \in BOOLEAN :
             /\ Set(s, IF Is(t, "anchor now") THEN "ANCHOR_BROADCASTED" ELSE "BROADCASTED", ok)
             /\ call' = IF ok \/ t # s \/ Kind(s) # "in" THEN call
                        ELSE [call EXCEPT ![s] = "failing"]
        /\ Leave(t)
     \/ /\ Is(t, "anchor") /\ Goto(t, "enable")
        /\ UNCHANGED <<status, saved, upset, call>>
  /\ UNCHANGED <<course, hold, old, mutex, channel, resv, tx, committed, torn, restarts>>

\* Nothing new, no answer, or an error of which the caller takes no notice.
GiveUp(t) ==
  /\ run[t].at \in Network
  /\ t \in Ticks \/ Faults \cap {"lost", "refuse"} # {}
  /\ Kind(Of(t)) = "in" /\ t \notin Ticks => "lost" \in Faults
  /\ Leave(t)
  /\ UNCHANGED <<course, calls, channel, reservations, tx, committed, torn, upset, restarts>>

\* The broadcast that the call of a splicing-in makes returns another error.
Refused(t) ==
  /\ t \notin Ticks /\ Is(t, "splice")
  /\ "refuse" \in Faults \/ (tx[t]["splice"] = None /\ ~Accepts(t, "splice"))
  /\ CallTo(t, "failing")
  /\ Leave(t)
  /\ UNCHANGED <<course, hold, old, mutex, channel, reservations, tx, committed, torn, upset, restarts>>

\* enableUtxosInChannel: the object is fetched ...
EnableUtxos(t) ==
  /\ Is(t, "enable")
  /\ run' = [run EXCEPT ![t] = [at |-> "lock", s |-> Of(t), o |-> cur]]
  /\ UNCHANGED <<course, calls, channel, reservations, tx, committed, torn, upset, restarts>>

\* Mutant: the handler does not wait for the mutex, and gives up instead.
TryEnable(t) ==
  /\ Is(t, "lock")
  /\ Goto(t, "record")
  /\ UNCHANGED <<course, calls, channel, reservations, tx, committed, torn, upset, restarts>>

\* ... and changed and saved once its mutex is free; nobody looks at the result.
EnableUtxo_SatsNet(t) ==
  LET o == run[t].o
      c == [has |-> obj[o].has, pending |-> obj[o].pending \ {Of(t)}] IN
  /\ Is(t, "lock") /\ mutex[o] = 0
  /\ obj' = [obj EXCEPT ![o] = c]
  /\ \E ok \in BOOLEAN :
       /\ disk' \in (IF ok THEN {c} ELSE {disk, c})
       /\ ok \/ "store" \in Faults
       /\ upset' = (upset \/ ~ok \/ o # cur)
  /\ Goto(t, "record")
  /\ UNCHANGED <<course, calls, cur, reservations, tx, committed, torn, restarts>>

RecordAnchor(t) ==
  /\ Is(t, "record")
  /\ \E ok \in BOOLEAN : Set(Of(t), "ANCHOR_BROADCASTED", ok)
  /\ Leave(t)
  /\ UNCHANGED <<course, calls, channel, resv, tx, committed, torn, restarts>>

\* HandleSplicingInChannelReady and HandleSplicingOutChannelReady.
ChannelReady(t) ==
  /\ Is(t, "close")
  /\ \E ok \in BOOLEAN :
       /\ Set(Of(t), "CLOSED", ok)
       /\ resv' = IF ok THEN resv \ {Of(t)} ELSE resv
  /\ Leave(t)
  /\ UNCHANGED <<course, calls, channel, tx, committed, torn, restarts>>

-----------------------------------------------------------------------------

\* The memory is gone.  initDB loads the reservations that are not closed, the
\* embedding program the channel, and links them.
Restart ==
  /\ restarts < MaxRestart /\ restarts' = restarts + 1
  /\ call' = [s \in Splices |-> IF At(s, "idle") THEN "idle" ELSE "done"]
  /\ hold' = [s \in Splices |-> 0]
  /\ mutex' = [o \in Objects |-> 0]
  /\ obj' = [o \in Objects |-> disk] /\ cur' = 1
  /\ resv' = {s \in Splices : saved[s] \notin {None, "CLOSED"}}
  /\ status' = saved
  /\ run' = [t \in Threads |-> IdleThread]
  /\ torn' = torn \cup {s \in committed : s \notin disk.has}
  /\ UNCHANGED <<course, old, disk, saved, tx, committed, upset>>

Call(s) ==
  \/ Fetch(s) \/ Acquire(s) \/ NotAllowed(s) \/ Ask(s) \/ Sign(s) \/ Ack(s)
  \/ SaveStarted(s) \/ SaveChannel(s) \/ Fail(s) \/ Return(s) \/ WaitOver(s)
Local(t) ==
  \/ Start(t) \/ Confirmed(t) \/ EnableUtxos(t) \/ EnableUtxo_SatsNet(t)
  \/ RecordAnchor(t) \/ ChannelReady(t)
Query(t) == DeAnchorConfirmed(t) \/ Queried(t)
Broadcast(t) == Deliver(t) \/ Sent(t)
Remote(t) == Query(t) \/ Broadcast(t)
Errors(t) == GiveUp(t) \/ Refused(t)
Monitor == \E t \in Ticks, s \in Splices : LookAt(t, s)
Handlers == \E t \in Threads : Local(t) \/ Remote(t) \/ Errors(t)
Chains == \E s \in Splices : PeerSends(s) \/ \E x \in {"splice", "anchor"} : Confirm(s, x)

Next == (\E s \in Splices : Call(s)) \/ Monitor \/ Handlers \/ Chains \/ Restart

Spec == Init /\ [][Next]_vars

\* The goroutines are scheduled and Go's mutex does not starve a waiter; a tick
\* comes to every reservation of the map again and again, and of the requests it
\* repeats for one of them some are answered; the chains confirm what they hold.
Returns(s) == Acquire(s) \/ SaveStarted(s) \/ SaveChannel(s) \/ Fail(s) \/ Return(s)
Numbers == UNION {1 .. Len(c) : c \in Courses}
Fairness ==
  /\ \A s \in Numbers :
       /\ WF_vars(s \in Splices /\ (Returns(s) \/ WaitOver(s)))
       /\ \A x \in {"splice", "anchor"} : WF_vars(s \in Splices /\ Confirm(s, x))
       /\ WF_vars(s \in Splices /\ (Local(s) \/ Remote(s) \/ Errors(s)))
       /\ SF_vars(s \in Splices /\ \E t \in Ticks : LookAt(t, s))
       /\ SF_vars(\E t \in Ticks : Of(t) = s /\ Query(t))
       /\ SF_vars(\E t \in Ticks : Of(t) = s /\ Broadcast(t))
  /\ \A t \in Ticks : WF_vars(Local(t)) /\ WF_vars(GiveUp(t))
FairSpec == Spec /\ Fairness

-----------------------------------------------------------------------------
(* Properties.                                                             *)

\* Layer 2 never gets assets that layer 1 does not hold yet, and layer 1 never
\* pays assets out that layer 2 has not given back, whichever of the call, its
\* goroutine, the ticks and the peer broadcasts.
ChainsInOrder ==
  \A s \in Splices :
    IF Out(s) THEN tx[s]["splice"] # None => IsTxConfirmed(s, "anchor")
    ELSE tx[s]["anchor"] # None => IsTxConfirmed(s, "splice")

\* The channel on disk is the one the peer has: no splice that a call gave up is
\* in it, and none that the peer includes is missing, but those a call gave up
\* after the last message.
AgreesWithPeer ==
  ~upset =>
    /\ disk.has \subseteq committed
    /\ \A s \in committed \ torn :
         s \in disk.has \/ call[s] \in {"acked", "recorded", "failing"}

\* A splice leaves the monitor's map, now or at the next restart, only when both
\* chains have confirmed it: until then there is a reservation that carries it.
Settled(s) == \A x \in {"splice", "anchor"} : IsTxConfirmed(s, x)
Carried ==
  ~upset =>
    \A s \in disk.has :
      Settled(s) \/ (s \in resv /\ saved[s] \notin {None, "CLOSED"}) \/ At(s, "failing")

\* When a splice is closed, its output on layer 2 can be spent: it is not left
\* pending in the channel, neither on disk nor in channelMap.
UsableWhenClosed ==
  ~upset =>
    \A s \in Splices :
      saved[s] = "CLOSED" => s \notin disk.pending \cup obj[cur].pending

\* The handlers wait for the mutex that ExpandAsset holds while it waits for
\* them.
Jammed == \E s \in Splices, t \in Threads :
  At(s, "wait") /\ Is(t, "lock") /\ run[t].o = hold[s]

\* The ticks carry every reservation of their map to its end, whatever answers
\* are lost and wherever the process restarts, but for one that layer 2 knows
\* already, whose status between its two saves no tick handles.
Parked(s) == Kind(s) = "recover" /\ status[s] = "ANCHOR_CONFIRMED"
SplicesEnd == <>[](upset \/ Jammed \/ \A s \in resv : Parked(s) \/ s \in torn)

\* ExpandAsset comes back, although the ticks it waits for may themselves be
\* behind the mutex it holds, unless the one it needs is, or a save fails.
WaitEnds == <>[](upset \/ Jammed \/ \A s \in Splices : ~At(s, "wait"))
=============================================================================
