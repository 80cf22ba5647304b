-------------------------- MODULE ChannelLifecycle --------------------------
(***************************************************************************)
(* The life of one channel: it is opened, closed together with the peer or *)
(* by force, and swept.                                                    *)
(*                                                                         *)
(* A call of the user does the first step (FunderInitFundingProcess,       *)
(* CloserInitCoopCloseProcess, CloserForcelyClose) and leaves a            *)
(* reservation; the two ticks of the monitor, one for each chain, take it  *)
(* through the channel's statuses from there.  All of them work on the same*)
(* Channel object, the ticks without its mutex: each reads the status, asks*)
(* the chain, and then writes the next status whatever it has become.      *)
(*                                                                         *)
(* The chains, their indexers and the peer are external: they confirm what *)
(* they accept, and may lose a request or its answer.  A status is its name*)
(* in the code without the CS_.  An assignment to the channel and the save *)
(* that follows it are one step, with a failing save as an outcome.        *)
(***************************************************************************)
EXTENDS Naturals, FiniteSets

CONSTANTS
  Faults,       \* what may go wrong
  Openings,     \* the ways to open the channel
  Closings,     \* the calls the user may make once the channel is there
  MaxRestart    \* bound: the process restarts at most that often

None == "none"
Kinds == {"open", "coop", "force"}
Ticks == {"L1", "L2"}
Txs1 == {"funding", "closing", "commit", "sweep"}
Txs2 == {"anchor", "deanchor", "commit deanchor"}
Txs == Txs1 \cup Txs2
Statuses ==
  {None, "FUNDING_BROADCASTED", "FUNDING_CONFIRMED", "ANCHOR_BROADCASTED",
   "READY", "CLOSING_STARTED", "CLOSING_DEANCHOR_BROADCASTED",
   "ANCHOR_CONFIRMED", "CLOSING_BROADCASTED", "CLOSED",
   "CLOSE_FORCELY_BROADCASTED", "CLOSE_FORCELY_CONFIRMED",
   "CLOSE_FORCELY_SWEEP_BROADCASTED", "CLOSED_FORCELY"}

\* store: a write of the channel or a reservation returns an error.
\* lost: a request to an indexer or its answer is lost.
\* refuse: the indexers refuse a transaction that is confirmed already.
ASSUME FaultsAssumption == Faults \subseteq {"store", "lost", "refuse"}
\* Whether the wallet sends the funding transaction or takes over an output that
\* is on layer 1 already, whether that output needs an anchor, and whether the
\* channel leaves an output too small to sweep.
ASSUME OpeningsAssumption ==
  /\ Openings \subseteq [send : BOOLEAN, anchor : BOOLEAN, dust : BOOLEAN]
  /\ \A o \in Openings : o.send => o.anchor
ASSUME ClosingsAssumption == Closings \subseteq {"coop", "force"}
ASSUME RestartAssumption == MaxRestart \in Nat

VARIABLES
  opening,   \* how the channel is opened
  ch,        \* the channel in memory: its status and its ClosingTx
  disk,      \* the channel as saved last
  active,    \* it is in channelMap
  resv,      \* the reservations in memory
  saved,     \* the reservations on disk
  height,    \* the closings that know the height of the commitment
  call,      \* per kind of call, how far the one call is
  mutex,     \* the call that holds the channel's mutex
  tick,      \* per chain, what the tick of the monitor is doing
  tx,        \* the transactions on both chains
  delay,     \* the delay of the commitment's outputs has passed
  signed,    \* the peer has the signatures of the cooperative closing
  upset,     \* a save failed, or one closing wrote over the other's or its own end
  restarts

program == <<ch, disk, active, resv, saved, height>>
callers == <<call, mutex, tick>>
chains == <<tx, delay, signed>>
vars == <<opening, program, callers, chains, upset, restarts>>

Closers == {None, "closing", "commit", "sweep"}
Channel == [status : Statuses, closing : Closers]
Handlers == {"idle", "anchor", "ready", "finish", "close", "height"}
Views == [at : Statuses \cup Handlers, resv : Kinds, closing : Closers]
IdleTick == [at |-> "idle", resv |-> "open", closing |-> None]

TypeOK ==
  /\ opening \in Openings
  /\ ch \in Channel
  /\ disk \in Channel
  /\ active \in BOOLEAN
  /\ resv \subseteq Kinds
  /\ saved \in [Kinds -> {None, "pending", "closed"}]
  /\ height \subseteq Kinds
  /\ call \in [Kinds -> {"idle", "record", "keep", "save", "wait", "messages", "started",
                         "deanchor", "tell", "commit", "other", "done"}]
  /\ mutex \in Kinds \cup {None}
  /\ tick \in [Ticks -> Views]
  /\ tx \in [Txs -> {None, "pool", "confirmed"}]
  /\ {delay, signed, upset} \subseteq BOOLEAN
  /\ restarts \in 0 .. MaxRestart

NoChannel == [status |-> None, closing |-> None]

Init ==
  /\ opening \in Openings
  /\ ch = NoChannel /\ disk = NoChannel /\ active = FALSE
  /\ resv = {} /\ saved = [k \in Kinds |-> None] /\ height = {}
  /\ call = [k \in Kinds |-> "idle"] /\ mutex = None
  /\ tick = [t \in Ticks |-> IdleTick]
  /\ tx = [t \in Txs |->
       IF t \in {"funding", "anchor"} /\ ~opening.anchor THEN "confirmed"
       ELSE IF t = "funding" /\ ~opening.send THEN "pool" ELSE None]
  /\ delay = FALSE /\ signed = FALSE /\ upset = FALSE /\ restarts = 0

-----------------------------------------------------------------------------
(* The chains.                                                             *)

\* What spends the same output, and what has to be there before.
Rival(t) ==
  CASE t = "closing" -> "commit" [] t = "commit" -> "closing"
    [] t = "deanchor" -> "commit deanchor" [] t = "commit deanchor" -> "deanchor"
    [] OTHER -> t
Parent(t) ==
  CASE t \in {"closing", "commit"} -> "funding"
    [] t \in {"deanchor", "commit deanchor"} -> "anchor"
    [] OTHER -> t

Accepts(t) ==
  /\ tx[t] = None /\ tx[Rival(t)] = None
  /\ Parent(t) # t => tx[Parent(t)] # None
  /\ t = "sweep" => delay

\* Transaction t gets into the pool, unless it is there.
Reaches(t) ==
  /\ Accepts(t) \/ tx[t] # None
  /\ tx' = [tx EXCEPT ![t] = IF @ = None THEN "pool" ELSE @]
  /\ UNCHANGED <<delay, signed>>

\* ... and the wallet knows it: from the answer, or on layer 1 without one when
\* the transaction is visible.
Answered(t) ==
  /\ tx[t] = "confirmed" /\ "refuse" \in Faults => "lost" \in Faults /\ t \in Txs1
  /\ Reaches(t)

Unanswered(t) == "lost" \in Faults /\ (Reaches(t) \/ UNCHANGED chains)
Refused(t) == ~Accepts(t) /\ (tx[t] # None => "refuse" \in Faults) /\ UNCHANGED chains

Confirm(t) ==
  /\ tx[t] = "pool"
  /\ tx' = [tx EXCEPT ![t] = "confirmed"]
  /\ UNCHANGED <<opening, program, callers, delay, signed, upset, restarts>>

DelayPasses ==
  /\ tx["commit"] = "confirmed" /\ ~delay
  /\ delay' = TRUE
  /\ UNCHANGED <<opening, program, callers, tx, signed, upset, restarts>>

\* The peer's side of the protocol broadcasts in the same order.
PeerSends(t) ==
  /\ CASE t = "anchor" -> tx["funding"] = "confirmed" /\ call["open"] # "idle"
       [] t = "deanchor" -> signed
       [] t = "closing" -> signed /\ tx["deanchor"] = "confirmed"
       [] OTHER -> FALSE
  /\ tx[t] = None /\ Reaches(t)
  /\ UNCHANGED <<opening, program, callers, upset, restarts>>

\* What the indexer says of transaction t.  Mutant: it is enough that it is seen.
IsTxVisible(t) == tx[t] # None
IsTxConfirmed(t) == tx[t] = "confirmed"

-----------------------------------------------------------------------------
(* Saving.                                                                 *)

\* ok is the result of a save; over says that the step writes over a status it
\* has not looked at.
Result(ok, over) ==
  /\ ok \/ "store" \in Faults
  /\ upset' = (upset \/ ~ok \/ over)

Ended == ch.status \in {"CLOSED", "CLOSED_FORCELY"}

\* SaveChannelToDB after an assignment: the write fails, or the backup after it.
SaveOver(c, ok, over) ==
  /\ ch' = c
  /\ disk' \in (IF ok THEN {c} ELSE {disk, c})
  /\ Result(ok, over)

Save(c, ok) == SaveOver(c, ok, Ended)

SaveResv(k, s, ok) ==
  /\ saved' = IF ok THEN [saved EXCEPT ![k] = s] ELSE saved
  /\ Result(ok, FALSE)

\* An assignment, and the saves of the reservation and then of the channel.
SaveBoth(k, s, c, ok, over) ==
  \/ /\ saved' = [saved EXCEPT ![k] = s]
     /\ SaveOver(c, ok, over)
  \/ /\ ~ok /\ ch' = c /\ UNCHANGED <<disk, saved>>
     /\ Result(ok, over)

With(status) == [ch EXCEPT !.status = status]

-----------------------------------------------------------------------------
(* Opening.  The messages with the peer before the broadcast leave nothing.*)

At(k, at) == call[k] = at
CallTo(k, at) == call' = [call EXCEPT ![k] = at]

FundingStatus == IF opening.send THEN "FUNDING_BROADCASTED" ELSE "FUNDING_CONFIRMED"

\* BroadcastTxsIrreversibleL1 knows the result, does not know it and goes on,
\* or has an error, and the opening ends.
BroadcastFunding ==
  /\ At("open", "idle")
  /\ IF opening.send
     THEN \/ (Answered("funding") \/ Unanswered("funding")) /\ CallTo("open", "record")
          \/ UNCHANGED chains /\ CallTo("open", "done")
     ELSE UNCHANGED chains /\ CallTo("open", "record")
  /\ UNCHANGED <<opening, program, mutex, tick, upset, restarts>>

\* AddResv, with the status ...
RecordFunding ==
  /\ At("open", "record")
  /\ ch' = With(FundingStatus)
  /\ resv' = resv \cup {"open"}
  /\ CallTo("open", "keep")
  /\ UNCHANGED <<opening, disk, active, saved, height, mutex, tick, chains, upset, restarts>>

\* The status of the reservation.  Mutant: nobody has set it.
NoResvStatus == "closed"
ResvStatus == IF saved["open"] = "closed" THEN "closed" ELSE "pending"

\* ... and the two saves, of which either may end the opening.
KeepFunding ==
  /\ At("open", "keep")
  /\ \E ok \in BOOLEAN :
       /\ SaveResv("open", ResvStatus, ok)
       /\ resv' = IF ok THEN resv ELSE resv \ {"open"}
       /\ CallTo("open", IF ok THEN "save" ELSE "done")
  /\ UNCHANGED <<opening, ch, disk, active, height, mutex, tick, chains, restarts>>

SaveFunding ==
  /\ At("open", "save")
  /\ \E ok \in BOOLEAN :
       /\ Save(ch, ok)
       /\ resv' = IF ok THEN resv ELSE resv \ {"open"}
  /\ CallTo("open", "done")
  /\ UNCHANGED <<opening, active, saved, height, mutex, tick, chains, restarts>>

-----------------------------------------------------------------------------
(* Closing together with the peer, CloserInitCoopCloseProcess.             *)

\* GetChannel, before the mutex.
GetForClosing ==
  /\ "coop" \in Closings /\ At("coop", "idle") /\ active
  /\ CallTo("coop", "wait")
  /\ UNCHANGED <<opening, program, mutex, tick, chains, upset, restarts>>

LockForClosing ==
  /\ At("coop", "wait") /\ mutex = None
  /\ mutex' = "coop" /\ CallTo("coop", "messages")
  /\ UNCHANGED <<opening, program, tick, chains, upset, restarts>>

EndOfCall(k) == CallTo(k, "done") /\ mutex' = None

\* The peer refuses, or its last answer is lost.
ClosingRefused ==
  /\ At("coop", "messages")
  /\ EndOfCall("coop")
  /\ UNCHANGED signed \/ ("lost" \in Faults /\ signed' = TRUE)
  /\ UNCHANGED <<opening, program, tick, tx, delay, upset, restarts>>

\* Both signatures are there: the status changes, the reservation is saved.
StartClosing ==
  /\ At("coop", "messages")
  /\ ch' = [status |-> "CLOSING_STARTED", closing |-> "closing"]
  /\ \E ok \in BOOLEAN :
       /\ saved' = IF ok THEN [saved EXCEPT !["coop"] = "pending"] ELSE saved
       /\ Result(ok, ch.status # "READY")
       /\ IF ok THEN CallTo("coop", "started") /\ UNCHANGED mutex
          ELSE EndOfCall("coop")
  /\ signed' = TRUE
  /\ UNCHANGED <<opening, disk, active, resv, height, tick, tx, delay, restarts>>

\* The channel is saved; addResv, disableChannel.
EnterClosing ==
  /\ At("coop", "started")
  /\ \E ok \in BOOLEAN :
       /\ Save(ch, ok)
       /\ resv' = IF ok THEN resv \cup {"coop"} ELSE resv
       /\ active' = (active /\ ~ok)
       /\ IF ok THEN CallTo("coop", "deanchor") /\ UNCHANGED mutex
          ELSE EndOfCall("coop")
  /\ UNCHANGED <<opening, saved, height, tick, chains, restarts>>

\* The result of the broadcast is not looked at.
BroadcastDeAnchor ==
  /\ At("coop", "deanchor")
  /\ Answered("deanchor") \/ Unanswered("deanchor") \/ Refused("deanchor")
  /\ CallTo("coop", "tell")
  /\ UNCHANGED <<opening, program, mutex, tick, upset, restarts>>

\* The call to the peer is over; nor is the status looked at.
LeaveClosing ==
  /\ At("coop", "tell")
  /\ \E ok \in BOOLEAN : Save(With("CLOSING_DEANCHOR_BROADCASTED"), ok)
  /\ EndOfCall("coop")
  /\ UNCHANGED <<opening, active, resv, saved, height, tick, chains, restarts>>

-----------------------------------------------------------------------------
(* Closing by force, CloserForcelyClose and ForcelyCloseChannel.           *)

\* The status is checked before the mutex is taken.
GetForForce ==
  /\ "force" \in Closings /\ At("force", "idle") /\ active
  /\ ch.status = "READY"
  /\ CallTo("force", "wait")
  /\ UNCHANGED <<opening, program, mutex, tick, chains, upset, restarts>>

LockForForce ==
  /\ At("force", "wait") /\ mutex = None
  /\ mutex' = "force" /\ CallTo("force", "deanchor")
  /\ UNCHANGED <<opening, program, tick, chains, upset, restarts>>

ForceDeAnchor ==
  LET t == "commit deanchor" IN
  /\ At("force", "deanchor")
  /\ Answered(t) \/ Unanswered(t) \/ Refused(t)
  /\ CallTo("force", "commit")
  /\ UNCHANGED <<opening, program, mutex, tick, upset, restarts>>

\* An unknown result counts as one; an error leads to the other provider.
ForceCommit ==
  /\ At("force", "commit")
  /\ \/ (Answered("commit") \/ Unanswered("commit")) /\ CallTo("force", "save")
     \/ ("lost" \in Faults \/ ~Accepts("commit")) /\ UNCHANGED chains
        /\ CallTo("force", "other")
  /\ UNCHANGED <<opening, program, mutex, tick, upset, restarts>>

\* When the other provider fails as well, nothing is recorded.
OtherProvider ==
  /\ At("force", "other")
  /\ \/ Answered("commit") /\ CallTo("force", "save") /\ UNCHANGED mutex
     \/ (UNCHANGED chains \/ Reaches("commit")) /\ EndOfCall("force")
  /\ UNCHANGED <<opening, program, tick, upset, restarts>>

\* The reservation is saved with status 0, which means closed.
RecordForce ==
  /\ At("force", "save")
  /\ resv' = resv \cup {"force"} /\ active' = FALSE
  /\ \E ok \in BOOLEAN :
       SaveBoth("force", "closed", [status |-> "CLOSE_FORCELY_BROADCASTED", closing |-> "commit"],
                ok, ch.status # "READY")
  /\ EndOfCall("force")
  /\ UNCHANGED <<opening, height, tick, chains, restarts>>

-----------------------------------------------------------------------------
(* The ticks of the monitor, HandleChannelReservationStatus.               *)

\* The statuses each tick handles for each type of reservation.
Handled(t, k) ==
  IF t = "L1"
  THEN IF k = "open" THEN {"FUNDING_BROADCASTED", "FUNDING_CONFIRMED"}
       ELSE {"CLOSING_STARTED", "CLOSING_BROADCASTED", "CLOSE_FORCELY_BROADCASTED",
             "CLOSE_FORCELY_CONFIRMED", "CLOSE_FORCELY_SWEEP_BROADCASTED"}
  ELSE IF k = "open" THEN {"ANCHOR_BROADCASTED", "READY"}
       ELSE {"CLOSING_DEANCHOR_BROADCASTED", "ANCHOR_CONFIRMED"}

DeAnchorOf(k) == IF k = "force" THEN "commit deanchor" ELSE "deanchor"

\* What the tick broadcasts where it is.
Sends(t) ==
  LET x == tick[t] IN
  CASE x.at = "FUNDING_BROADCASTED" -> {"funding"}
    [] x.at \in {"anchor", "ANCHOR_BROADCASTED"} -> {"anchor"}
    [] x.at \in {"CLOSING_STARTED", "CLOSING_DEANCHOR_BROADCASTED", "ANCHOR_CONFIRMED"} ->
         {DeAnchorOf(x.resv)}
    [] x.at = "close" -> {x.closing}
    [] x.at = "CLOSE_FORCELY_BROADCASTED" -> {DeAnchorOf(x.resv), "commit"}
    [] x.at = "CLOSE_FORCELY_CONFIRMED" /\ ~opening.dust -> {"sweep"}
    [] OTHER -> {}

Goto(t, at) == tick' = [tick EXCEPT ![t].at = at]
Leave(t) == tick' = [tick EXCEPT ![t] = IdleTick]
GoIf(t, ok, at) == IF ok THEN Goto(t, at) ELSE Leave(t)

\* A reservation of the snapshot and its channel's status are read.
LookAt(t, k) ==
  /\ tick[t].at = "idle" /\ k \in resv
  /\ ch.status \in Handled(t, k)
  /\ tick' = [tick EXCEPT ![t] = [at |-> ch.status, resv |-> k, closing |-> ch.closing]]
  /\ UNCHANGED <<opening, program, call, mutex, chains, upset, restarts>>

\* A query or a broadcast fails, is refused or finds nothing new: the status
\* stays for the next tick ...
NotYet(t) ==
  /\ tick[t].at \notin {"idle", "ready", "finish", "READY"}
  /\ Leave(t)
  /\ UNCHANGED <<opening, program, call, mutex, chains, upset, restarts>>

\* ... but what was sent, for the first time or again, has got through.
Resend(t, s) ==
  /\ tx[s] = None /\ Reaches(s)
  /\ Leave(t)
  /\ UNCHANGED <<opening, program, call, mutex, upset, restarts>>

TickAt(t, at) == tick[t].at = at

\* HandleChannelConfirmed.
ChannelConfirmed ==
  /\ tick["L1"].at \in {"FUNDING_BROADCASTED", "FUNDING_CONFIRMED"}
  /\ IsTxConfirmed("funding")
  /\ \E ok \in BOOLEAN :
       /\ SaveBoth("open", "pending", With("FUNDING_CONFIRMED"), ok, Ended)
       /\ GoIf("L1", ok, IF opening.anchor THEN "anchor" ELSE "ready")
  /\ UNCHANGED <<opening, active, resv, height, call, mutex, chains, restarts>>

\* A broadcast that is answered, and the status after it.
SendAndSave(t, s, status) ==
  /\ Answered(s)
  /\ \E ok \in BOOLEAN : Save(With(status), ok)
  /\ Leave(t)
  /\ UNCHANGED <<opening, active, resv, saved, height, call, mutex, restarts>>

AnchorFunding ==
  /\ TickAt("L1", "anchor") /\ Answered("anchor")
  /\ \E ok \in BOOLEAN : SaveBoth("open", "pending", With("ANCHOR_BROADCASTED"), ok, Ended)
  /\ Leave("L1")
  /\ UNCHANGED <<opening, active, resv, height, call, mutex, restarts>>

AnchorConfirmed ==
  /\ TickAt("L2", "ANCHOR_BROADCASTED") /\ IsTxConfirmed("anchor")
  /\ Goto("L2", "ready")
  /\ UNCHANGED <<opening, program, call, mutex, chains, upset, restarts>>

\* HandleChannelReady: saved and enabled ...
ChannelReady(t) ==
  /\ TickAt(t, "ready")
  /\ \E ok \in BOOLEAN :
       /\ Save(With("READY"), ok)
       /\ active' = (active \/ ok)
       /\ GoIf(t, ok, "finish")
  /\ UNCHANGED <<opening, resv, saved, height, call, mutex, chains, restarts>>

\* ... and, the peer told, the reservation is closed.
OpeningDone(t) ==
  /\ TickAt(t, "finish")
  /\ \E ok \in BOOLEAN :
       /\ SaveResv("open", "closed", ok)
       /\ resv' = IF ok THEN resv \ {"open"} ELSE resv
  /\ Leave(t)
  /\ UNCHANGED <<opening, ch, disk, active, height, call, mutex, chains, restarts>>

\* The reservation of a channel that is ready is dropped, saved or not.
DropOpening ==
  /\ TickAt("L2", "READY")
  /\ \E ok \in BOOLEAN : SaveResv("open", "closed", ok)
  /\ resv' = resv \ {"open"}
  /\ Leave("L2")
  /\ UNCHANGED <<opening, ch, disk, active, height, call, mutex, chains, restarts>>

\* HandleClosingStarted.
ClosingStarted ==
  /\ TickAt("L1", "CLOSING_STARTED")
  /\ SendAndSave("L1", DeAnchorOf(tick["L1"].resv), "CLOSING_DEANCHOR_BROADCASTED")

\* HandleClosingConfirmed: the status, and then the transaction.
ClosingConfirmed ==
  /\ \E ok \in BOOLEAN :
       /\ Save(With("ANCHOR_CONFIRMED"), ok)
       /\ tick' = [tick EXCEPT !["L2"] =
            IF ok THEN [@ EXCEPT !.at = "close", !.closing = ch.closing] ELSE IdleTick]
  /\ UNCHANGED <<opening, active, resv, saved, height, call, mutex, chains, restarts>>

\* Mutant: a deanchor seen once need not be asked for again.
DeAnchorAskedOnce ==
  /\ \/ TickAt("L2", "ANCHOR_CONFIRMED")
     \/ TickAt("L2", "CLOSING_DEANCHOR_BROADCASTED") /\ IsTxVisible("deanchor")
  /\ ClosingConfirmed
DeAnchorConfirmed ==
  /\ tick["L2"].at \in {"CLOSING_DEANCHOR_BROADCASTED", "ANCHOR_CONFIRMED"}
  /\ IsTxConfirmed("deanchor")
  /\ ClosingConfirmed

SendClosing ==
  /\ TickAt("L2", "close")
  /\ SendAndSave("L2", tick["L2"].closing, "CLOSING_BROADCASTED")

\* HandleChannelClosed and HandleChannelForceCloseSweepConfirmed: the
\* reservation is dropped first.
Finish(k, status) ==
  /\ resv' = resv \ {k}
  /\ \E ok \in BOOLEAN : Save(With(status), ok)
  /\ Leave("L1")
  /\ UNCHANGED <<opening, active, saved, height, call, mutex, chains, restarts>>

ChannelClosed ==
  /\ TickAt("L1", "CLOSING_BROADCASTED")
  /\ IsTxConfirmed(tick["L1"].closing)
  /\ Finish(tick["L1"].resv, "CLOSED")

SweepConfirmed ==
  /\ TickAt("L1", "CLOSE_FORCELY_SWEEP_BROADCASTED")
  /\ IsTxConfirmed(tick["L1"].closing)
  /\ Finish(tick["L1"].resv, "CLOSED_FORCELY")

\* HandleChannelForceCloseConfirmed: the status, and then the height.
ForceConfirmed ==
  /\ TickAt("L1", "CLOSE_FORCELY_BROADCASTED")
  /\ IsTxConfirmed(tick["L1"].closing)
  /\ \E ok \in BOOLEAN :
       /\ Save(With("CLOSE_FORCELY_CONFIRMED"), ok)
       /\ GoIf("L1", ok, "height")
  /\ UNCHANGED <<opening, active, resv, saved, height, call, mutex, chains, restarts>>

LearnHeight ==
  LET k == tick["L1"].resv IN
  /\ TickAt("L1", "height")
  /\ height' = height \cup {k}
  /\ \E ok \in BOOLEAN : SaveResv(k, IF k = "force" THEN "closed" ELSE "pending", ok)
  /\ Leave("L1")
  /\ UNCHANGED <<opening, ch, disk, active, resv, call, mutex, chains, restarts>>

\* HandleChannelForceCloseWaitToSweep: an unknown height is 0.
DelayOver == tick["L1"].resv \in height => delay

Sweep ==
  /\ TickAt("L1", "CLOSE_FORCELY_CONFIRMED") /\ DelayOver
  /\ ~opening.dust /\ Answered("sweep")
  /\ \E ok \in BOOLEAN :
       Save([status |-> "CLOSE_FORCELY_SWEEP_BROADCASTED", closing |-> "sweep"], ok)
  /\ Leave("L1")
  /\ UNCHANGED <<opening, active, resv, saved, height, call, mutex, restarts>>

\* Mutant: a sweep that cannot be built counts as none.
NoSweep ==
  /\ TickAt("L1", "CLOSE_FORCELY_CONFIRMED") /\ DelayOver
  /\ Finish(tick["L1"].resv, "CLOSED_FORCELY")
NothingToSweep ==
  /\ TickAt("L1", "CLOSE_FORCELY_CONFIRMED") /\ DelayOver
  /\ opening.dust
  /\ Finish(tick["L1"].resv, "CLOSED_FORCELY")

-----------------------------------------------------------------------------

\* LoadAllResvFromDB.  Mutant: it does not know the closings.
LoadOpenings == {"open"} \cap {k \in Kinds : saved[k] = "pending"}
LoadAllResv == {k \in Kinds : saved[k] = "pending"}

\* The memory is gone.  initDB loads the reservations that are not closed, the
\* embedding program the channel unless it is closed, and links them.
Restart ==
  /\ restarts < MaxRestart /\ restarts' = restarts + 1
  /\ ch' = disk
  /\ active' = (disk.status = "READY")
  /\ resv' = IF disk.status \in {None, "CLOSED", "CLOSED_FORCELY"} THEN {} ELSE LoadAllResv
  /\ height' = {}
  /\ call' = [k \in Kinds |-> IF call[k] = "idle" THEN "idle" ELSE "done"]
  /\ mutex' = None
  /\ tick' = [t \in Ticks |-> IdleTick]
  /\ UNCHANGED <<opening, disk, saved, chains, upset>>

OpenCall == BroadcastFunding \/ RecordFunding \/ KeepFunding \/ SaveFunding
CoopReturns == ClosingRefused \/ StartClosing \/ EnterClosing \/ BroadcastDeAnchor \/ LeaveClosing
CoopCall == GetForClosing \/ LockForClosing \/ CoopReturns
ForceReturns == ForceDeAnchor \/ ForceCommit \/ OtherProvider \/ RecordForce
ForceCall == GetForForce \/ LockForForce \/ ForceReturns
Queries ==
  \/ ChannelConfirmed \/ AnchorConfirmed \/ DeAnchorConfirmed \/ ChannelClosed
  \/ ForceConfirmed \/ LearnHeight \/ SweepConfirmed
Broadcasts == AnchorFunding \/ ClosingStarted \/ SendClosing \/ Sweep \/ NothingToSweep
Look(t) == \E k \in Kinds : LookAt(t, k)
Resent(t) == \E s \in Sends(t) : Resend(t, s)
Local(t) == ChannelReady(t) \/ OpeningDone(t) \/ (t = "L2" /\ DropOpening)
Monitor ==
  \/ Queries \/ Broadcasts
  \/ \E t \in Ticks : Look(t) \/ NotYet(t) \/ Resent(t) \/ Local(t)
World == DelayPasses \/ \E t \in Txs : Confirm(t) \/ PeerSends(t)

Next == OpenCall \/ CoopCall \/ ForceCall \/ Monitor \/ World \/ Restart

Spec == Init /\ [][Next]_vars

\* The goroutines are scheduled, Go's mutex does not starve a waiter, a tick
\* comes to the reservations again and again; of the requests that are repeated
\* some are answered; the chains confirm what they hold.
Fairness ==
  /\ WF_vars(RecordFunding \/ KeepFunding \/ SaveFunding)
  /\ WF_vars(LockForClosing \/ CoopReturns) /\ WF_vars(LockForForce \/ ForceReturns)
  /\ \A t \in Ticks : WF_vars(Look(t)) /\ WF_vars(NotYet(t) \/ Local(t))
  /\ SF_vars(Queries) /\ SF_vars(Broadcasts) /\ SF_vars(\E t \in Ticks : Resent(t))
  /\ WF_vars(DelayPasses \/ \E t \in Txs : Confirm(t))

FairSpec == Spec /\ Fairness

-----------------------------------------------------------------------------
(* Properties.                                                             *)

\* Layer 2 never gets assets that layer 1 does not hold yet, whichever of the
\* call, the tick and the peer broadcasts the anchor.
AnchorAfterFunding == tx["anchor"] # None => tx["funding"] = "confirmed"

\* Layer 1 never pays the channel out together with the peer before layer 2 has
\* given the assets back.
ClosingAfterDeAnchor == tx["closing"] # None => tx["deanchor"] = "confirmed"

\* A channel that is saved as closed has been paid out on layer 1, and swept if
\* it is saved as closed by force: a restart does not load it again
\* (LoadAllChannelsFromDB), so what was not paid by then would be forgotten.
EndIsOnChain ==
  /\ disk.status = "CLOSED" =>
       \E t \in {"closing", "commit", "sweep"} : tx[t] = "confirmed"
  /\ disk.status = "CLOSED_FORCELY" =>
       tx["commit"] = "confirmed" /\ (opening.dust \/ tx["sweep"] = "confirmed")

InOpening == {"FUNDING_BROADCASTED", "FUNDING_CONFIRMED", "ANCHOR_BROADCASTED"}
InClosing == {"CLOSING_STARTED", "CLOSING_DEANCHOR_BROADCASTED", "ANCHOR_CONFIRMED",
              "CLOSING_BROADCASTED"}
InForce == {"CLOSE_FORCELY_BROADCASTED", "CLOSE_FORCELY_CONFIRMED",
            "CLOSE_FORCELY_SWEEP_BROADCASTED"}

Running(k) == call[k] \notin {"idle", "done"}

\* A channel between two of its lasting states has the reservation that moves it
\* on, in memory and after a restart, across the calls, the two ticks and a
\* crash between any two saves.  A forced closing is saved as closed already and
\* does not survive a restart; a failed save, and a step that writes over a
\* status it has not looked at, break the promise (upset).
Carried ==
  ~upset =>
    /\ ch.status \in InOpening => "open" \in resv
    /\ ch.status \in InClosing => "coop" \in resv \/ Running("coop")
    /\ ch.status \in InForce /\ restarts = 0 => "force" \in resv
    /\ disk.status \in InOpening => saved["open"] = "pending"
    /\ disk.status \in InClosing => saved["coop"] = "pending"

ForceBegun == \E t \in {"commit", "commit deanchor"} : tx[t] # None

\* Once the funding is saved the channel becomes ready.
OpeningEnds ==
  disk.status = "FUNDING_BROADCASTED" ~> disk.status = "READY" \/ upset

\* A cooperative closing that is saved gets to its end, unless a closing by
\* force has sent something that conflicts with it.
ClosingEnds ==
  disk.status \in InClosing ~> disk.status = "CLOSED" \/ upset \/ ForceBegun

\* A closing by force that is recorded ends with the sweep, unless the peer can
\* close cooperatively against it or a restart has dropped its reservation.
ForceEnds ==
  "force" \in resv ~>
    disk.status = "CLOSED_FORCELY" \/ upset \/ signed \/ restarts > 0

\* Whatever answers are lost and whenever the process restarts, the ticks carry
\* an opening and either closing, once on record, to its end.
CoursesEnd == OpeningEnds /\ ClosingEnds /\ ForceEnds

-----------------------------------------------------------------------------
(* Why the first three hold: what a status, wherever it is kept, says of   *)
(* the chains.                                                             *)

Confirmed(t) == tx[t] = "confirmed"

\* The status and the ClosingTx of channel c, in memory or on disk.
Place(c) ==
  /\ c.status = "ANCHOR_BROADCASTED" => Confirmed("funding")
  /\ c.status \in InClosing => c.closing # None
  /\ c.status = "CLOSE_FORCELY_BROADCASTED" => c.closing = "commit"
  /\ c.status = "CLOSE_FORCELY_CONFIRMED" => Confirmed("commit")
  /\ c.status = "CLOSE_FORCELY_SWEEP_BROADCASTED" => c.closing = "sweep"
  /\ c.status = "CLOSED" => \E t \in {"closing", "commit", "sweep"} : Confirmed(t)
  /\ c.status = "CLOSED_FORCELY" =>
       Confirmed("commit") /\ (opening.dust \/ Confirmed("sweep"))

\* What a tick has looked at, which the channel may have left.
Looked(x) ==
  /\ x.at \in {"anchor", "ANCHOR_BROADCASTED"} => Confirmed("funding")
  /\ x.at \in InClosing \cup {"close"} => x.closing # None /\ ch.closing # None
  /\ x.at = "close" => Confirmed("deanchor")
  /\ x.at = "CLOSE_FORCELY_BROADCASTED" => x.closing = "commit"
  /\ x.at \in {"CLOSE_FORCELY_CONFIRMED", "height"} => Confirmed("commit")
  /\ x.at = "CLOSE_FORCELY_SWEEP_BROADCASTED" => x.closing = "sweep"

ChainInv ==
  /\ AnchorAfterFunding /\ ClosingAfterDeAnchor
  /\ tx["sweep"] # None => delay
  /\ delay => Confirmed("commit")

CourseInv ==
  /\ ChainInv
  /\ Place(ch) /\ Place(disk)
  /\ \A t \in Ticks : Looked(tick[t])
  /\ call["coop"] \in {"started", "deanchor", "tell"} => ch.closing # None
-----------------------------------------------------------------------------
(* Why Carried holds: how far the channel may have gone on while a tick or *)
(* a call acts on what it has read.                                        *)

Funding == {"FUNDING_BROADCASTED", "FUNDING_CONFIRMED"}

\* Tick t, which looked at the channel and is now at x.
Abreast(t, x) ==
  /\ x.at \in Funding \cup {"anchor"} => t = "L1" /\ ch.status \in Funding
  /\ x.at = "ANCHOR_BROADCASTED" => t = "L2" /\ ch.status = "ANCHOR_BROADCASTED"
  /\ x.at = "ready" =>
       ch.status \in IF t = "L1" THEN Funding ELSE {"ANCHOR_BROADCASTED"}
  /\ x.at \in {"finish", "READY"} => ch.status \notin InOpening \cup {None}
  /\ x.at \in InClosing \cup {"close"} => ch.status \in InClosing \cup {"CLOSED"}
  /\ x.at \in InForce \cup {"height"} => ch.status \in InForce \cup {"CLOSED_FORCELY"}

\* The calls: before the opening has recorded anything there is nothing, and
\* the peer's closing is not left for another course.
InCall ==
  /\ call["open"] \in {"idle", "record"} =>
       ch.status = None /\ disk.status = None /\ saved["open"] = None
  /\ call["coop"] \in {"started", "deanchor", "tell"} =>
       ch.status \in InClosing \cup {"CLOSED"}

\* What the disk has of the channel's course.
OnRecord ==
  /\ ch.status \in InOpening =>
       \/ saved["open"] = "pending"
       \/ call["open"] = "keep" /\ saved["open"] # "closed"
  /\ ch.status \in InClosing =>
       saved["coop"] = "pending" /\ ("coop" \in resv \/ call["coop"] = "started")
  /\ \/ disk = ch
     \/ disk.status = None /\ ch.status \in InOpening /\ call["open"] \in {"keep", "save"}
     \/ disk.status = "READY" /\ call["coop"] = "started"

CarryInv ==
  /\ Carried
  /\ ~upset => InCall /\ OnRecord /\ \A t \in Ticks : Abreast(t, tick[t])
=============================================================================
