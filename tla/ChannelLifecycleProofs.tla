----------------------- MODULE ChannelLifecycleProofs -----------------------
(* What is proved of a channel's life, for any faults, any ways to open it, *)
(* any calls and any number of restarts.                                    *)
EXTENDS ChannelLifecycle, TLAPS

USE DEF program, callers, chains, IsTxConfirmed

-----------------------------------------------------------------------------
(* Type correctness.                                                        *)

CallSteps == {"idle", "record", "keep", "save", "wait", "messages", "started",
              "deanchor", "tell", "commit", "other", "done"}
TxStates == {None, "pool", "confirmed"}

LEMMA InitType == Init => TypeOK
<1>. SUFFICES ASSUME Init PROVE TypeOK
  OBVIOUS
<1>1. opening \in Openings /\ NoChannel \in Channel /\ IdleTick \in Views
  BY DEF Init, NoChannel, Channel, Statuses, Closers, IdleTick, Views, Handlers, Kinds, None
<1>2. tx \in [Txs -> TxStates]
  BY DEF Init, TxStates
<1>3. call \in [Kinds -> CallSteps] /\ saved \in [Kinds -> {None, "pending", "closed"}]
  BY DEF Init, CallSteps
<1>4. tick \in [Ticks -> Views]
  BY <1>1 DEF Init
<1>5. restarts \in 0 .. MaxRestart
  BY RestartAssumption DEF Init
<1>. QED
  BY <1>1, <1>2, <1>3, <1>4, <1>5 DEF Init, TypeOK, TxStates, CallSteps

\* What the chains make of one transaction that reaches them.
LEMMA ReachesType ==
  ASSUME TypeOK, NEW t, Reaches(t)
  PROVE  /\ tx' \in [Txs -> TxStates] /\ UNCHANGED <<delay, signed>>
         /\ \A x \in Txs : tx[x] # None \/ x # t => tx'[x] = tx[x]
         /\ tx[t] = None => Accepts(t)
BY DEF Reaches, TypeOK, TxStates, None

LEMMA AnsweredType ==
  ASSUME TypeOK, NEW t, Answered(t) \/ Unanswered(t) \/ Refused(t)
  PROVE  tx' \in [Txs -> TxStates] /\ UNCHANGED <<delay, signed>>
BY ReachesType DEF Answered, Unanswered, Refused, TypeOK, TxStates

LEMMA WithType ==
  ASSUME TypeOK, NEW s \in Statuses
  PROVE  With(s) \in Channel /\ With(s).status = s /\ With(s).closing = ch.closing
BY DEF With, TypeOK, Channel

LEMMA SaveType ==
  ASSUME TypeOK, NEW c \in Channel, NEW ok, NEW over \in BOOLEAN, ok \in BOOLEAN,
         SaveOver(c, ok, over)
  PROVE  ch' \in Channel /\ disk' \in Channel /\ upset' \in BOOLEAN
BY DEF SaveOver, Result, TypeOK

LEMMA PlainSaveType ==
  ASSUME TypeOK, NEW c \in Channel, NEW ok \in BOOLEAN, Save(c, ok)
  PROVE  ch' \in Channel /\ disk' \in Channel /\ upset' \in BOOLEAN
<1>1. Ended \in BOOLEAN /\ SaveOver(c, ok, Ended)
  BY DEF Ended, Save
<1>. QED
  BY <1>1, SaveType

LEMMA SaveBothType ==
  ASSUME TypeOK, NEW k \in Kinds, NEW s \in {"pending", "closed"}, NEW c \in Channel,
         NEW ok \in BOOLEAN, NEW over \in BOOLEAN, SaveBoth(k, s, c, ok, over)
  PROVE  /\ ch' \in Channel /\ disk' \in Channel /\ upset' \in BOOLEAN
         /\ saved' \in [Kinds -> {None, "pending", "closed"}]
BY DEF SaveBoth, SaveOver, Result, TypeOK

LEMMA SaveResvType ==
  ASSUME TypeOK, NEW k \in Kinds, NEW s \in {"pending", "closed"}, NEW ok \in BOOLEAN,
         SaveResv(k, s, ok)
  PROVE  saved' \in [Kinds -> {None, "pending", "closed"}] /\ upset' \in BOOLEAN
BY DEF SaveResv, Result, TypeOK

LEMMA TickType ==
  ASSUME TypeOK, NEW t \in Ticks
  PROVE  /\ tick[t] \in Views
         /\ Leave(t) => tick' \in [Ticks -> Views]
         /\ \A at \in Statuses \cup Handlers : Goto(t, at) => tick' \in [Ticks -> Views]
<1>1. tick[t] \in Views /\ IdleTick \in Views
  BY DEF TypeOK, IdleTick, Views, Handlers, Kinds, Closers, None
<1>2. ASSUME NEW at \in Statuses \cup Handlers
      PROVE  [tick[t] EXCEPT !.at = at] \in Views
  BY <1>1 DEF Views
<1>3. ASSUME NEW at \in Statuses \cup Handlers, Goto(t, at)
      PROVE  tick' \in [Ticks -> Views]
  BY <1>2, <1>3 DEF Goto, TypeOK
<1>. QED
  BY <1>1, <1>3 DEF Leave, TypeOK

LEMMA CallType ==
  ASSUME TypeOK, NEW k \in Kinds, NEW at \in CallSteps, CallTo(k, at)
  PROVE  call' \in [Kinds -> CallSteps]
BY DEF CallTo, TypeOK, CallSteps

\* The fields that most actions leave alone.
LEMMA Kept ==
  ASSUME TypeOK
  PROVE  /\ UNCHANGED opening => opening' \in Openings
         /\ UNCHANGED ch => ch' \in Channel
         /\ UNCHANGED disk => disk' \in Channel
         /\ UNCHANGED saved => saved' \in [Kinds -> {None, "pending", "closed"}]
         /\ UNCHANGED call => call' \in [Kinds -> CallSteps]
         /\ UNCHANGED tick => tick' \in [Ticks -> Views]
         /\ UNCHANGED tx => tx' \in [Txs -> TxStates]
         /\ UNCHANGED restarts => restarts' \in 0 .. MaxRestart
BY DEF TypeOK, CallSteps, TxStates

LEMMA OpenType ==
  ASSUME TypeOK, OpenCall
  PROVE  TypeOK'
<1>0. "open" \in Kinds /\ "funding" \in Txs
  BY DEF Kinds, Txs, Txs1
<1>1. CASE BroadcastFunding
  <2>1. tx' \in [Txs -> TxStates] /\ UNCHANGED <<delay, signed>>
    BY <1>0, <1>1, AnsweredType, Kept DEF BroadcastFunding
  <2>2. call' \in [Kinds -> CallSteps]
    BY <1>0, <1>1, CallType DEF BroadcastFunding, CallSteps
  <2>. QED
    BY <1>1, <2>1, <2>2 DEF BroadcastFunding, TypeOK, TxStates, CallSteps
<1>2. CASE RecordFunding
  <2>1. ch' \in Channel
    BY <1>2, WithType DEF RecordFunding, FundingStatus, Statuses
  <2>2. call' \in [Kinds -> CallSteps]
    BY <1>0, <1>2, CallType DEF RecordFunding, CallSteps
  <2>. QED
    BY <1>0, <1>2, <2>1, <2>2 DEF RecordFunding, TypeOK, CallSteps
<1>3. CASE KeepFunding
  <2>1. saved' \in [Kinds -> {None, "pending", "closed"}] /\ upset' \in BOOLEAN
    BY <1>0, <1>3, SaveResvType DEF KeepFunding, ResvStatus
  <2>2. call' \in [Kinds -> CallSteps]
    BY <1>0, <1>3, CallType DEF KeepFunding, CallSteps
  <2>3. resv' \subseteq Kinds
    BY <1>3 DEF KeepFunding, TypeOK
  <2>. QED
    BY <1>3, <2>1, <2>2, <2>3 DEF KeepFunding, TypeOK, CallSteps
<1>4. CASE SaveFunding
  <2>1. ch' \in Channel /\ disk' \in Channel /\ upset' \in BOOLEAN
    BY <1>4, PlainSaveType DEF SaveFunding, TypeOK
  <2>2. call' \in [Kinds -> CallSteps]
    BY <1>0, <1>4, CallType DEF SaveFunding, CallSteps
  <2>3. resv' \subseteq Kinds
    BY <1>4 DEF SaveFunding, TypeOK
  <2>. QED
    BY <1>4, <2>1, <2>2, <2>3 DEF SaveFunding, TypeOK, CallSteps
<1>. QED
  BY <1>1, <1>2, <1>3, <1>4 DEF OpenCall

LEMMA CoopType ==
  ASSUME TypeOK, CoopCall
  PROVE  TypeOK'
<1>0. "coop" \in Kinds /\ "deanchor" \in Txs
  BY DEF Kinds, Txs, Txs2
<1>1. call' \in [Kinds -> CallSteps]
  BY <1>0, CallType, Kept
     DEF CoopCall, CoopReturns, GetForClosing, LockForClosing, ClosingRefused, StartClosing,
         EnterClosing, BroadcastDeAnchor, LeaveClosing, EndOfCall, CallSteps
<1>2. mutex' \in Kinds \cup {None}
  BY <1>0 DEF CoopCall, CoopReturns, GetForClosing, LockForClosing, ClosingRefused, StartClosing,
         EnterClosing, BroadcastDeAnchor, LeaveClosing, EndOfCall, TypeOK
<1>3. CASE GetForClosing \/ LockForClosing
  BY <1>1, <1>2, <1>3 DEF GetForClosing, LockForClosing, TypeOK, CallSteps
<1>8. CASE ClosingRefused
  <2>1. signed' \in BOOLEAN
    BY <1>8 DEF ClosingRefused, TypeOK
  <2>. QED
    BY <1>1, <1>2, <1>8, <2>1 DEF ClosingRefused, TypeOK, CallSteps
<1>4. CASE StartClosing
  <2>1. ch' \in Channel
    BY <1>4 DEF StartClosing, Channel, Statuses, Closers
  <2>2. saved' \in [Kinds -> {None, "pending", "closed"}] /\ upset' \in BOOLEAN
    BY <1>4 DEF StartClosing, Result, TypeOK
  <2>. QED
    BY <1>1, <1>2, <1>4, <2>1, <2>2 DEF StartClosing, TypeOK, CallSteps
<1>5. CASE EnterClosing
  <2>1. ch' \in Channel /\ disk' \in Channel /\ upset' \in BOOLEAN
    BY <1>5, PlainSaveType DEF EnterClosing, TypeOK
  <2>2. resv' \subseteq Kinds /\ active' \in BOOLEAN
    BY <1>0, <1>5 DEF EnterClosing, TypeOK
  <2>. QED
    BY <1>1, <1>2, <1>5, <2>1, <2>2 DEF EnterClosing, TypeOK, CallSteps
<1>6. CASE BroadcastDeAnchor
  <2>1. tx' \in [Txs -> TxStates] /\ UNCHANGED <<delay, signed>>
    BY <1>0, <1>6, AnsweredType DEF BroadcastDeAnchor
  <2>. QED
    BY <1>1, <1>2, <1>6, <2>1 DEF BroadcastDeAnchor, TypeOK, CallSteps, TxStates
<1>7. CASE LeaveClosing
  <2>1. With("CLOSING_DEANCHOR_BROADCASTED") \in Channel
    BY WithType DEF Statuses
  <2>2. ch' \in Channel /\ disk' \in Channel /\ upset' \in BOOLEAN
    BY <1>7, <2>1, PlainSaveType DEF LeaveClosing
  <2>. QED
    BY <1>1, <1>2, <1>7, <2>2 DEF LeaveClosing, TypeOK, CallSteps
<1>. QED
  BY <1>3, <1>4, <1>5, <1>6, <1>7, <1>8 DEF CoopCall, CoopReturns

LEMMA ForceType ==
  ASSUME TypeOK, ForceCall
  PROVE  TypeOK'
<1>0. "force" \in Kinds /\ "commit" \in Txs /\ "commit deanchor" \in Txs
  BY DEF Kinds, Txs, Txs1, Txs2
<1>1. call' \in [Kinds -> CallSteps]
  BY <1>0, CallType
     DEF ForceCall, ForceReturns, GetForForce, LockForForce, ForceDeAnchor, ForceCommit,
         OtherProvider, RecordForce, EndOfCall, CallSteps
<1>2. mutex' \in Kinds \cup {None}
  BY <1>0 DEF ForceCall, ForceReturns, GetForForce, LockForForce, ForceDeAnchor, ForceCommit,
         OtherProvider, RecordForce, EndOfCall, TypeOK
<1>3. CASE GetForForce \/ LockForForce
  BY <1>1, <1>2, <1>3 DEF GetForForce, LockForForce, TypeOK, CallSteps
<1>4. CASE ForceDeAnchor \/ ForceCommit \/ OtherProvider
  <2>1. tx' \in [Txs -> TxStates] /\ UNCHANGED <<delay, signed>>
    BY <1>0, <1>4, AnsweredType, ReachesType, Kept
       DEF ForceDeAnchor, ForceCommit, OtherProvider
  <2>. QED
    BY <1>1, <1>2, <1>4, <2>1
       DEF ForceDeAnchor, ForceCommit, OtherProvider, TypeOK, CallSteps, TxStates
<1>5. CASE RecordForce
  <2>1. [status |-> "CLOSE_FORCELY_BROADCASTED", closing |-> "commit"] \in Channel
    BY DEF Channel, Statuses, Closers
  <2>2. /\ ch' \in Channel /\ disk' \in Channel /\ upset' \in BOOLEAN
        /\ saved' \in [Kinds -> {None, "pending", "closed"}]
    BY <1>0, <1>5, <2>1, SaveBothType DEF RecordForce
  <2>3. resv' \subseteq Kinds /\ active' \in BOOLEAN
    BY <1>0, <1>5 DEF RecordForce, TypeOK
  <2>. QED
    BY <1>1, <1>2, <1>5, <2>2, <2>3 DEF RecordForce, TypeOK, CallSteps
<1>. QED
  BY <1>3, <1>4, <1>5 DEF ForceCall, ForceReturns

LEMMA DeAnchorOfTxs ==
  ASSUME NEW k
  PROVE  DeAnchorOf(k) \in Txs /\ DeAnchorOf(k) \notin {"anchor", "closing", "sweep", "commit"}
BY DEF DeAnchorOf, Txs, Txs2

\* A step that is a tick's broadcast, which is answered, and the save after it.
LEMMA SendAndSaveType ==
  ASSUME TypeOK, NEW t \in Ticks, NEW s, NEW st \in Statuses, SendAndSave(t, s, st)
  PROVE  TypeOK'
<1>1. tx' \in [Txs -> TxStates] /\ UNCHANGED <<delay, signed>>
  BY AnsweredType DEF SendAndSave
<1>2. ch' \in Channel /\ disk' \in Channel /\ upset' \in BOOLEAN
  BY WithType, PlainSaveType DEF SendAndSave
<1>3. tick' \in [Ticks -> Views]
  BY TickType DEF SendAndSave
<1>. QED
  BY <1>1, <1>2, <1>3 DEF SendAndSave, TypeOK, TxStates

\* A step that closes the channel.
LEMMA FinishType ==
  ASSUME TypeOK, NEW k \in Kinds, NEW st \in Statuses, Finish(k, st), UNCHANGED chains,
         UNCHANGED opening
  PROVE  TypeOK'
<1>1. ch' \in Channel /\ disk' \in Channel /\ upset' \in BOOLEAN
  BY WithType, PlainSaveType DEF Finish
<1>2. tick' \in [Ticks -> Views]
  BY TickType DEF Finish, Ticks
<1>3. resv' \subseteq Kinds
  BY DEF Finish, TypeOK
<1>. QED
  BY <1>1, <1>2, <1>3 DEF Finish, TypeOK

LEMMA QueriesType ==
  ASSUME TypeOK, Queries
  PROVE  TypeOK'
<1>0. /\ "L1" \in Ticks /\ "L2" \in Ticks /\ "open" \in Kinds
      /\ tick["L1"] \in Views /\ tick["L2"] \in Views
      /\ tick["L1"].resv \in Kinds /\ tick["L2"].resv \in Kinds
      /\ {"ready", "anchor", "finish", "height", "close"} \subseteq Statuses \cup Handlers
  BY DEF Ticks, TypeOK, Views, Kinds, Handlers
<1>1. CASE ChannelConfirmed
  <2>1. PICK ok \in BOOLEAN :
          /\ SaveBoth("open", "pending", With("FUNDING_CONFIRMED"), ok, Ended)
          /\ GoIf("L1", ok, IF opening.anchor THEN "anchor" ELSE "ready")
    BY <1>1 DEF ChannelConfirmed
  <2>2. With("FUNDING_CONFIRMED") \in Channel /\ Ended \in BOOLEAN
    BY WithType DEF Statuses, Ended
  <2>3. /\ ch' \in Channel /\ disk' \in Channel /\ upset' \in BOOLEAN
        /\ saved' \in [Kinds -> {None, "pending", "closed"}]
    BY <1>0, <2>1, <2>2, SaveBothType
  <2>4. tick' \in [Ticks -> Views]
    BY <1>0, <2>1, TickType DEF GoIf
  <2>. QED
    BY <1>1, <2>3, <2>4 DEF ChannelConfirmed, TypeOK
<1>2. CASE AnchorConfirmed
  <2>1. tick' \in [Ticks -> Views]
    BY <1>0, <1>2, TickType DEF AnchorConfirmed
  <2>. QED
    BY <1>2, <2>1 DEF AnchorConfirmed, TypeOK
<1>3. CASE DeAnchorConfirmed
  <2>1. PICK ok \in BOOLEAN :
          /\ Save(With("ANCHOR_CONFIRMED"), ok)
          /\ tick' = [tick EXCEPT !["L2"] =
               IF ok THEN [@ EXCEPT !.at = "close", !.closing = ch.closing] ELSE IdleTick]
    BY <1>3 DEF DeAnchorConfirmed, ClosingConfirmed
  <2>2. ch' \in Channel /\ disk' \in Channel /\ upset' \in BOOLEAN
    BY <2>1, WithType, PlainSaveType DEF Statuses
  <2>3. /\ [tick["L2"] EXCEPT !.at = "close", !.closing = ch.closing] \in Views
        /\ IdleTick \in Views
    BY <1>0 DEF TypeOK, Channel, Views, IdleTick, Handlers, Kinds, Closers
  <2>4. tick' \in [Ticks -> Views]
    BY <2>1, <2>3 DEF TypeOK
  <2>. QED
    BY <1>3, <2>2, <2>4 DEF DeAnchorConfirmed, ClosingConfirmed, TypeOK
<1>4. CASE ChannelClosed
  BY <1>0, <1>4, FinishType DEF ChannelClosed, Finish, Statuses
<1>5. CASE SweepConfirmed
  BY <1>0, <1>5, FinishType DEF SweepConfirmed, Finish, Statuses
<1>6. CASE ForceConfirmed
  <2>1. ch' \in Channel /\ disk' \in Channel /\ upset' \in BOOLEAN
    BY <1>6, WithType, PlainSaveType DEF ForceConfirmed, Statuses
  <2>2. tick' \in [Ticks -> Views]
    BY <1>0, <1>6, TickType DEF ForceConfirmed, GoIf
  <2>. QED
    BY <1>6, <2>1, <2>2 DEF ForceConfirmed, TypeOK
<1>7. CASE LearnHeight
  <2>1. saved' \in [Kinds -> {None, "pending", "closed"}] /\ upset' \in BOOLEAN
    BY <1>0, <1>7, SaveResvType DEF LearnHeight
  <2>2. tick' \in [Ticks -> Views]
    BY <1>0, <1>7, TickType DEF LearnHeight
  <2>. QED
    BY <1>0, <1>7, <2>1, <2>2 DEF LearnHeight, TypeOK
<1>. QED
  BY <1>1, <1>2, <1>3, <1>4, <1>5, <1>6, <1>7 DEF Queries

LEMMA BroadcastsType ==
  ASSUME TypeOK, Broadcasts
  PROVE  TypeOK'
<1>0. /\ "L1" \in Ticks /\ "L2" \in Ticks /\ "open" \in Kinds
      /\ tick["L1"].resv \in Kinds /\ tick["L2"].closing \in Closers
      /\ {"anchor", "sweep", "closing", "commit"} \subseteq Txs
  BY DEF Ticks, TypeOK, Views, Kinds, Txs, Txs1, Txs2
<1>1. CASE AnchorFunding
  <2>1. tx' \in [Txs -> TxStates] /\ UNCHANGED <<delay, signed>>
    BY <1>0, <1>1, AnsweredType DEF AnchorFunding
  <2>2. With("ANCHOR_BROADCASTED") \in Channel /\ Ended \in BOOLEAN
    BY WithType DEF Statuses, Ended
  <2>3. /\ ch' \in Channel /\ disk' \in Channel /\ upset' \in BOOLEAN
        /\ saved' \in [Kinds -> {None, "pending", "closed"}]
    BY <1>0, <1>1, <2>2, SaveBothType DEF AnchorFunding
  <2>4. tick' \in [Ticks -> Views]
    BY <1>0, <1>1, TickType DEF AnchorFunding
  <2>. QED
    BY <1>1, <2>1, <2>3, <2>4 DEF AnchorFunding, TypeOK, TxStates
<1>2. CASE ClosingStarted
  BY <1>0, <1>2, DeAnchorOfTxs, SendAndSaveType DEF ClosingStarted, Statuses
<1>3. CASE SendClosing
  BY <1>0, <1>3, SendAndSaveType DEF SendClosing, Statuses
<1>4. CASE Sweep
  <2>1. tx' \in [Txs -> TxStates] /\ UNCHANGED <<delay, signed>>
    BY <1>0, <1>4, AnsweredType DEF Sweep
  <2>2. [status |-> "CLOSE_FORCELY_SWEEP_BROADCASTED", closing |-> "sweep"] \in Channel
    BY DEF Channel, Statuses, Closers
  <2>3. ch' \in Channel /\ disk' \in Channel /\ upset' \in BOOLEAN
    BY <1>4, <2>2, PlainSaveType DEF Sweep
  <2>4. tick' \in [Ticks -> Views]
    BY <1>0, <1>4, TickType DEF Sweep
  <2>. QED
    BY <1>4, <2>1, <2>3, <2>4 DEF Sweep, TypeOK, TxStates
<1>5. CASE NothingToSweep
  BY <1>0, <1>5, FinishType DEF NothingToSweep, Finish, Statuses
<1>. QED
  BY <1>1, <1>2, <1>3, <1>4, <1>5 DEF Broadcasts

LEMMA TicksType ==
  ASSUME TypeOK, NEW t \in Ticks, Look(t) \/ NotYet(t) \/ Resent(t) \/ Local(t)
  PROVE  TypeOK'
<1>0. "open" \in Kinds /\ {"ready", "finish"} \subseteq Statuses \cup Handlers
  BY DEF Kinds, Handlers
<1>1. ASSUME NEW k \in Kinds, LookAt(t, k)
      PROVE  TypeOK'
  <2>1. [at |-> ch.status, resv |-> k, closing |-> ch.closing] \in Views
    BY DEF TypeOK, Channel, Views
  <2>2. tick' \in [Ticks -> Views]
    BY <1>1, <2>1 DEF LookAt, TypeOK
  <2>. QED
    BY <1>1, <2>2 DEF LookAt, TypeOK
<1>2. CASE NotYet(t)
  BY <1>2, TickType DEF NotYet, TypeOK
<1>3. ASSUME NEW s, Resend(t, s)
      PROVE  TypeOK'
  <2>1. tx' \in [Txs -> TxStates] /\ UNCHANGED <<delay, signed>>
    BY <1>3, ReachesType DEF Resend
  <2>2. tick' \in [Ticks -> Views]
    BY <1>3, TickType DEF Resend
  <2>. QED
    BY <1>3, <2>1, <2>2 DEF Resend, TypeOK, TxStates
<1>4. CASE ChannelReady(t)
  <2>1. PICK ok \in BOOLEAN : Save(With("READY"), ok) /\ active' = (active \/ ok)
                              /\ GoIf(t, ok, "finish")
    BY <1>4 DEF ChannelReady
  <2>2. ch' \in Channel /\ disk' \in Channel /\ upset' \in BOOLEAN
    BY <2>1, WithType, PlainSaveType DEF Statuses
  <2>3. tick' \in [Ticks -> Views]
    BY <1>0, <2>1, TickType DEF GoIf
  <2>4. active' \in BOOLEAN
    BY <2>1 DEF TypeOK
  <2>. QED
    BY <1>4, <2>2, <2>3, <2>4 DEF ChannelReady, TypeOK
<1>5. CASE OpeningDone(t) \/ DropOpening
  <2>1. saved' \in [Kinds -> {None, "pending", "closed"}] /\ upset' \in BOOLEAN
    BY <1>0, <1>5, SaveResvType DEF OpeningDone, DropOpening
  <2>2. tick' \in [Ticks -> Views]
    BY <1>5, TickType DEF OpeningDone, DropOpening, Ticks
  <2>3. resv' \subseteq Kinds
    BY <1>5 DEF OpeningDone, DropOpening, TypeOK
  <2>. QED
    BY <1>5, <2>1, <2>2, <2>3 DEF OpeningDone, DropOpening, TypeOK
<1>. QED
  BY <1>1, <1>2, <1>3, <1>4, <1>5 DEF Look, Resent, Local

LEMMA WorldType ==
  ASSUME TypeOK, World
  PROVE  TypeOK'
<1>1. CASE DelayPasses
  BY <1>1 DEF DelayPasses, TypeOK
<1>2. ASSUME NEW t \in Txs, Confirm(t)
      PROVE  TypeOK'
  <2>1. tx' \in [Txs -> TxStates]
    BY <1>2 DEF Confirm, TypeOK, TxStates
  <2>. QED
    BY <1>2, <2>1 DEF Confirm, TypeOK, TxStates
<1>3. ASSUME NEW t \in Txs, PeerSends(t)
      PROVE  TypeOK'
  <2>1. tx' \in [Txs -> TxStates] /\ UNCHANGED <<delay, signed>>
    BY <1>3, ReachesType DEF PeerSends
  <2>. QED
    BY <1>3, <2>1 DEF PeerSends, TypeOK, TxStates
<1>. QED
  BY <1>1, <1>2, <1>3 DEF World

LEMMA RestartType ==
  ASSUME TypeOK, Restart
  PROVE  TypeOK'
<1>1. IdleTick \in Views
  BY DEF IdleTick, Views, Handlers, Kinds, Closers, None
<1>2. tick' \in [Ticks -> Views] /\ call' \in [Kinds -> CallSteps]
  BY <1>1 DEF Restart, TypeOK, CallSteps
<1>3. restarts' \in 0 .. MaxRestart
  BY RestartAssumption DEF Restart, TypeOK
<1>4. resv' \subseteq Kinds /\ active' \in BOOLEAN
  BY DEF Restart, LoadAllResv
<1>. QED
  BY <1>2, <1>3, <1>4 DEF Restart, TypeOK, CallSteps

LEMMA NextType == TypeOK /\ [Next]_vars => TypeOK'
<1>. SUFFICES ASSUME TypeOK, [Next]_vars PROVE TypeOK'
  OBVIOUS
<1>1. CASE OpenCall \/ CoopCall \/ ForceCall
  BY <1>1, OpenType, CoopType, ForceType
<1>2. CASE Monitor
  BY <1>2, QueriesType, BroadcastsType, TicksType DEF Monitor
<1>3. CASE World \/ Restart
  BY <1>3, WorldType, RestartType
<1>4. CASE UNCHANGED vars
  BY <1>4 DEF vars, TypeOK
<1>. QED
  BY <1>1, <1>2, <1>3, <1>4 DEF Next

\* Every variable keeps its type in every run, whatever fails.
THEOREM TypeCorrect == Spec => []TypeOK
BY InitType, NextType, PTL DEF Spec

-----------------------------------------------------------------------------
(* The course of the channel.  What a status says of the chains stays true, *)
(* since what a chain has confirmed stays confirmed: a tick may act on a    *)
(* status the channel has left long ago.                                    *)

Grows ==
  /\ \A t \in Txs : /\ tx[t] # None => tx'[t] # None
                    /\ tx[t] = "confirmed" => tx'[t] = "confirmed"
  /\ delay => delay'
  /\ UNCHANGED opening

LEMMA SomeTxs ==
  {"funding", "closing", "commit", "sweep", "anchor", "deanchor", "commit deanchor"} \subseteq Txs
BY DEF Txs, Txs1, Txs2

LEMMA InitCourse == Init => CourseInv
<1>. SUFFICES ASSUME Init PROVE CourseInv
  OBVIOUS
<1>1. /\ tx["anchor"] # None => tx["funding"] = "confirmed"
      /\ tx["closing"] = None /\ tx["sweep"] = None /\ delay = FALSE
  BY SomeTxs DEF Init, None
<1>2. ChainInv
  BY <1>1 DEF ChainInv, AnchorAfterFunding, ClosingAfterDeAnchor, Confirmed
<1>3. Place(ch) /\ Place(disk)
  BY DEF Init, Place, NoChannel, InClosing, None
<1>4. \A t \in Ticks : Looked(tick[t])
  BY DEF Init, Looked, IdleTick, InClosing
<1>5. call["coop"] = "idle"
  BY DEF Init, Kinds
<1>. QED
  BY <1>2, <1>3, <1>4, <1>5 DEF CourseInv

LEMMA ChainsKept ==
  ASSUME ChainInv, UNCHANGED <<tx, delay, opening>>
  PROVE  ChainInv' /\ Grows
BY DEF ChainInv, Grows, AnchorAfterFunding, ClosingAfterDeAnchor, Confirmed

LEMMA ChainsReached ==
  ASSUME TypeOK, ChainInv, NEW t, Reaches(t), UNCHANGED opening,
         t = "anchor" => Confirmed("funding"), t = "closing" => Confirmed("deanchor")
  PROVE  ChainInv' /\ Grows
<1>1. /\ UNCHANGED delay
      /\ \A x \in Txs : tx[x] # None \/ x # t => tx'[x] = tx[x]
      /\ tx[t] = None => Accepts(t)
  BY ReachesType
<1>2. Grows
  <2>1. \A x \in Txs : tx[x] # None => tx'[x] # None
    BY <1>1
  <2>2. \A x \in Txs : tx[x] = "confirmed" => tx'[x] = "confirmed"
    BY <1>1 DEF None
  <2>. QED
    BY <1>1, <2>1, <2>2 DEF Grows
<1>3. AnchorAfterFunding'
  BY <1>1, <1>2, SomeTxs DEF Grows, ChainInv, AnchorAfterFunding, Confirmed
<1>4. ClosingAfterDeAnchor'
  BY <1>1, <1>2, SomeTxs DEF Grows, ChainInv, ClosingAfterDeAnchor, Confirmed
<1>5. tx'["sweep"] # None => delay'
  BY <1>1, SomeTxs DEF Accepts, ChainInv
<1>. QED
  BY <1>1, <1>2, <1>3, <1>4, <1>5, SomeTxs DEF ChainInv, Grows, Confirmed

\* Of the broadcasts only that of the tick itself needs the ticks' part.
LEMMA ChainsAnswered ==
  ASSUME TypeOK, ChainInv, NEW t, UNCHANGED opening,
         Answered(t) \/ Unanswered(t) \/ Refused(t),
         t = "anchor" => Confirmed("funding"), t = "closing" => Confirmed("deanchor")
  PROVE  ChainInv' /\ Grows
BY ChainsKept, ChainsReached DEF Answered, Unanswered, Refused

\* What has to be shown of a step, but for a restart.
LEMMA CourseStep ==
  ASSUME CourseInv, Grows, ChainInv',
         ch' = ch \/ Place(ch)', disk' \in {disk, ch'},
         ch.closing # None => ch'.closing # None,
         \A t \in Ticks : tick'[t] = tick[t] \/ Looked(tick[t])',
         call'["coop"] \in {"started", "deanchor", "tell"} =>
           call'["coop"] = call["coop"] \/ call["coop"] \in {"started", "deanchor", "tell"}
             \/ ch'.closing # None
  PROVE  CourseInv'
<1>2. Place(ch)'
  <2>1. CASE ch' = ch
    BY <2>1, SomeTxs DEF Grows, Place, Confirmed, CourseInv
  <2>. QED
    BY <2>1
<1>3. Place(disk)'
  <2>1. CASE disk' = disk
    BY <2>1, SomeTxs DEF Grows, Place, Confirmed, CourseInv
  <2>2. CASE disk' = ch'
    BY <1>2, <2>2 DEF Place, Confirmed
  <2>. QED
    BY <2>1, <2>2
<1>4. ASSUME NEW t \in Ticks
      PROVE  Looked(tick[t])'
  <2>1. CASE tick'[t] = tick[t]
    BY <2>1, SomeTxs DEF Grows, Looked, Confirmed, CourseInv
  <2>. QED
    BY <2>1
<1>5. call'["coop"] \in {"started", "deanchor", "tell"} => ch'.closing # None
  BY DEF CourseInv
<1>. QED
  BY <1>2, <1>3, <1>4, <1>5 DEF CourseInv

\* The calls.  None of them sends the anchor or the closing transaction.
LEMMA OpenCourse ==
  ASSUME TypeOK, CourseInv, OpenCall
  PROVE  CourseInv'
<1>1. UNCHANGED tick /\ UNCHANGED opening
  BY DEF OpenCall, BroadcastFunding, RecordFunding, KeepFunding, SaveFunding
<1>2. ChainInv' /\ Grows
  BY <1>1, ChainsAnswered, ChainsKept
     DEF OpenCall, BroadcastFunding, RecordFunding, KeepFunding, SaveFunding, CourseInv
<1>3. /\ ch'.closing = ch.closing
      /\ ch' = ch \/ ch'.status \in {"FUNDING_BROADCASTED", "FUNDING_CONFIRMED"}
      /\ disk' \in {disk, ch'}
  BY WithType
     DEF OpenCall, BroadcastFunding, RecordFunding, KeepFunding, SaveFunding, Save, SaveOver,
         FundingStatus, Statuses
<1>4. ch' = ch \/ Place(ch)'
  BY <1>3 DEF Place, InClosing
<1>5. call'["coop"] = call["coop"]
  BY DEF OpenCall, BroadcastFunding, RecordFunding, KeepFunding, SaveFunding, CallTo, TypeOK, Kinds
<1>. QED
  BY <1>1, <1>2, <1>3, <1>4, <1>5, CourseStep

LEMMA CoopCourse ==
  ASSUME TypeOK, CourseInv, CoopCall
  PROVE  CourseInv'
<1>1. UNCHANGED tick /\ UNCHANGED opening
  BY DEF CoopCall, CoopReturns, GetForClosing, LockForClosing, ClosingRefused, StartClosing,
         EnterClosing, BroadcastDeAnchor, LeaveClosing
<1>2. ChainInv' /\ Grows
  BY <1>1, ChainsAnswered, ChainsKept
     DEF CoopCall, CoopReturns, GetForClosing, LockForClosing, ClosingRefused, StartClosing,
         EnterClosing, BroadcastDeAnchor, LeaveClosing, CourseInv
<1>3. CASE GetForClosing \/ LockForClosing \/ ClosingRefused \/ EnterClosing \/ BroadcastDeAnchor
  <2>1. ch' = ch /\ disk' \in {disk, ch'}
    BY <1>3 DEF GetForClosing, LockForClosing, ClosingRefused, EnterClosing, BroadcastDeAnchor,
           Save, SaveOver
  <2>2. call'["coop"] \in {"started", "deanchor", "tell"} =>
          call["coop"] \in {"started", "deanchor", "tell"}
    BY <1>3 DEF GetForClosing, LockForClosing, ClosingRefused, EnterClosing, BroadcastDeAnchor,
           EndOfCall, CallTo, At, TypeOK, Kinds
  <2>. QED
    BY <1>1, <1>2, <2>1, <2>2, CourseStep
<1>4. CASE StartClosing
  <2>1. ch' = [status |-> "CLOSING_STARTED", closing |-> "closing"] /\ disk' = disk
    BY <1>4 DEF StartClosing
  <2>2. Place(ch)' /\ ch'.closing # None
    BY <2>1 DEF Place, None
  <2>. QED
    BY <1>1, <1>2, <2>1, <2>2, CourseStep
<1>5. CASE LeaveClosing
  <2>1. ch' = With("CLOSING_DEANCHOR_BROADCASTED") /\ disk' \in {disk, ch'}
    BY <1>5 DEF LeaveClosing, Save, SaveOver
  <2>2. ch.closing # None /\ ch'.closing = ch.closing
        /\ ch'.status = "CLOSING_DEANCHOR_BROADCASTED"
    BY <1>5, <2>1, WithType DEF LeaveClosing, At, CourseInv, Statuses
  <2>3. Place(ch)'
    BY <2>2 DEF Place
  <2>. QED
    BY <1>1, <1>2, <2>1, <2>2, <2>3, CourseStep
<1>. QED
  BY <1>3, <1>4, <1>5 DEF CoopCall, CoopReturns

LEMMA ForceCourse ==
  ASSUME TypeOK, CourseInv, ForceCall
  PROVE  CourseInv'
<1>1. UNCHANGED tick /\ UNCHANGED opening
  BY DEF ForceCall, ForceReturns, GetForForce, LockForForce, ForceDeAnchor, ForceCommit,
         OtherProvider, RecordForce
<1>2. ChainInv' /\ Grows
  <2>1. \/ UNCHANGED chains
        \/ \E t \in {"commit", "commit deanchor"} :
             Answered(t) \/ Unanswered(t) \/ Refused(t) \/ Reaches(t)
    BY DEF ForceCall, ForceReturns, GetForForce, LockForForce, ForceDeAnchor, ForceCommit,
           OtherProvider, RecordForce
  <2>. QED
    BY <1>1, <2>1, ChainsAnswered, ChainsReached, ChainsKept DEF CourseInv
<1>3. call'["coop"] = call["coop"]
  BY DEF ForceCall, ForceReturns, GetForForce, LockForForce, ForceDeAnchor, ForceCommit,
         OtherProvider, RecordForce, EndOfCall, CallTo, TypeOK, Kinds
<1>4. CASE GetForForce \/ LockForForce \/ ForceDeAnchor \/ ForceCommit \/ OtherProvider
  <2>1. ch' = ch /\ disk' = disk
    BY <1>4 DEF GetForForce, LockForForce, ForceDeAnchor, ForceCommit, OtherProvider
  <2>. QED
    BY <1>1, <1>2, <1>3, <2>1, CourseStep
<1>5. CASE RecordForce
  <2>1. ch' = [status |-> "CLOSE_FORCELY_BROADCASTED", closing |-> "commit"]
        /\ disk' \in {disk, ch'}
    BY <1>5 DEF RecordForce, SaveBoth, SaveOver
  <2>2. Place(ch)' /\ ch'.closing # None
    BY <2>1 DEF Place, InClosing, None
  <2>. QED
    BY <1>1, <1>2, <1>3, <2>1, <2>2, CourseStep
<1>. QED
  BY <1>4, <1>5 DEF ForceCall, ForceReturns

\* The ticks.
LEMMA TickFacts ==
  ASSUME TypeOK
  PROVE  \A t \in Ticks :
    /\ tick[t] \in Views
    /\ Leave(t) => tick'[t] = IdleTick /\ \A x \in Ticks \ {t} : tick'[x] = tick[x]
    /\ \A at : Goto(t, at) => /\ tick'[t].at = at
                              /\ tick'[t].closing = tick[t].closing
                              /\ \A x \in Ticks \ {t} : tick'[x] = tick[x]
<1>1. ASSUME NEW t \in Ticks
      PROVE  tick[t] \in Views
  BY DEF TypeOK
<1>2. ASSUME NEW t \in Ticks, NEW at
      PROVE  /\ [tick[t] EXCEPT !.at = at].at = at
             /\ [tick[t] EXCEPT !.at = at].closing = tick[t].closing
  BY <1>1 DEF Views
<1>3. ASSUME NEW t \in Ticks, NEW at, Goto(t, at)
      PROVE  /\ tick'[t] = [tick[t] EXCEPT !.at = at]
             /\ \A x \in Ticks \ {t} : tick'[x] = tick[x]
  BY <1>3 DEF Goto, TypeOK
<1>4. ASSUME NEW t \in Ticks, Leave(t)
      PROVE  tick'[t] = IdleTick /\ \A x \in Ticks \ {t} : tick'[x] = tick[x]
  BY <1>4 DEF Leave, TypeOK
<1>5. ASSUME NEW t \in Ticks, NEW at, Goto(t, at)
      PROVE  /\ tick'[t].at = at /\ tick'[t].closing = tick[t].closing
             /\ \A x \in Ticks \ {t} : tick'[x] = tick[x]
  <2>1. tick'[t] = [tick[t] EXCEPT !.at = at]
    BY <1>3, <1>5
  <2>. QED
    BY <1>2, <1>3, <1>5, <2>1
<1>. QED
  BY <1>1, <1>4, <1>5

LEMMA IdleLooked ==
  ASSUME NEW t \in Ticks, tick'[t] = IdleTick
  PROVE  Looked(tick[t])'
BY DEF Looked, IdleTick, InClosing

\* A tick writes a status and saves the channel, or does not write at all.
LEMMA TickCourse ==
  ASSUME TypeOK, CourseInv, NEW t \in Ticks, Grows, ChainInv', UNCHANGED call,
         ch' = ch \/ Place(ch)', disk' \in {disk, ch'},
         ch.closing # None => ch'.closing # None,
         Leave(t) \/ /\ Looked(tick[t])'
                     /\ \A x \in Ticks \ {t} : tick'[x] = tick[x]
  PROVE  CourseInv'
<1>1. \A x \in Ticks : tick'[x] = tick[x] \/ Looked(tick[x])'
  BY TickFacts, IdleLooked
<1>. QED
  BY <1>1, CourseStep

LEMMA SavePlace ==
  ASSUME TypeOK, NEW c \in Channel, NEW ok, NEW over, SaveOver(c, ok, over)
  PROVE  ch' = c /\ disk' \in {disk, ch'}
BY DEF SaveOver

LEMMA ConfirmedCourse ==
  ASSUME TypeOK, CourseInv, ChannelConfirmed \/ ForceConfirmed
  PROVE  CourseInv'
<1>0. "L1" \in Ticks /\ tick["L1"] \in Views
  BY TickFacts DEF Ticks
<1>1. ChainInv' /\ Grows /\ UNCHANGED call
  BY ChainsKept DEF ChannelConfirmed, ForceConfirmed, CourseInv
<1>2. CASE ChannelConfirmed
  <2>1. PICK ok \in BOOLEAN :
          /\ SaveBoth("open", "pending", With("FUNDING_CONFIRMED"), ok, Ended)
          /\ GoIf("L1", ok, IF opening.anchor THEN "anchor" ELSE "ready")
    BY <1>2 DEF ChannelConfirmed
  <2>2. ch' = With("FUNDING_CONFIRMED") /\ disk' \in {disk, ch'}
    BY <2>1 DEF SaveBoth, SaveOver
  <2>3. ch'.status = "FUNDING_CONFIRMED" /\ ch'.closing = ch.closing
    BY <2>2, WithType DEF Statuses
  <2>4. Place(ch)'
    BY <2>3 DEF Place, InClosing
  <2>5. Confirmed("funding")'
    BY <1>2 DEF ChannelConfirmed, Confirmed
  <2>6. Leave("L1") \/ /\ Looked(tick["L1"])'
                       /\ \A x \in Ticks \ {"L1"} : tick'[x] = tick[x]
    <3>1. CASE ok
      <4>1. /\ tick'["L1"].at \in {"anchor", "ready"}
            /\ \A x \in Ticks \ {"L1"} : tick'[x] = tick[x]
        BY <1>0, <2>1, <3>1, TickFacts DEF GoIf
      <4>. QED
        BY <2>5, <4>1 DEF Looked, InClosing
    <3>2. CASE ~ok
      BY <2>1, <3>2 DEF GoIf
    <3>. QED
      BY <3>1, <3>2
  <2>. QED
    BY <1>0, <1>1, <2>2, <2>3, <2>4, <2>6, TickCourse
<1>3. CASE ForceConfirmed
  <2>1. PICK ok \in BOOLEAN : Save(With("CLOSE_FORCELY_CONFIRMED"), ok) /\ GoIf("L1", ok, "height")
    BY <1>3 DEF ForceConfirmed
  <2>2. Confirmed("commit") /\ UNCHANGED tx
    BY <1>0, <1>3 DEF ForceConfirmed, TickAt, CourseInv, Looked, Confirmed
  <2>3. ch' = With("CLOSE_FORCELY_CONFIRMED") /\ disk' \in {disk, ch'}
    BY <2>1 DEF Save, SaveOver
  <2>4. ch'.status = "CLOSE_FORCELY_CONFIRMED" /\ ch'.closing = ch.closing
    BY <2>3, WithType DEF Statuses
  <2>5. Place(ch)'
    BY <2>2, <2>4 DEF Place, InClosing, Confirmed
  <2>6. Leave("L1") \/ /\ Looked(tick["L1"])'
                       /\ \A x \in Ticks \ {"L1"} : tick'[x] = tick[x]
    <3>1. CASE ok
      <4>1. /\ tick'["L1"].at = "height"
            /\ \A x \in Ticks \ {"L1"} : tick'[x] = tick[x]
        BY <1>0, <2>1, <3>1, TickFacts DEF GoIf
      <4>. QED
        BY <2>2, <4>1 DEF Looked, InClosing, Confirmed
    <3>2. CASE ~ok
      BY <2>1, <3>2 DEF GoIf
    <3>. QED
      BY <3>1, <3>2
  <2>. QED
    BY <1>0, <1>1, <2>3, <2>4, <2>5, <2>6, TickCourse
<1>. QED
  BY <1>2, <1>3

LEMMA QueriesCourse ==
  ASSUME TypeOK, CourseInv, Queries
  PROVE  CourseInv'
<1>0. /\ "L1" \in Ticks /\ "L2" \in Ticks /\ tick["L1"] \in Views /\ tick["L2"] \in Views
      /\ Looked(tick["L1"]) /\ Looked(tick["L2"])
  BY TickFacts DEF Ticks, CourseInv
<1>1. ChainInv' /\ Grows /\ UNCHANGED call
  BY ChainsKept
     DEF Queries, ChannelConfirmed, AnchorConfirmed, DeAnchorConfirmed, ClosingConfirmed, ChannelClosed, Finish,
         ForceConfirmed, LearnHeight, SweepConfirmed, CourseInv
<1>2. CASE ChannelConfirmed \/ ForceConfirmed
  BY <1>2, ConfirmedCourse
<1>3. CASE AnchorConfirmed
  <2>1. tick'["L2"].at = "ready" /\ \A x \in Ticks \ {"L2"} : tick'[x] = tick[x]
    BY <1>0, <1>3, TickFacts DEF AnchorConfirmed
  <2>2. Looked(tick["L2"])' /\ ch' = ch /\ disk' = disk
    BY <1>3, <2>1 DEF AnchorConfirmed, Looked, InClosing
  <2>. QED
    BY <1>0, <1>1, <2>1, <2>2, TickCourse
<1>4. CASE DeAnchorConfirmed
  <2>1. PICK ok \in BOOLEAN :
          /\ Save(With("ANCHOR_CONFIRMED"), ok)
          /\ tick' = [tick EXCEPT !["L2"] =
               IF ok THEN [@ EXCEPT !.at = "close", !.closing = ch.closing] ELSE IdleTick]
    BY <1>4 DEF DeAnchorConfirmed, ClosingConfirmed
  <2>2. Confirmed("deanchor")' /\ ch.closing # None
    BY <1>0, <1>4 DEF DeAnchorConfirmed, ClosingConfirmed, Looked, Confirmed, InClosing
  <2>3. ch' = With("ANCHOR_CONFIRMED") /\ disk' \in {disk, ch'}
    BY <2>1 DEF Save, SaveOver
  <2>4. ch'.status = "ANCHOR_CONFIRMED" /\ ch'.closing = ch.closing
    BY <2>3, WithType DEF Statuses
  <2>5. Place(ch)'
    BY <2>2, <2>4 DEF Place
  <2>6. Leave("L2") \/ /\ Looked(tick["L2"])'
                       /\ \A x \in Ticks \ {"L2"} : tick'[x] = tick[x]
    <3>1. CASE ok
      <4>1. tick' = [tick EXCEPT !["L2"] = [tick["L2"] EXCEPT !.at = "close", !.closing = ch.closing]]
        BY <2>1, <3>1
      <4>2. /\ tick'["L2"].at = "close" /\ tick'["L2"].closing = ch.closing
            /\ \A x \in Ticks \ {"L2"} : tick'[x] = tick[x]
        BY <1>0, <4>1 DEF TypeOK, Views
      <4>. QED
        BY <2>2, <2>4, <4>2 DEF Looked, InClosing
    <3>2. CASE ~ok
      BY <2>1, <3>2 DEF Leave
    <3>. QED
      BY <3>1, <3>2
  <2>. QED
    BY <1>0, <1>1, <2>3, <2>4, <2>5, <2>6, TickCourse
<1>5. CASE ChannelClosed
  <2>1. ch' = With("CLOSED") /\ disk' \in {disk, ch'} /\ Leave("L1")
    BY <1>5 DEF ChannelClosed, Finish, Save, SaveOver
  <2>2. ch'.status = "CLOSED" /\ ch'.closing = ch.closing
    BY <2>1, WithType DEF Statuses
  <2>3. \E t \in {"closing", "commit", "sweep"} : Confirmed(t)'
    <3>1. tick["L1"].closing \in {"closing", "commit", "sweep"}
      BY <1>0, <1>5 DEF ChannelClosed, TickAt, Looked, InClosing, Views, Closers
    <3>2. tx[tick["L1"].closing] = "confirmed" /\ UNCHANGED tx
      BY <1>5 DEF ChannelClosed, Finish
    <3>. QED
      BY <3>1, <3>2 DEF Confirmed
  <2>4. Place(ch)'
    BY <2>2, <2>3 DEF Place, InClosing
  <2>. QED
    BY <1>0, <1>1, <2>1, <2>2, <2>4, TickCourse
<1>6. CASE SweepConfirmed
  <2>1. ch' = With("CLOSED_FORCELY") /\ disk' \in {disk, ch'} /\ Leave("L1")
    BY <1>6 DEF SweepConfirmed, Finish, Save, SaveOver
  <2>2. ch'.status = "CLOSED_FORCELY" /\ ch'.closing = ch.closing
    BY <2>1, WithType DEF Statuses
  <2>3. tx["sweep"] = "confirmed" /\ UNCHANGED tx
    BY <1>0, <1>6 DEF SweepConfirmed, Finish, TickAt, Looked
  <2>4. Confirmed("commit")' /\ Confirmed("sweep")'
    <3>1. tx["commit"] = "confirmed"
      BY <2>3 DEF CourseInv, ChainInv, Confirmed, None
    <3>. QED
      BY <2>3, <3>1 DEF Confirmed
  <2>5. Place(ch)'
    BY <2>2, <2>4 DEF Place, InClosing
  <2>. QED
    BY <1>0, <1>1, <2>1, <2>2, <2>5, TickCourse
<1>7. CASE LearnHeight
  <2>1. ch' = ch /\ disk' = disk /\ Leave("L1")
    BY <1>7 DEF LearnHeight
  <2>. QED
    BY <1>0, <1>1, <2>1, TickCourse
<1>. QED
  BY <1>2, <1>3, <1>4, <1>5, <1>6, <1>7 DEF Queries

LEMMA SendAndSaveCourse ==
  ASSUME TypeOK, CourseInv, NEW t \in Ticks, NEW s, NEW st \in InClosing, ch.closing # None,
         s = "anchor" => Confirmed("funding"), s = "closing" => Confirmed("deanchor"),
         SendAndSave(t, s, st)
  PROVE  CourseInv'
<1>1. ChainInv' /\ Grows /\ UNCHANGED call /\ Leave(t)
  BY ChainsAnswered DEF SendAndSave, CourseInv
<1>2. ch' = With(st) /\ disk' \in {disk, ch'}
  BY DEF SendAndSave, Save, SaveOver
<1>3. ch'.status = st /\ ch'.closing = ch.closing
  BY <1>2, WithType DEF Statuses, InClosing
<1>4. Place(ch)'
  BY <1>3 DEF Place, InClosing
<1>. QED
  BY <1>1, <1>2, <1>3, <1>4, TickCourse

LEMMA BroadcastsCourse ==
  ASSUME TypeOK, CourseInv, Broadcasts
  PROVE  CourseInv'
<1>0. /\ "L1" \in Ticks /\ "L2" \in Ticks /\ tick["L1"] \in Views /\ tick["L2"] \in Views
      /\ Looked(tick["L1"]) /\ Looked(tick["L2"])
  BY TickFacts DEF Ticks, CourseInv
<1>1. CASE AnchorFunding
  <2>1. Confirmed("funding")
    BY <1>0, <1>1 DEF AnchorFunding, TickAt, Looked
  <2>2. ChainInv' /\ Grows /\ UNCHANGED call /\ Leave("L1")
    BY <1>1, <2>1, ChainsAnswered DEF AnchorFunding, CourseInv
  <2>3. ch' = With("ANCHOR_BROADCASTED") /\ disk' \in {disk, ch'}
    BY <1>1 DEF AnchorFunding, SaveBoth, SaveOver
  <2>4. ch'.status = "ANCHOR_BROADCASTED" /\ ch'.closing = ch.closing
    BY <2>3, WithType DEF Statuses
  <2>5. Place(ch)'
    BY <2>1, <2>2, <2>4, SomeTxs DEF Place, InClosing, Grows, Confirmed
  <2>. QED
    BY <1>0, <2>2, <2>3, <2>4, <2>5, TickCourse
<1>2. CASE ClosingStarted
  <2>1. ch.closing # None
    BY <1>0, <1>2 DEF ClosingStarted, TickAt, Looked, InClosing
  <2>. QED
    BY <1>0, <1>2, <2>1, DeAnchorOfTxs, SendAndSaveCourse DEF ClosingStarted, InClosing
<1>3. CASE SendClosing
  <2>1. Confirmed("deanchor") /\ ch.closing # None /\ tick["L2"].closing # "anchor"
    BY <1>0, <1>3 DEF SendClosing, TickAt, Looked, Views, Closers, None
  <2>. QED
    BY <1>0, <1>3, <2>1, SendAndSaveCourse DEF SendClosing, InClosing
<1>4. CASE Sweep
  <2>1. ChainInv' /\ Grows /\ UNCHANGED call /\ Leave("L1")
    BY <1>4, ChainsAnswered DEF Sweep, CourseInv
  <2>2. ch' = [status |-> "CLOSE_FORCELY_SWEEP_BROADCASTED", closing |-> "sweep"]
        /\ disk' \in {disk, ch'}
    BY <1>4 DEF Sweep, Save, SaveOver
  <2>3. Place(ch)' /\ ch'.closing # None
    BY <2>2 DEF Place, InClosing, None
  <2>. QED
    BY <1>0, <2>1, <2>2, <2>3, TickCourse
<1>5. CASE NothingToSweep
  <2>1. ChainInv' /\ Grows /\ UNCHANGED call /\ UNCHANGED opening
    BY <1>5, ChainsKept DEF NothingToSweep, Finish, CourseInv
  <2>2. ch' = With("CLOSED_FORCELY") /\ disk' \in {disk, ch'} /\ Leave("L1")
    BY <1>5 DEF NothingToSweep, Finish, Save, SaveOver
  <2>3. ch'.status = "CLOSED_FORCELY" /\ ch'.closing = ch.closing
    BY <2>2, WithType DEF Statuses
  <2>4. Confirmed("commit")' /\ opening'.dust
    BY <1>0, <1>5, <2>1, SomeTxs DEF NothingToSweep, TickAt, Looked, Grows, Confirmed
  <2>5. Place(ch)'
    BY <2>3, <2>4 DEF Place, InClosing
  <2>. QED
    BY <1>0, <2>1, <2>2, <2>3, <2>5, TickCourse
<1>. QED
  BY <1>1, <1>2, <1>3, <1>4, <1>5 DEF Broadcasts

LEMMA TicksCourse ==
  ASSUME TypeOK, CourseInv, NEW t \in Ticks, Look(t) \/ NotYet(t) \/ Resent(t) \/ Local(t)
  PROVE  CourseInv'
<1>0. tick[t] \in Views /\ Looked(tick[t])
  BY TickFacts DEF CourseInv
<1>1. ASSUME NEW k \in Kinds, LookAt(t, k)
      PROVE  CourseInv'
  <2>1. ChainInv' /\ Grows /\ UNCHANGED <<call, ch, disk, tx>>
    BY <1>1, ChainsKept DEF LookAt, CourseInv
  <2>2. tick' = [tick EXCEPT ![t] = [at |-> ch.status, resv |-> k, closing |-> ch.closing]]
    BY <1>1 DEF LookAt
  <2>3. /\ tick'[t].at = ch.status /\ tick'[t].closing = ch.closing
        /\ \A x \in Ticks \ {t} : tick'[x] = tick[x]
    BY <2>2 DEF TypeOK
  <2>4. ch.status \notin {"anchor", "close", "height"}
    BY DEF TypeOK, Channel, Statuses, None
  <2>5. Looked(tick[t])'
    BY <2>1, <2>3, <2>4 DEF Looked, CourseInv, Place, InClosing, Confirmed
  <2>. QED
    BY <2>1, <2>3, <2>5, TickCourse
<1>2. CASE NotYet(t)
  <2>1. ChainInv' /\ Grows /\ UNCHANGED <<call, ch, disk>> /\ Leave(t)
    BY <1>2, ChainsKept DEF NotYet, CourseInv
  <2>. QED
    BY <2>1, TickCourse
<1>3. CASE Resent(t)
  <2>1. PICK s \in Sends(t) : Resend(t, s)
    BY <1>3 DEF Resent
  <2>2. (s = "anchor" => Confirmed("funding")) /\ (s = "closing" => Confirmed("deanchor"))
    <3>1. tick[t].closing \in Closers
      BY <1>0 DEF Views
    <3>2. /\ "anchor" \in Sends(t) => tick[t].at \in {"anchor", "ANCHOR_BROADCASTED"}
          /\ "closing" \in Sends(t) => tick[t].at = "close"
      BY <3>1, DeAnchorOfTxs DEF Sends, Closers, None
    <3>. QED
      BY <1>0, <2>1, <3>2 DEF Looked
  <2>3. ChainInv' /\ Grows /\ UNCHANGED <<call, ch, disk>> /\ Leave(t)
    BY <2>1, <2>2, ChainsReached DEF Resend, CourseInv
  <2>. QED
    BY <2>3, TickCourse
<1>4. CASE ChannelReady(t)
  <2>1. PICK ok \in BOOLEAN : Save(With("READY"), ok) /\ GoIf(t, ok, "finish")
    BY <1>4 DEF ChannelReady
  <2>2. ChainInv' /\ Grows /\ UNCHANGED call
    BY <1>4, ChainsKept DEF ChannelReady, CourseInv
  <2>3. ch' = With("READY") /\ disk' \in {disk, ch'}
    BY <2>1 DEF Save, SaveOver
  <2>4. ch'.status = "READY" /\ ch'.closing = ch.closing
    BY <2>3, WithType DEF Statuses
  <2>5. Place(ch)'
    BY <2>4 DEF Place, InClosing
  <2>6. Leave(t) \/ /\ Looked(tick[t])'
                    /\ \A x \in Ticks \ {t} : tick'[x] = tick[x]
    <3>1. CASE ok
      <4>1. tick'[t].at = "finish" /\ \A x \in Ticks \ {t} : tick'[x] = tick[x]
        BY <2>1, <3>1, TickFacts DEF GoIf
      <4>. QED
        BY <4>1 DEF Looked, InClosing
    <3>2. CASE ~ok
      BY <2>1, <3>2 DEF GoIf
    <3>. QED
      BY <3>1, <3>2
  <2>. QED
    BY <2>2, <2>3, <2>4, <2>5, <2>6, TickCourse
<1>5. CASE OpeningDone(t) \/ (t = "L2" /\ DropOpening)
  <2>1. ChainInv' /\ Grows /\ UNCHANGED <<call, ch, disk>> /\ Leave(t)
    BY <1>5, ChainsKept DEF OpeningDone, DropOpening, CourseInv
  <2>. QED
    BY <2>1, TickCourse
<1>. QED
  BY <1>1, <1>2, <1>3, <1>4, <1>5 DEF Look, Local

LEMMA WorldCourse ==
  ASSUME TypeOK, CourseInv, World
  PROVE  CourseInv'
<1>1. UNCHANGED <<call, ch, disk, tick>>
  BY DEF World, DelayPasses, Confirm, PeerSends
<1>2. ChainInv' /\ Grows
  <2>1. CASE DelayPasses
    BY <2>1 DEF DelayPasses, CourseInv, ChainInv, Grows, AnchorAfterFunding, ClosingAfterDeAnchor,
           Confirmed
  <2>2. ASSUME NEW t \in Txs, Confirm(t)
        PROVE  ChainInv' /\ Grows
    <3>1. \A x \in Txs : tx'[x] = tx[x] \/ (tx[x] = "pool" /\ tx'[x] = "confirmed")
      BY <2>2 DEF Confirm, TypeOK
    <3>2. UNCHANGED <<delay, opening>>
      BY <2>2 DEF Confirm
    <3>. QED
      BY <3>1, <3>2, SomeTxs DEF CourseInv, ChainInv, Grows, AnchorAfterFunding,
         ClosingAfterDeAnchor, Confirmed, None
  <2>3. ASSUME NEW t \in Txs, PeerSends(t)
        PROVE  ChainInv' /\ Grows
    <3>1. (t = "anchor" => Confirmed("funding")) /\ (t = "closing" => Confirmed("deanchor"))
      BY <2>3 DEF PeerSends, Confirmed
    <3>. QED
      BY <2>3, <3>1, ChainsReached DEF PeerSends, CourseInv
  <2>. QED
    BY <2>1, <2>2, <2>3 DEF World
<1>. QED
  BY <1>1, <1>2, CourseStep

LEMMA RestartCourse ==
  ASSUME TypeOK, CourseInv, Restart
  PROVE  CourseInv'
<1>1. ChainInv' /\ UNCHANGED <<tx, opening, disk>> /\ ch' = disk
  BY ChainsKept DEF Restart, CourseInv
<1>2. Place(ch)' /\ Place(disk)'
  BY <1>1 DEF Place, Confirmed, CourseInv
<1>3. \A t \in Ticks : Looked(tick[t])'
  BY IdleLooked DEF Restart
<1>4. call'["coop"] \in {"idle", "done"}
  BY DEF Restart, TypeOK, Kinds
<1>. QED
  BY <1>1, <1>2, <1>3, <1>4 DEF CourseInv

LEMMA NextCourse == TypeOK /\ CourseInv /\ [Next]_vars => CourseInv'
<1>. SUFFICES ASSUME TypeOK, CourseInv, [Next]_vars PROVE CourseInv'
  OBVIOUS
<1>1. CASE OpenCall \/ CoopCall \/ ForceCall
  BY <1>1, OpenCourse, CoopCourse, ForceCourse
<1>2. CASE Monitor
  BY <1>2, QueriesCourse, BroadcastsCourse, TicksCourse DEF Monitor
<1>3. CASE World \/ Restart
  BY <1>3, WorldCourse, RestartCourse
<1>4. CASE UNCHANGED vars
  <2>1. ChainInv' /\ Grows /\ UNCHANGED <<call, ch, disk, tick>>
    BY <1>4, ChainsKept DEF vars, CourseInv
  <2>. QED
    BY <2>1, CourseStep
<1>. QED
  BY <1>1, <1>2, <1>3, <1>4 DEF Next

\* A status, wherever it is kept, says of the chains what CourseInv lists.
THEOREM CourseHolds == Spec => []CourseInv
BY InitType, NextType, InitCourse, NextCourse, PTL DEF Spec

\* No anchor before the funding is confirmed, in any run.
THEOREM NoEarlyAnchor == Spec => []AnchorAfterFunding
<1>1. CourseInv => AnchorAfterFunding
  BY DEF CourseInv, ChainInv
<1>. QED
  BY <1>1, CourseHolds, PTL

\* No cooperative payout before layer 2 has given the assets back, in any run.
THEOREM NoEarlyClosing == Spec => []ClosingAfterDeAnchor
<1>1. CourseInv => ClosingAfterDeAnchor
  BY DEF CourseInv, ChainInv
<1>. QED
  BY <1>1, CourseHolds, PTL

\* A channel saved as closed is paid out, and swept, in any run.
THEOREM EndsOnChain == Spec => []EndIsOnChain
<1>1. CourseInv => EndIsOnChain
  BY DEF CourseInv, Place, EndIsOnChain, Confirmed
<1>. QED
  BY <1>1, CourseHolds, PTL

-----------------------------------------------------------------------------
(* Carried: a channel on its way has the reservation that moves it on.      *)

LEMMA InitCarry == Init => CarryInv
<1>. SUFFICES ASSUME Init PROVE CarryInv
  OBVIOUS
<1>1. ch.status = None /\ disk = ch /\ saved["open"] = None /\ call["coop"] = "idle"
  BY DEF Init, NoChannel, Kinds
<1>2. None \notin InOpening \cup InClosing \cup InForce
  BY DEF None, InOpening, InClosing, InForce
<1>3. ASSUME NEW t \in Ticks
      PROVE  Abreast(t, tick[t])
  BY DEF Init, Abreast, IdleTick, Funding, InClosing, InForce
<1>. QED
  BY <1>1, <1>2, <1>3 DEF CarryInv, Carried, InCall, OnRecord

\* As long as nothing went wrong, a save is one that succeeded, of a channel
\* that nobody else had moved on.
LEMMA Spotless ==
  ASSUME TypeOK, NEW c, NEW ok \in BOOLEAN, NEW over \in BOOLEAN, SaveOver(c, ok, over), ~upset'
  PROVE  ~upset /\ ok /\ ~over /\ ch' = c /\ disk' = c
BY DEF SaveOver, Result, TypeOK

LEMMA SpotlessSave ==
  ASSUME TypeOK, NEW c, NEW ok \in BOOLEAN, Save(c, ok), ~upset'
  PROVE  ~upset /\ ok /\ ~Ended /\ ch' = c /\ disk' = c
<1>1. Ended \in BOOLEAN
  BY DEF Ended
<1>. QED
  BY <1>1, Spotless DEF Save

LEMMA SpotlessResv ==
  ASSUME TypeOK, NEW k \in Kinds, NEW s, NEW ok \in BOOLEAN, SaveResv(k, s, ok), ~upset'
  PROVE  /\ ~upset /\ ok
         /\ saved'[k] = s /\ \A x \in Kinds \ {k} : saved'[x] = saved[x]
BY DEF SaveResv, Result, TypeOK

\* The parts of CarryInv as long as nothing went wrong.
LEMMA CarryParts ==
  ASSUME CarryInv, ~upset
  PROVE  /\ InCall /\ OnRecord /\ \A t \in Ticks : Abreast(t, tick[t])
         /\ ch.status \in InOpening => "open" \in resv
         /\ ch.status \in InClosing => "coop" \in resv \/ call["coop"] = "started"
         /\ ch.status \in InClosing => saved["coop"] = "pending"
         /\ ch.status \in InForce /\ restarts = 0 => "force" \in resv
         /\ disk.status \in InOpening => saved["open"] = "pending"
         /\ disk.status \in InClosing => saved["coop"] = "pending"
BY DEF CarryInv, Carried, OnRecord

\* The stages of a course have nothing in common.
LEMMA Stages ==
  /\ InOpening = Funding \cup {"ANCHOR_BROADCASTED"} /\ "ANCHOR_BROADCASTED" \notin Funding
  /\ InOpening \cap InClosing = {} /\ InOpening \cap InForce = {} /\ InClosing \cap InForce = {}
  /\ \A s \in {None, "READY", "CLOSED", "CLOSED_FORCELY"} :
       s \notin InOpening /\ s \notin InClosing /\ s \notin InForce
  /\ \A x, y \in {"idle", "anchor", "ready", "finish", "close", "height"} :
       x \notin InOpening /\ x \notin InClosing /\ x \notin InForce /\ x # "READY"
BY DEF InOpening, InClosing, InForce, Funding, None

\* Where a tick that is not the one that writes, t, may be.
Onward(t, old, new) ==
  \/ new = old
  \/ old \in InOpening /\ old \in (IF t = "L1" THEN Funding ELSE {"ANCHOR_BROADCASTED"})
  \/ old \in InClosing /\ new \in InClosing \cup {"CLOSED"}
  \/ old \in InForce /\ new \in InForce \cup {"CLOSED_FORCELY"}

LEMMA AbreastKept ==
  ASSUME NEW t \in Ticks, NEW x \in Ticks \ {t}, Abreast(x, tick[x]), tick'[x] = tick[x],
         Onward(t, ch.status, ch'.status)
  PROVE  Abreast(x, tick[x])'
<1>1. PICK v : v = tick[x]
  OBVIOUS
<1>2. Abreast(x, v) /\ tick'[x] = v
  BY <1>1
<1>3. t \in {"L1", "L2"} /\ x \in {"L1", "L2"} /\ x # t
  BY DEF Ticks
<1>. QED
  BY <1>2, <1>3 DEF Onward, Abreast, InOpening, InClosing, InForce, Funding, None

LEMMA IdleAbreast ==
  ASSUME NEW t \in Ticks, tick'[t] = IdleTick
  PROVE  Abreast(t, tick[t])'
BY DEF Abreast, IdleTick, InClosing, InForce, Funding

\* A tick moves the channel on, and the disk with it.
LEMMA WriteCarry ==
  ASSUME TypeOK, CarryInv, ~upset, NEW t \in Ticks, disk' = ch', UNCHANGED <<call, restarts>>,
         saved'["coop"] = saved["coop"], Onward(t, ch.status, ch'.status), ch'.status # ch.status \/ resv' = resv,
         ch.status \in InOpening \cup InClosing \cup InForce,
         ch.status \in InOpening => ch'.status \in InOpening \cup {"READY"},
         ch'.status \in InOpening => saved'["open"] = "pending",
         ch'.status \in InOpening \cup InClosing \cup InForce => resv' = resv,
         Abreast(t, tick[t])' \/ tick'[t] = IdleTick,
         \A x \in Ticks \ {t} : tick'[x] = tick[x]
  PROVE  CarryInv'
<1>1. \A x \in Ticks : Abreast(x, tick[x])'
  BY CarryParts, AbreastKept, IdleAbreast
<1>2. InCall'
  BY CarryParts, Stages DEF InCall, Onward
<1>3. OnRecord'
  BY CarryParts, Stages DEF OnRecord, Onward
<1>4. Carried'
  BY CarryParts, Stages, <1>3 DEF Carried, OnRecord, Onward, Running
<1>. QED
  BY <1>1, <1>2, <1>3, <1>4 DEF CarryInv

\* A step that leaves the channel alone, and of the reservations drops at most
\* one that is not needed any more.
LEMMA StillCarry ==
  ASSUME TypeOK, CarryInv, UNCHANGED <<ch, disk, restarts>>, upset' \/ ~upset,
         ~upset' =>
           /\ call'["open"] \in {"idle", "record"} => call["open"] \in {"idle", "record"}
           /\ call["open"] = "keep" => call'["open"] = "keep"
           /\ call["open"] = "save" => call'["open"] = "save"
           /\ call'["coop"] \in {"started", "deanchor", "tell"} =>
                call["coop"] \in {"started", "deanchor", "tell"}
           /\ call["coop"] = "started" => call'["coop"] = "started"
           /\ saved'["coop"] \in {saved["coop"], "pending"}
           /\ saved'["open"] \in {saved["open"], "pending"} \/ ch.status \notin InOpening \cup {None}
           /\ saved'["open"] = saved["open"] \/ ch.status # None
           /\ ch.status \in InOpening => "open" \in resv'
           /\ resv \ resv' \subseteq {"open"}
           /\ \A t \in Ticks : tick'[t] = tick[t] \/ Abreast(t, tick[t])'
  PROVE  CarryInv'
<1>. SUFFICES ASSUME ~upset' PROVE CarryInv'
  BY DEF CarryInv, Carried
<1>0. ~upset
  OBVIOUS
<1>1. ASSUME NEW t \in Ticks
      PROVE  Abreast(t, tick[t])'
  <2>1. CASE tick'[t] = tick[t]
    BY <1>0, <2>1, CarryParts DEF Abreast
  <2>. QED
    BY <2>1
<1>2. InCall'
  BY <1>0, CarryParts, Stages DEF InCall
<1>3. OnRecord'
  BY <1>0, CarryParts, Stages DEF OnRecord, InCall
<1>4. Carried'
  BY <1>0, <1>3, CarryParts, Stages DEF Carried, OnRecord, Running
<1>. QED
  BY <1>1, <1>2, <1>3, <1>4 DEF CarryInv

LEMMA CallFacts ==
  ASSUME TypeOK, NEW k \in Kinds, NEW at, CallTo(k, at)
  PROVE  call'[k] = at /\ \A x \in Kinds \ {k} : call'[x] = call[x]
BY DEF CallTo, TypeOK

\* The calls.
LEMMA OpenCarry ==
  ASSUME TypeOK, CarryInv, OpenCall
  PROVE  CarryInv'
<1>0. "open" \in Kinds /\ "coop" \in Kinds /\ UNCHANGED <<tick, restarts>>
  BY DEF Kinds, OpenCall, BroadcastFunding, RecordFunding, KeepFunding, SaveFunding
<1>1. CASE BroadcastFunding
  <2>1. UNCHANGED <<ch, disk, upset, resv, saved>> /\ call["open"] = "idle" /\ call'["open"] \in {"record", "done"}
        /\ call'["coop"] = call["coop"]
    BY <1>0, <1>1, CallFacts DEF BroadcastFunding, At
  <2>2. ~upset => (ch.status \in InOpening => "open" \in resv)
    BY CarryParts
  <2>. QED
    BY <1>0, <2>1, <2>2, StillCarry
<1>2. CASE RecordFunding
  <2>. SUFFICES ASSUME ~upset' PROVE CarryInv'
    BY DEF CarryInv, Carried
  <2>1. UNCHANGED <<disk, upset, saved>> /\ call["open"] = "record" /\ call'["open"] = "keep"
        /\ call'["coop"] = call["coop"] /\ resv' = resv \cup {"open"}
        /\ ch' = With(FundingStatus)
    BY <1>0, <1>2, CallFacts DEF RecordFunding, At
  <2>2. ch'.status \in Funding
    BY <2>1, WithType DEF FundingStatus, Statuses, Funding
  <2>3. ch.status = None /\ disk.status = None /\ saved["open"] = None /\ ~upset
    BY <2>1, CarryParts DEF InCall
  <2>4. call["coop"] \notin {"started", "deanchor", "tell"}
    BY <2>3, CarryParts, Stages DEF InCall, None
  <2>5. \A t \in Ticks : Abreast(t, tick[t])'
    BY <1>0, <2>3, CarryParts, Stages DEF Abreast, None
  <2>6. InCall'
    BY <2>1, <2>4 DEF InCall
  <2>7. OnRecord'
    BY <2>1, <2>2, <2>3, Stages DEF OnRecord, None
  <2>8. Carried'
    BY <2>1, <2>2, <2>3, Stages DEF Carried
  <2>. QED
    BY <2>5, <2>6, <2>7, <2>8 DEF CarryInv
<1>3. CASE KeepFunding
  <2>. SUFFICES ASSUME ~upset' PROVE CarryInv'
    BY DEF CarryInv, Carried
  <2>1. PICK ok \in BOOLEAN :
          /\ SaveResv("open", ResvStatus, ok)
          /\ resv' = IF ok THEN resv ELSE resv \ {"open"}
          /\ CallTo("open", IF ok THEN "save" ELSE "done")
    BY <1>3 DEF KeepFunding
  <2>2. /\ ~upset /\ resv' = resv /\ saved'["open"] = ResvStatus /\ saved'["coop"] = saved["coop"]
        /\ call["open"] = "keep" /\ call'["open"] = "save" /\ call'["coop"] = call["coop"]
        /\ UNCHANGED <<ch, disk>>
    BY <1>0, <1>3, <2>1, SpotlessResv, CallFacts DEF KeepFunding, At
  <2>3. \A t \in Ticks : Abreast(t, tick[t])'
    BY <1>0, <2>2, CarryParts DEF Abreast
  <2>4. ch.status \in InOpening => saved'["open"] = "pending"
    BY <2>2, CarryParts DEF OnRecord, ResvStatus
  <2>5. InCall'
    BY <2>2, CarryParts DEF InCall
  <2>6. OnRecord'
    BY <2>2, <2>4, CarryParts DEF OnRecord
  <2>7. Carried'
    BY <1>0, <2>2, <2>4, <2>6, CarryParts, Stages DEF Carried, OnRecord, Running
  <2>. QED
    BY <2>3, <2>5, <2>6, <2>7 DEF CarryInv
<1>4. CASE SaveFunding
  <2>. SUFFICES ASSUME ~upset' PROVE CarryInv'
    BY DEF CarryInv, Carried
  <2>1. PICK ok \in BOOLEAN :
          Save(ch, ok) /\ resv' = IF ok THEN resv ELSE resv \ {"open"}
    BY <1>4 DEF SaveFunding
  <2>2. /\ ~upset /\ resv' = resv /\ ch' = ch /\ disk' = ch /\ UNCHANGED saved
        /\ call["open"] = "save" /\ call'["open"] = "done" /\ call'["coop"] = call["coop"]
    BY <1>0, <1>4, <2>1, SpotlessSave, CallFacts DEF SaveFunding, At
  <2>3. \A t \in Ticks : Abreast(t, tick[t])'
    BY <1>0, <2>2, CarryParts DEF Abreast
  <2>4. InCall'
    BY <2>2, CarryParts DEF InCall
  <2>5. OnRecord'
    BY <2>2, CarryParts DEF OnRecord
  <2>6. Carried'
    BY <1>0, <2>2, <2>5, CarryParts, Stages DEF Carried, OnRecord, Running
  <2>. QED
    BY <2>3, <2>4, <2>5, <2>6 DEF CarryInv
<1>. QED
  BY <1>1, <1>2, <1>3, <1>4 DEF OpenCall

LEMMA CoopCarry ==
  ASSUME TypeOK, CarryInv, CoopCall
  PROVE  CarryInv'
<1>0. "open" \in Kinds /\ "coop" \in Kinds /\ UNCHANGED <<tick, restarts>>
  BY DEF Kinds, CoopCall, CoopReturns, GetForClosing, LockForClosing, ClosingRefused, StartClosing,
         EnterClosing, BroadcastDeAnchor, LeaveClosing
<1>1. CASE GetForClosing \/ LockForClosing \/ ClosingRefused \/ BroadcastDeAnchor
  <2>1. /\ UNCHANGED <<ch, disk, upset, resv, saved>> /\ call'["open"] = call["open"]
        /\ call["coop"] # "started"
        /\ call'["coop"] \in {"started", "deanchor", "tell"} =>
             call["coop"] \in {"started", "deanchor", "tell"}
    BY <1>0, <1>1, CallFacts
       DEF GetForClosing, LockForClosing, ClosingRefused, BroadcastDeAnchor, At, EndOfCall
  <2>2. ~upset => (ch.status \in InOpening => "open" \in resv)
    BY CarryParts
  <2>. QED
    BY <1>0, <2>1, <2>2, StillCarry
<1>. SUFFICES ASSUME ~upset', StartClosing \/ EnterClosing \/ LeaveClosing PROVE CarryInv'
  BY <1>1 DEF CoopCall, CoopReturns, CarryInv, Carried
<1>2. CASE StartClosing
  <2>1. PICK ok \in BOOLEAN :
       /\ saved' = IF ok THEN [saved EXCEPT !["coop"] = "pending"] ELSE saved
       /\ Result(ok, ch.status # "READY")
       /\ IF ok THEN CallTo("coop", "started") /\ UNCHANGED mutex
          ELSE EndOfCall("coop")
    BY <1>2 DEF StartClosing
  <2>2. ok /\ ~upset /\ ch.status = "READY"
    BY <2>1 DEF Result
  <2>3. /\ saved'["coop"] = "pending" /\ saved'["open"] = saved["open"]
        /\ call["coop"] = "messages" /\ call'["coop"] = "started" /\ call'["open"] = call["open"]
        /\ UNCHANGED <<disk, resv>> /\ ch'.status = "CLOSING_STARTED"
    BY <1>0, <1>2, <2>1, <2>2, CallFacts DEF StartClosing, At, TypeOK
  <2>4. "CLOSING_STARTED" \in InClosing
    BY DEF InClosing
  <2>5. disk.status = "READY"
    BY <2>2, <2>3, CarryParts, Stages DEF OnRecord
  <2>6. \A t \in Ticks : Abreast(t, tick[t])'
    BY <1>0, <2>2, <2>3, <2>4, CarryParts, Stages DEF Abreast, None
  <2>7. InCall'
    BY <2>2, <2>3, <2>4, CarryParts DEF InCall, None
  <2>8. OnRecord'
    BY <2>3, <2>4, <2>5, Stages DEF OnRecord
  <2>9. Carried'
    BY <2>3, <2>4, <2>5, Stages DEF Carried, Running
  <2>. QED
    BY <2>6, <2>7, <2>8, <2>9 DEF CarryInv
<1>3. CASE EnterClosing
  <2>1. PICK ok \in BOOLEAN :
       /\ Save(ch, ok)
       /\ resv' = IF ok THEN resv \cup {"coop"} ELSE resv
       /\ active' = (active /\ ~ok)
       /\ IF ok THEN CallTo("coop", "deanchor") /\ UNCHANGED mutex
          ELSE EndOfCall("coop")
    BY <1>3 DEF EnterClosing
  <2>2. ok /\ ~upset /\ ch' = ch /\ disk' = ch /\ ~Ended
    BY <2>1, SpotlessSave
  <2>3. /\ UNCHANGED saved /\ resv' = resv \cup {"coop"}
        /\ call["coop"] = "started" /\ call'["coop"] = "deanchor" /\ call'["open"] = call["open"]
    BY <1>0, <1>3, <2>1, <2>2, CallFacts DEF EnterClosing, At
  <2>4. ch.status \in InClosing
    BY <2>2, <2>3, CarryParts DEF InCall, Ended
  <2>5. \A t \in Ticks : Abreast(t, tick[t])'
    BY <1>0, <2>2, CarryParts DEF Abreast
  <2>6. InCall'
    BY <2>2, <2>3, <2>4, CarryParts, Stages DEF InCall
  <2>7. OnRecord'
    BY <2>2, <2>3, <2>4, CarryParts, Stages DEF OnRecord
  <2>8. Carried'
    BY <2>2, <2>3, <2>4, CarryParts, Stages DEF Carried
  <2>. QED
    BY <2>5, <2>6, <2>7, <2>8 DEF CarryInv
<1>4. CASE LeaveClosing
  <2>1. PICK ok \in BOOLEAN : Save(With("CLOSING_DEANCHOR_BROADCASTED"), ok)
    BY <1>4 DEF LeaveClosing
  <2>2. ~upset /\ disk' = ch' /\ ~Ended /\ ch'.status = "CLOSING_DEANCHOR_BROADCASTED"
    BY <2>1, SpotlessSave, WithType DEF Statuses
  <2>3. /\ UNCHANGED <<saved, resv>>
        /\ call["coop"] = "tell" /\ call'["coop"] = "done" /\ call'["open"] = call["open"]
    BY <1>0, <1>4, CallFacts DEF LeaveClosing, At, EndOfCall
  <2>4. ch.status \in InClosing /\ ch'.status \in InClosing
    BY <2>2, <2>3, CarryParts DEF InCall, Ended, InClosing
  <2>5. "coop" \in resv /\ saved["coop"] = "pending"
    BY <2>2, <2>3, <2>4, CarryParts
  <2>6. \A t \in Ticks : Abreast(t, tick[t])'
    BY <1>0, <2>2, <2>4, CarryParts, Stages DEF Abreast
  <2>7. InCall'
    BY <2>2, <2>3, <2>4, CarryParts, Stages DEF InCall
  <2>8. OnRecord'
    BY <2>2, <2>3, <2>4, <2>5, Stages DEF OnRecord
  <2>9. Carried'
    BY <2>2, <2>3, <2>4, <2>5, Stages DEF Carried
  <2>. QED
    BY <2>6, <2>7, <2>8, <2>9 DEF CarryInv
<1>. QED
  BY <1>2, <1>3, <1>4

LEMMA ForceCarry ==
  ASSUME TypeOK, CarryInv, ForceCall
  PROVE  CarryInv'
<1>0. "open" \in Kinds /\ "coop" \in Kinds /\ "force" \in Kinds /\ UNCHANGED <<tick, restarts>>
  BY DEF Kinds, ForceCall, ForceReturns, GetForForce, LockForForce, ForceDeAnchor, ForceCommit,
         OtherProvider, RecordForce
<1>1. call'["open"] = call["open"] /\ call'["coop"] = call["coop"]
  BY <1>0, CallFacts DEF ForceCall, ForceReturns, GetForForce, LockForForce, ForceDeAnchor,
     ForceCommit, OtherProvider, RecordForce, EndOfCall
<1>2. CASE GetForForce \/ LockForForce \/ ForceDeAnchor \/ ForceCommit \/ OtherProvider
  <2>1. UNCHANGED <<ch, disk, upset, resv, saved>>
    BY <1>2 DEF GetForForce, LockForForce, ForceDeAnchor, ForceCommit, OtherProvider
  <2>2. ~upset => (ch.status \in InOpening => "open" \in resv)
    BY CarryParts
  <2>. QED
    BY <1>0, <1>1, <2>1, <2>2, StillCarry
<1>. SUFFICES ASSUME ~upset', RecordForce PROVE CarryInv'
  BY <1>2 DEF ForceCall, ForceReturns, CarryInv, Carried
<1>3. PICK ok \in BOOLEAN :
       SaveBoth("force", "closed", [status |-> "CLOSE_FORCELY_BROADCASTED", closing |-> "commit"],
                ok, ch.status # "READY")
  BY DEF RecordForce
<1>4. /\ ~upset /\ ch.status = "READY" /\ disk' = ch'
      /\ ch' = [status |-> "CLOSE_FORCELY_BROADCASTED", closing |-> "commit"]
      /\ saved'["open"] = saved["open"] /\ saved'["coop"] = saved["coop"]
  BY <1>0, <1>3 DEF SaveBoth, SaveOver, Result, TypeOK, Kinds
<1>5. ch'.status \in InForce /\ resv' = resv \cup {"force"}
  BY <1>4 DEF InForce, RecordForce
<1>6. \A t \in Ticks : Abreast(t, tick[t])'
  BY <1>0, <1>4, <1>5, CarryParts, Stages DEF Abreast, None
<1>7. InCall'
  BY <1>1, <1>4, <1>5, CarryParts, Stages DEF InCall, None
<1>8. OnRecord'
  BY <1>4, <1>5, Stages DEF OnRecord
<1>9. Carried'
  BY <1>4, <1>5, Stages DEF Carried
<1>. QED
  BY <1>6, <1>7, <1>8, <1>9 DEF CarryInv

\* The ticks.
LEMMA TickMoves ==
  ASSUME TypeOK, NEW t \in Ticks
  PROVE  /\ Leave(t) => tick'[t] = IdleTick /\ \A x \in Ticks \ {t} : tick'[x] = tick[x]
         /\ \A at : Goto(t, at) =>
              tick'[t].at = at /\ \A x \in Ticks \ {t} : tick'[x] = tick[x]
BY TickFacts

\* A tick leaves, and the channel stays where it is.
LEMMA LeftCarry ==
  ASSUME TypeOK, CarryInv, NEW t \in Ticks, Leave(t), UNCHANGED <<ch, disk, call, restarts>>,
         upset' \/ ~upset,
         ~upset' =>
           /\ saved'["coop"] \in {saved["coop"], "pending"}
           /\ saved'["open"] = saved["open"] \/ ch.status \notin InOpening \cup {None}
           /\ resv' = resv \/ (resv' = resv \ {"open"} /\ ch.status \notin InOpening)
  PROVE  CarryInv'
<1>1. \A x \in Ticks : tick'[x] = tick[x] \/ Abreast(x, tick[x])'
  BY TickMoves, IdleAbreast
<1>2. ~upset => (ch.status \in InOpening => "open" \in resv)
  BY CarryParts
<1>. QED
  BY <1>1, <1>2, StillCarry

LEMMA QueriesCarry ==
  ASSUME TypeOK, CarryInv, Queries
  PROVE  CarryInv'
<1>0. /\ "L1" \in Ticks /\ "L2" \in Ticks /\ {"open", "coop", "force"} = Kinds
      /\ tick["L1"] \in Views /\ tick["L2"] \in Views
      /\ UNCHANGED <<call, restarts>>
  BY TickFacts
     DEF Ticks, Kinds, Queries, ChannelConfirmed, AnchorConfirmed, DeAnchorConfirmed,
         ClosingConfirmed, ChannelClosed, Finish, ForceConfirmed, LearnHeight, SweepConfirmed
<1>. SUFFICES ASSUME ~upset' PROVE CarryInv'
  BY DEF CarryInv, Carried
<1>1. CASE ChannelConfirmed
  <2>1. PICK ok \in BOOLEAN :
          /\ SaveBoth("open", "pending", With("FUNDING_CONFIRMED"), ok, Ended)
          /\ GoIf("L1", ok, IF opening.anchor THEN "anchor" ELSE "ready")
    BY <1>1 DEF ChannelConfirmed
  <2>3. /\ ~upset /\ disk' = ch' /\ ch'.status = "FUNDING_CONFIRMED" /\ UNCHANGED resv
        /\ saved'["open"] = "pending" /\ saved'["coop"] = saved["coop"]
    <3>1. "open" \in Kinds /\ "coop" \in Kinds \ {"open"}
      BY DEF Kinds
    <3>2. /\ ~upset /\ ch' = With("FUNDING_CONFIRMED") /\ disk' = ch'
          /\ saved'["open"] = "pending" /\ saved'["coop"] = saved["coop"]
      BY <2>1, <3>1 DEF SaveBoth, SaveOver, Result, TypeOK
    <3>. QED
      BY <1>1, <3>2, WithType DEF ChannelConfirmed, Statuses
  <2>4. ch.status \in Funding
    BY <1>0, <1>1, <2>3, CarryParts DEF ChannelConfirmed, Abreast, Funding
  <2>5. /\ tick'["L1"] = IdleTick \/ tick'["L1"].at \in {"anchor", "ready"}
        /\ \A x \in Ticks \ {"L1"} : tick'[x] = tick[x]
    BY <1>0, <2>1, TickMoves DEF GoIf
  <2>6. tick'["L1"] = IdleTick \/ Abreast("L1", tick["L1"])'
    BY <2>3, <2>5, Stages DEF Abreast, Funding
  <2>7. Onward("L1", ch.status, ch'.status)
    BY <2>4, Stages DEF Onward
  <2>. QED
    BY <1>0, <2>3, <2>4, <2>5, <2>6, <2>7, WriteCarry, Stages DEF Funding
<1>2. CASE AnchorConfirmed
  <2>1. UNCHANGED <<ch, disk, resv, saved, upset>> /\ ~upset
    BY <1>2 DEF AnchorConfirmed
  <2>2. tick'["L2"].at = "ready" /\ \A x \in Ticks \ {"L2"} : tick'[x] = tick[x]
    BY <1>0, <1>2, TickMoves DEF AnchorConfirmed
  <2>3. ch.status = "ANCHOR_BROADCASTED"
    BY <1>0, <1>2, <2>1, CarryParts DEF AnchorConfirmed, TickAt, Abreast
  <2>4. Abreast("L2", tick["L2"])'
    BY <2>1, <2>2, <2>3, Stages DEF Abreast, Funding
  <2>5. ch.status \in InOpening => "open" \in resv
    BY <2>1, CarryParts
  <2>6. \A x \in Ticks : tick'[x] = tick[x] \/ Abreast(x, tick[x])'
    BY <2>2, <2>4
  <2>. QED
    BY <1>0, <2>1, <2>5, <2>6, StillCarry
<1>3. CASE DeAnchorConfirmed
  <2>1. PICK ok \in BOOLEAN :
          /\ Save(With("ANCHOR_CONFIRMED"), ok)
          /\ tick' = [tick EXCEPT !["L2"] =
               IF ok THEN [@ EXCEPT !.at = "close", !.closing = ch.closing] ELSE IdleTick]
    BY <1>3 DEF DeAnchorConfirmed, ClosingConfirmed
  <2>2. /\ ~upset /\ ~Ended /\ ok /\ disk' = ch' /\ ch'.status = "ANCHOR_CONFIRMED"
        /\ UNCHANGED <<resv, saved>>
    BY <1>3, <2>1, SpotlessSave, WithType DEF DeAnchorConfirmed, ClosingConfirmed, Statuses
  <2>3. ch.status \in InClosing /\ ch'.status \in InClosing
    BY <1>0, <1>3, <2>2, CarryParts DEF DeAnchorConfirmed, Abreast, InClosing, Ended
  <2>4. tick' = [tick EXCEPT !["L2"] = [tick["L2"] EXCEPT !.at = "close", !.closing = ch.closing]]
    BY <2>1, <2>2
  <2>5. tick'["L2"].at = "close" /\ \A x \in Ticks \ {"L2"} : tick'[x] = tick[x]
    BY <1>0, <2>4 DEF TypeOK, Views
  <2>6. Abreast("L2", tick["L2"])'
    BY <2>3, <2>5, Stages DEF Abreast, Funding
  <2>7. Onward("L2", ch.status, ch'.status)
    BY <2>3 DEF Onward
  <2>. QED
    BY <1>0, <2>2, <2>3, <2>5, <2>6, <2>7, WriteCarry, Stages
<1>4. CASE ChannelClosed
  <2>1. /\ ~upset /\ ~Ended /\ disk' = ch' /\ ch'.status = "CLOSED" /\ UNCHANGED saved
        /\ Leave("L1")
    BY <1>4, SpotlessSave, WithType DEF ChannelClosed, Finish, Statuses
  <2>2. ch.status \in InClosing
    BY <1>0, <1>4, <2>1, CarryParts DEF ChannelClosed, TickAt, Abreast, InClosing, Ended
  <2>3. Onward("L1", ch.status, ch'.status)
    BY <2>1, <2>2 DEF Onward
  <2>. QED
    BY <1>0, <2>1, <2>2, <2>3, TickMoves, WriteCarry, Stages
<1>5. CASE SweepConfirmed
  <2>1. /\ ~upset /\ ~Ended /\ disk' = ch' /\ ch'.status = "CLOSED_FORCELY" /\ UNCHANGED saved
        /\ Leave("L1")
    BY <1>5, SpotlessSave, WithType DEF SweepConfirmed, Finish, Statuses
  <2>2. ch.status \in InForce
    BY <1>0, <1>5, <2>1, CarryParts DEF SweepConfirmed, TickAt, Abreast, InForce, Ended
  <2>3. Onward("L1", ch.status, ch'.status)
    BY <2>1, <2>2 DEF Onward
  <2>. QED
    BY <1>0, <2>1, <2>2, <2>3, TickMoves, WriteCarry, Stages
<1>6. CASE ForceConfirmed
  <2>1. PICK ok \in BOOLEAN : Save(With("CLOSE_FORCELY_CONFIRMED"), ok) /\ GoIf("L1", ok, "height")
    BY <1>6 DEF ForceConfirmed
  <2>2. /\ ~upset /\ ~Ended /\ ok /\ disk' = ch' /\ ch'.status = "CLOSE_FORCELY_CONFIRMED"
        /\ UNCHANGED <<resv, saved>>
    BY <1>6, <2>1, SpotlessSave, WithType DEF ForceConfirmed, Statuses
  <2>3. ch.status \in InForce /\ ch'.status \in InForce
    BY <1>0, <1>6, <2>2, CarryParts DEF ForceConfirmed, TickAt, Abreast, InForce, Ended
  <2>4. tick'["L1"].at = "height" /\ \A x \in Ticks \ {"L1"} : tick'[x] = tick[x]
    BY <1>0, <2>1, <2>2, TickMoves DEF GoIf
  <2>5. Abreast("L1", tick["L1"])'
    BY <2>3, <2>4, Stages DEF Abreast, Funding
  <2>6. Onward("L1", ch.status, ch'.status)
    BY <2>3 DEF Onward
  <2>. QED
    BY <1>0, <2>2, <2>3, <2>4, <2>5, <2>6, WriteCarry, Stages
<1>7. CASE LearnHeight
  <2>1. PICK k \in Kinds : k = tick["L1"].resv
    BY <1>0 DEF Views
  <2>2. PICK ok \in BOOLEAN : SaveResv(k, IF k = "force" THEN "closed" ELSE "pending", ok)
    BY <1>7, <2>1 DEF LearnHeight
  <2>3. /\ ~upset /\ UNCHANGED <<ch, disk, resv>> /\ Leave("L1") /\ tick["L1"].at = "height"
        /\ saved'["open"] \in {saved["open"], "pending"}
        /\ saved'["coop"] \in {saved["coop"], "pending"}
    BY <1>0, <1>7, <2>2, SpotlessResv DEF LearnHeight, TickAt
  <2>4. ch.status \notin InOpening \cup {None}
    BY <1>0, <2>3, CarryParts, Stages DEF Abreast, None
  <2>. QED
    BY <1>0, <2>3, <2>4, LeftCarry
<1>. QED
  BY <1>1, <1>2, <1>3, <1>4, <1>5, <1>6, <1>7 DEF Queries

LEMMA BroadcastsCarry ==
  ASSUME TypeOK, CarryInv, Broadcasts
  PROVE  CarryInv'
<1>0. /\ "L1" \in Ticks /\ "L2" \in Ticks /\ "open" \in Kinds /\ "coop" \in Kinds \ {"open"}
      /\ tick["L1"] \in Views /\ tick["L2"] \in Views
      /\ UNCHANGED <<call, restarts>>
  BY TickFacts
     DEF Ticks, Kinds, Broadcasts, AnchorFunding, ClosingStarted, SendClosing, SendAndSave, Sweep,
         NothingToSweep, Finish
<1>. SUFFICES ASSUME ~upset' PROVE CarryInv'
  BY DEF CarryInv, Carried
<1>1. CASE AnchorFunding
  <2>1. PICK ok \in BOOLEAN : SaveBoth("open", "pending", With("ANCHOR_BROADCASTED"), ok, Ended)
    BY <1>1 DEF AnchorFunding
  <2>3. /\ ~upset /\ ch' = With("ANCHOR_BROADCASTED") /\ disk' = ch'
        /\ saved'["open"] = "pending" /\ saved'["coop"] = saved["coop"]
    BY <1>0, <2>1 DEF SaveBoth, SaveOver, Result, TypeOK
  <2>4. ch'.status = "ANCHOR_BROADCASTED" /\ Leave("L1") /\ UNCHANGED resv
    BY <1>1, <2>3, WithType DEF AnchorFunding, Statuses
  <2>5. ch.status \in Funding
    BY <1>0, <1>1, <2>3, CarryParts DEF AnchorFunding, TickAt, Abreast
  <2>6. Onward("L1", ch.status, ch'.status)
    BY <2>5, Stages DEF Onward
  <2>. QED
    BY <1>0, <2>3, <2>4, <2>5, <2>6, TickMoves, WriteCarry, Stages
<1>2. ASSUME NEW t \in Ticks, NEW s, NEW st \in InClosing, SendAndSave(t, s, st),
             tick[t].at \in InClosing \cup {"close"}
      PROVE  CarryInv'
  <2>1. PICK ok \in BOOLEAN : Save(With(st), ok)
    BY <1>2 DEF SendAndSave
  <2>2. st \in Statuses
    BY DEF InClosing, Statuses
  <2>3. ~upset /\ ~Ended /\ disk' = ch' /\ ch' = With(st)
    BY <2>1, SpotlessSave
  <2>4. ch'.status = st /\ UNCHANGED <<resv, saved>> /\ Leave(t)
    BY <1>2, <2>2, <2>3, WithType DEF SendAndSave
  <2>5. ch.status \in InClosing
    BY <1>2, <2>3, CarryParts DEF Abreast, Ended
  <2>6. Onward(t, ch.status, ch'.status)
    BY <2>4, <2>5 DEF Onward
  <2>. QED
    BY <1>0, <2>3, <2>4, <2>5, <2>6, TickMoves, WriteCarry, Stages
<1>3. CASE ClosingStarted
  BY <1>0, <1>2, <1>3 DEF ClosingStarted, TickAt, InClosing
<1>4. CASE SendClosing
  BY <1>0, <1>2, <1>4 DEF SendClosing, TickAt, InClosing
<1>5. CASE Sweep
  <2>1. PICK ok \in BOOLEAN :
          Save([status |-> "CLOSE_FORCELY_SWEEP_BROADCASTED", closing |-> "sweep"], ok)
    BY <1>5 DEF Sweep
  <2>2. /\ ~upset /\ ~Ended /\ disk' = ch'
        /\ ch' = [status |-> "CLOSE_FORCELY_SWEEP_BROADCASTED", closing |-> "sweep"]
    BY <2>1, SpotlessSave
  <2>3. ch'.status \in InForce /\ UNCHANGED <<resv, saved>> /\ Leave("L1")
    BY <1>5, <2>2 DEF Sweep, InForce
  <2>4. ch.status \in InForce
    BY <1>0, <1>5, <2>2, CarryParts DEF Sweep, TickAt, Abreast, InForce, Ended
  <2>5. Onward("L1", ch.status, ch'.status)
    BY <2>3, <2>4 DEF Onward
  <2>. QED
    BY <1>0, <2>2, <2>3, <2>4, <2>5, TickMoves, WriteCarry, Stages
<1>6. CASE NothingToSweep
  <2>1. /\ ~upset /\ ~Ended /\ disk' = ch' /\ ch'.status = "CLOSED_FORCELY" /\ UNCHANGED saved
        /\ Leave("L1")
    BY <1>6, SpotlessSave, WithType DEF NothingToSweep, Finish, Statuses
  <2>2. ch.status \in InForce
    BY <1>0, <1>6, <2>1, CarryParts DEF NothingToSweep, TickAt, Abreast, InForce, Ended
  <2>3. Onward("L1", ch.status, ch'.status)
    BY <2>1, <2>2 DEF Onward
  <2>. QED
    BY <1>0, <2>1, <2>2, <2>3, TickMoves, WriteCarry, Stages
<1>. QED
  BY <1>1, <1>3, <1>4, <1>5, <1>6 DEF Broadcasts

LEMMA TicksCarry ==
  ASSUME TypeOK, CarryInv, NEW t \in Ticks, Look(t) \/ NotYet(t) \/ Resent(t) \/ Local(t)
  PROVE  CarryInv'
<1>0. /\ "open" \in Kinds /\ "coop" \in Kinds \ {"open"} /\ tick[t] \in Views
      /\ t \in {"L1", "L2"} /\ UNCHANGED <<call, restarts>>
  BY TickFacts
     DEF Ticks, Kinds, Look, LookAt, NotYet, Resent, Resend, Local, ChannelReady, OpeningDone,
         DropOpening
<1>. SUFFICES ASSUME ~upset' PROVE CarryInv'
  BY DEF CarryInv, Carried
<1>1. ASSUME NEW k \in Kinds, LookAt(t, k)
      PROVE  CarryInv'
  <2>1. UNCHANGED <<ch, disk, resv, saved, upset>> /\ ~upset /\ ch.status \in Handled(t, k)
    BY <1>1 DEF LookAt
  <2>2. tick' = [tick EXCEPT ![t] = [at |-> ch.status, resv |-> k, closing |-> ch.closing]]
    BY <1>1 DEF LookAt
  <2>3. tick'[t].at = ch.status /\ \A x \in Ticks \ {t} : tick'[x] = tick[x]
    BY <2>2 DEF TypeOK
  <2>4. Abreast(t, tick[t])'
    <3>1. /\ ch.status \in Funding => t = "L1"
          /\ ch.status = "ANCHOR_BROADCASTED" => t = "L2"
          /\ ch.status \notin {"anchor", "ready", "finish", "close", "height"}
      BY <1>0, <2>1 DEF Handled, Funding
    <3>. QED
      BY <2>1, <2>3, <3>1, Stages DEF Abreast, None
  <2>5. ch.status \in InOpening => "open" \in resv
    BY <2>1, CarryParts
  <2>6. \A x \in Ticks : tick'[x] = tick[x] \/ Abreast(x, tick[x])'
    BY <2>3, <2>4
  <2>. QED
    BY <1>0, <2>1, <2>5, <2>6, StillCarry
<1>2. CASE NotYet(t)
  BY <1>0, <1>2, LeftCarry DEF NotYet
<1>3. CASE Resent(t)
  BY <1>0, <1>3, LeftCarry DEF Resent, Resend
<1>4. CASE ChannelReady(t)
  <2>1. PICK ok \in BOOLEAN : Save(With("READY"), ok) /\ GoIf(t, ok, "finish")
    BY <1>4 DEF ChannelReady
  <2>2. /\ ~upset /\ ok /\ disk' = ch' /\ ch'.status = "READY" /\ UNCHANGED <<resv, saved>>
    BY <1>4, <2>1, SpotlessSave, WithType DEF ChannelReady, Statuses
  <2>3. ch.status \in IF t = "L1" THEN Funding ELSE {"ANCHOR_BROADCASTED"}
    BY <1>4, <2>2, CarryParts DEF ChannelReady, TickAt, Abreast
  <2>4. tick'[t].at = "finish" /\ \A x \in Ticks \ {t} : tick'[x] = tick[x]
    BY <2>1, <2>2, TickMoves DEF GoIf
  <2>5. Abreast(t, tick[t])'
    BY <2>2, <2>4, Stages DEF Abreast, Funding, None
  <2>6. ch.status \in InOpening /\ Onward(t, ch.status, ch'.status)
    BY <2>3, Stages DEF Onward
  <2>. QED
    BY <1>0, <2>2, <2>4, <2>5, <2>6, WriteCarry, Stages
<1>5. CASE OpeningDone(t) \/ (t = "L2" /\ DropOpening)
  <2>1. PICK ok \in BOOLEAN : SaveResv("open", "closed", ok)
    BY <1>5 DEF OpeningDone, DropOpening
  <2>2. ~upset /\ ok /\ saved'["coop"] = saved["coop"]
    BY <1>0, <2>1, SpotlessResv
  <2>3. UNCHANGED <<ch, disk>> /\ Leave(t) /\ tick[t].at \in {"finish", "READY"}
        /\ (resv' = resv \ {"open"} \/ resv' = resv)
    BY <1>5 DEF OpeningDone, DropOpening, TickAt
  <2>4. ch.status \notin InOpening \cup {None}
    BY <2>2, <2>3, CarryParts DEF Abreast
  <2>. QED
    BY <1>0, <2>2, <2>3, <2>4, LeftCarry
<1>. QED
  BY <1>1, <1>2, <1>3, <1>4, <1>5 DEF Look, Local

\* The process starts again with what is on disk.
LEMMA RestartCarry ==
  ASSUME TypeOK, CarryInv, Restart
  PROVE  CarryInv'
<1>. SUFFICES ASSUME ~upset' PROVE CarryInv'
  BY DEF CarryInv, Carried
<1>1. ~upset /\ ch' = disk /\ disk' = disk /\ saved' = saved /\ restarts' # 0
  BY RestartAssumption DEF Restart, TypeOK
<1>2. call'["coop"] \in {"idle", "done"} /\ call'["open"] \in {"idle", "done"}
      /\ (call'["open"] = "idle" => call["open"] = "idle")
  BY DEF Restart, TypeOK, Kinds
<1>3. disk.status \in InOpening \cup InClosing => resv' = LoadAllResv
  BY Stages DEF Restart
<1>4. \A t \in Ticks : Abreast(t, tick[t])'
  BY IdleAbreast DEF Restart
<1>5. disk.status \in InOpening => saved["open"] = "pending" /\ "open" \in resv'
  BY <1>1, <1>3, CarryParts DEF LoadAllResv, Kinds
<1>6. disk.status \in InClosing => saved["coop"] = "pending" /\ "coop" \in resv'
  BY <1>1, <1>3, CarryParts DEF LoadAllResv, Kinds
<1>7. InCall'
  BY <1>1, <1>2, CarryParts DEF InCall
<1>8. OnRecord'
  BY <1>1, <1>5, <1>6 DEF OnRecord
<1>9. Carried'
  BY <1>1, <1>5, <1>6 DEF Carried
<1>. QED
  BY <1>4, <1>7, <1>8, <1>9 DEF CarryInv

LEMMA NextCarry == TypeOK /\ CarryInv /\ [Next]_vars => CarryInv'
<1>. SUFFICES ASSUME TypeOK, CarryInv, [Next]_vars PROVE CarryInv'
  OBVIOUS
<1>1. CASE OpenCall \/ CoopCall \/ ForceCall
  BY <1>1, OpenCarry, CoopCarry, ForceCarry
<1>2. CASE Monitor
  BY <1>2, QueriesCarry, BroadcastsCarry, TicksCarry DEF Monitor
<1>3. CASE Restart
  BY <1>3, RestartCarry
<1>4. CASE World \/ UNCHANGED vars
  <2>1. UNCHANGED <<ch, disk, resv, saved, call, tick, upset, restarts>>
    BY <1>4 DEF World, DelayPasses, Confirm, PeerSends, vars
  <2>2. ~upset => (ch.status \in InOpening => "open" \in resv)
    BY CarryParts
  <2>. QED
    BY <2>1, <2>2, StillCarry
<1>. QED
  BY <1>1, <1>2, <1>3, <1>4 DEF Next

\* What the ticks, the calls and the disk know of a channel on its way.
THEOREM CarryHolds == Spec => []CarryInv
BY InitType, NextType, InitCarry, NextCarry, PTL DEF Spec

\* A channel between two of its lasting states has the reservation that moves
\* it on, in memory and on disk, in any run.
THEOREM AlwaysCarried == Spec => []Carried
<1>1. CarryInv => Carried
  BY DEF CarryInv
<1>. QED
  BY <1>1, CarryHolds, PTL
=============================================================================
