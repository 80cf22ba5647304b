-------------------------- MODULE WatchTowerProofs --------------------------
(* What is proved of the watch tower, for any channels, commitments and    *)
(* outpoints, with or without database errors, and any number of restarts. *)
EXTENDS WatchTower, TLAPS

USE DEF memory, disk, callers, world

-----------------------------------------------------------------------------
(* Type correctness.                                                       *)

Indexes == [Utxos -> SUBSET Commits]

LEMMA ChannelFacts ==
  /\ \A c \in Commits : ChanOf[c] \in Chans /\ c \in OfChannel(ChanOf[c])
  /\ \A ch \in Chans : OfChannel(ch) \subseteq Commits /\ UtxosOf(ch) \subseteq Utxos
  /\ \A c \in Commits : Inputs[c] \subseteq Utxos
BY ChannelsAssumption, InputsAssumption DEF OfChannel, UtxosOf

LEMMA IndexType ==
  ASSUME NEW m \in Indexes, NEW c \in Commits, NEW us, NEW cs
  PROVE  IndexWith(m, c) \in Indexes /\ IndexWithout(m, us, cs) \in Indexes
BY DEF Indexes, IndexWith, IndexWithout

LEMMA EmptyTypes ==
  /\ NoAttempt \in Attempts /\ NoAttempt.st = "idle"
  /\ NoSpending \in Spendings /\ NoIndex \in Indexes
  /\ NoSender \in Senders
  /\ \A st \in {"send", "flag"} : /\ [NoSender EXCEPT !.st = st] \in Senders
                                  /\ [NoSender EXCEPT !.st = st].st = st
                                  /\ [NoSender EXCEPT !.st = st].commits = {}
BY DEF NoAttempt, Attempts, NoSpending, Spendings, NoIndex, Indexes, NoSender,
       Senders, Cleaning

LEMMA InitType == Init => TypeOK
BY EmptyTypes, CommitsAssumption DEF Init, TypeOK, Indexes

\* An attempt goes to another stage.
LEMMA MoveOpType ==
  ASSUME TypeOK, NEW ch \in Chans, NEW st, MoveOp(ch, st),
         st \in {"merge", "adding", "added", "drop", "unflag", "forget", "removing"},
         op[ch].st # "idle"
  PROVE  /\ op' \in [Chans -> Attempts]
         /\ \A x \in Chans : op'[x].st # "idle" => op'[x].commit \in OfChannel(x)
         /\ op'[ch].st = st /\ op'[ch].commit = op[ch].commit
         /\ \A x \in Chans \ {ch} : op'[x] = op[x]
<1>1. op[ch] \in Attempts
  BY DEF TypeOK
<1>2. PICK r : r = [op[ch] EXCEPT !.st = st]
  OBVIOUS
<1>3. r \in Attempts /\ r.st = st /\ r.commit = op[ch].commit
  BY <1>1, <1>2 DEF Attempts
<1>4. op' = [op EXCEPT ![ch] = r]
  BY <1>2 DEF MoveOp
<1>. QED
  BY <1>3, <1>4 DEF TypeOK

\* An attempt is replaced.
LEMMA SetOpType ==
  ASSUME TypeOK, NEW ch \in Chans, NEW r \in Attempts,
         r.st # "idle" => r.commit \in OfChannel(ch),
         op' = [op EXCEPT ![ch] = r]
  PROVE  /\ op' \in [Chans -> Attempts]
         /\ \A x \in Chans : op'[x].st # "idle" => op'[x].commit \in OfChannel(x)
         /\ op'[ch] = r
         /\ \A x \in Chans \ {ch} : op'[x] = op[x]
BY DEF TypeOK

LEMMA WorkingType ==
  ASSUME TypeOK, NEW ch \in Chans, op[ch].st # "idle"
  PROVE  op[ch].commit \in Commits /\ op[ch].commit \in OfChannel(ch)
BY ChannelFacts DEF TypeOK

LEMMA AttemptType ==
  ASSUME TypeOK, NEW ch \in Chans, AttemptStep(ch)
  PROVE  TypeOK'
<1>0. op[ch].st # "idle"
  BY DEF AttemptStep, Merge, AddReturns, Complete, Fail, Abandon, RemoveCommitTx,
         RemoveFlag, Forget, RemoveReturns
<1> DEFINE c == op[ch].commit
<1>1. c \in Commits /\ c \in OfChannel(ch) /\ Inputs[c] \subseteq Utxos
  BY <1>0, WorkingType, ChannelFacts
<1>2. CASE Merge(ch)
  <2>1. utxoMap' \in Indexes
    BY <1>1, <1>2, IndexType DEF Merge, TypeOK, Indexes
  <2>. QED
    BY <1>0, <1>1, <1>2, <2>1, MoveOpType DEF Merge, TypeOK, Indexes
<1>3. CASE AddReturns(ch) \/ Fail(ch)
  BY <1>0, <1>3, MoveOpType DEF AddReturns, Fail, TypeOK
<1>4. CASE Complete(ch) \/ Abandon(ch) \/ RemoveReturns(ch)
  <2>1. op' = [op EXCEPT ![ch] = NoAttempt]
    BY <1>4 DEF Complete, Abandon, RemoveReturns
  <2>2. /\ op' \in [Chans -> Attempts]
        /\ \A x \in Chans : op'[x].st # "idle" => op'[x].commit \in OfChannel(x)
    BY <2>1, EmptyTypes, SetOpType
  <2>. QED
    BY <1>1, <1>4, <2>2 DEF Complete, Abandon, RemoveReturns, TypeOK
<1>5. CASE RemoveCommitTx(ch) \/ RemoveFlag(ch)
  <2>1. punish' \subseteq Commits /\ flags' \subseteq Commits
    BY <1>5 DEF RemoveCommitTx, RemoveFlag, Stored, TypeOK
  <2>. QED
    BY <1>0, <1>5, <2>1, MoveOpType DEF RemoveCommitTx, RemoveFlag, TypeOK
<1>6. CASE Forget(ch)
  <2>1. utxoMap' \in Indexes
    BY <1>1, <1>6, IndexType DEF Forget, TypeOK, Indexes
  <2>. QED
    BY <1>0, <1>6, <2>1, MoveOpType DEF Forget, TypeOK, Indexes
<1>. QED
  BY <1>2, <1>3, <1>4, <1>5, <1>6 DEF AttemptStep

LEMMA AddType ==
  ASSUME TypeOK, NEW c \in Commits, AddCommitTx(c)
  PROVE  TypeOK'
<1>1. ChanOf[c] \in Chans /\ c \in OfChannel(ChanOf[c])
  BY ChannelFacts
<1>2. PICK r \in {[st |-> "merge", commit |-> c], [st |-> "drop", commit |-> c]} :
        op' = [op EXCEPT ![ChanOf[c]] = r]
  BY DEF AddCommitTx
<1>3. r \in Attempts /\ r.commit = c
  BY <1>2 DEF Attempts
<1>4. /\ op' \in [Chans -> Attempts]
      /\ \A x \in Chans : op'[x].st # "idle" => op'[x].commit \in OfChannel(x)
  BY <1>1, <1>2, <1>3, SetOpType
<1>5. punish' \subseteq Commits
  BY DEF AddCommitTx, TypeOK
<1>. QED
  BY <1>4, <1>5 DEF AddCommitTx, TypeOK

LEMMA MonitorType ==
  ASSUME TypeOK
  PROVE  /\ \A us \in SUBSET Spliced : Splice(us) \/ UtxoSpent(us) => TypeOK'
         /\ MonitorStep => TypeOK'
         /\ \A u \in Utxos : WriteIndex(u) => TypeOK'
<1>1. ASSUME NEW us \in SUBSET Spliced, Splice(us)
      PROVE  TypeOK'
  BY <1>1, SplicedAssumption DEF Splice, TypeOK
<1>2. ASSUME NEW us \in SUBSET Spliced, UtxoSpent(us)
      PROVE  TypeOK'
  <2>1. Void(us) \subseteq Commits /\ us \subseteq Utxos
    BY SplicedAssumption DEF Void, TypeOK
  <2>2. utxoMap' \in Indexes
    BY <1>2 DEF UtxoSpent, IndexWithout, TypeOK, Indexes
  <2>3. mon' \in Spendings
    BY <1>2, <2>1 DEF UtxoSpent, Spendings
  <2>. QED
    BY <1>2, <2>1, <2>2, <2>3 DEF UtxoSpent, TypeOK, Indexes
<1>3. ASSUME SpentPunish
      PROVE  TypeOK'
  <2>1. mon' \in Spendings /\ mon.rest \subseteq Utxos
    BY <1>3 DEF SpentPunish, Spendings, TypeOK
  <2>2. punish' \subseteq Commits
    BY <1>3 DEF SpentPunish, Stored, TypeOK
  <2>. QED
    BY <1>3, <2>1, <2>2 DEF SpentPunish, TypeOK
<1>4. ASSUME SpentReturns
      PROVE  TypeOK'
  BY <1>4, EmptyTypes DEF SpentReturns, TypeOK
<1>5. ASSUME NEW u \in Utxos, WriteIndex(u)
      PROVE  TypeOK'
  <2>1. index' \in Indexes
    BY <1>5 DEF WriteIndex, Stored, TypeOK, Indexes
  <2>. QED
    BY <1>5, <2>1 DEF WriteIndex, TypeOK, Indexes
<1>. QED
  BY <1>1, <1>2, <1>3, <1>4, <1>5 DEF MonitorStep

\* A goroutine's record is replaced by one of its type.
LEMMA SenderStage ==
  ASSUME NEW r \in Senders, NEW st \in Cleaning \cup {"off", "send"}
  PROVE  /\ [r EXCEPT !.st = st] \in Senders
         /\ [r EXCEPT !.st = st].st = st
         /\ [r EXCEPT !.st = st].commits = r.commits
BY DEF Senders

LEMMA SenderType ==
  ASSUME TypeOK, NEW c \in Commits, SenderStep(c)
  PROVE  TypeOK'
<1>0. sender[c] \in Senders /\ Cleaned(c) \subseteq Commits
  BY DEF TypeOK, Cleaned
<1>1. CASE Send(c)
  <2>1. [sender[c] EXCEPT !.st = "clean"] \in Senders
    BY <1>0, SenderStage DEF Cleaning
  <2>2. sender' \in [Commits -> Senders]
    BY <1>1, <2>1 DEF Send, TypeOK
  <2>. QED
    BY <1>1, <2>2 DEF Send, TypeOK
<1>2. CASE CleanPunish(c)
  <2>1. /\ [sender[c] EXCEPT !.st = "index", !.commits = Cleaned(c)] \in Senders
        /\ [sender[c] EXCEPT !.st = "index"] \in Senders
    <3>1. PICK x \in Senders : x = sender[c]
      BY <1>0
    <3>2. [x EXCEPT !.st = "index", !.commits = Cleaned(c)] \in Senders
      BY <1>0 DEF Senders, Cleaning
    <3>3. [x EXCEPT !.st = "index"] \in Senders
      BY SenderStage DEF Cleaning
    <3>. QED
      BY <3>1, <3>2, <3>3
  <2>2. sender' \in [Commits -> Senders] /\ punish' \subseteq Commits
    BY <1>2, <2>1 DEF CleanPunish, TypeOK
  <2>. QED
    BY <1>2, <2>2 DEF CleanPunish, TypeOK
<1>3. CASE CleanIndex(c)
  <2>1. PICK us : us = {u \in UtxosOf(ChanOf[c]) : index[u] # {}}
    OBVIOUS
  <2>2. us \in SUBSET Utxos
    BY <2>1, ChannelFacts
  <2>3. /\ [sender[c] EXCEPT !.st = "memory", !.utxos = us] \in Senders
        /\ [sender[c] EXCEPT !.st = "memory"] \in Senders
    <3>1. PICK x \in Senders : x = sender[c]
      BY <1>0
    <3>2. [x EXCEPT !.st = "memory", !.utxos = us] \in Senders
      BY <2>2 DEF Senders, Cleaning
    <3>3. [x EXCEPT !.st = "memory"] \in Senders
      BY SenderStage DEF Cleaning
    <3>. QED
      BY <3>1, <3>2, <3>3
  <2>4. \/ /\ index' = [u \in Utxos |-> IF u \in us THEN {} ELSE index[u]]
           /\ sender' = [sender EXCEPT ![c].st = "memory", ![c].utxos = us]
        \/ /\ sender' = [sender EXCEPT ![c].st = "memory"]
           /\ UNCHANGED index
    BY <1>3, <2>1 DEF CleanIndex
  <2>5. sender' \in [Commits -> Senders] /\ index' \in Indexes
    BY <2>3, <2>4 DEF TypeOK, Indexes
  <2>. QED
    BY <1>3, <2>5 DEF CleanIndex, TypeOK, Indexes
<1>4. CASE CleanMemory(c)
  <2>1. utxoMap' \in Indexes
    BY <1>4 DEF CleanMemory, IndexWithout, TypeOK, Indexes
  <2>2. sender' \in [Commits -> Senders]
    BY <1>4, EmptyTypes DEF CleanMemory, TypeOK
  <2>. QED
    BY <1>4, <2>1, <2>2 DEF CleanMemory, TypeOK, Indexes
<1>5. CASE ClearFlagInMemory(c)
  <2>1. [sender[c] EXCEPT !.st = "stored"] \in Senders
    BY <1>0, SenderStage DEF Cleaning
  <2>2. sender' \in [Commits -> Senders]
    BY <1>5, <2>1 DEF ClearFlagInMemory, TypeOK
  <2>. QED
    BY <1>5, <2>2 DEF ClearFlagInMemory, TypeOK
<1>6. CASE ClearFlag(c)
  <2>1. sender' \in [Commits -> Senders] /\ flags' \subseteq Commits
    BY <1>6, EmptyTypes DEF ClearFlag, Stored, TypeOK
  <2>. QED
    BY <1>6, <2>1 DEF ClearFlag, TypeOK
<1>. QED
  BY <1>1, <1>2, <1>3, <1>4, <1>5, <1>6 DEF SenderStep

LEMMA BlockType ==
  ASSUME TypeOK, NEW c \in Commits, Publish(c) \/ CheckBlock(c) \/ NodeStep(c)
  PROVE  TypeOK'
<1>1. CASE Publish(c)
  BY <1>1 DEF Publish, TypeOK
<1>2. CASE CheckBlock(c)
  BY <1>2 DEF CheckBlock, MoveNode, TypeOK
<1>3. CASE SetBroadcastedFlag(c)
  BY <1>3 DEF SetBroadcastedFlag, MoveNode, TypeOK
<1>4. CASE SetFlagInMemory(c)
  BY <1>4 DEF SetFlagInMemory, MoveNode, TypeOK
<1>5. CASE BroadcastPunishTx(c)
  <2>1. sender' \in [Commits -> Senders]
    BY <1>5, EmptyTypes DEF BroadcastPunishTx, TypeOK
  <2>. QED
    BY <1>5, <2>1 DEF BroadcastPunishTx, MoveNode, TypeOK
<1>. QED
  BY <1>1, <1>2, <1>3, <1>4, <1>5 DEF NodeStep

LEMMA RestartType ==
  ASSUME TypeOK, Restart
  PROVE  TypeOK'
<1>1. restarts' \in 0 .. MaxRestart
  BY CommitsAssumption DEF Restart, TypeOK
<1>2. sender' \in [Commits -> Senders]
  BY EmptyTypes DEF Restart
<1>3. /\ op' \in [Chans -> Attempts]
      /\ \A ch \in Chans : op'[ch].st # "idle" => op'[ch].commit \in OfChannel(ch)
  BY EmptyTypes DEF Restart
<1>4. mon' \in Spendings
  BY EmptyTypes DEF Restart
<1>. QED
  BY <1>1, <1>2, <1>3, <1>4 DEF Restart, TypeOK

LEMMA NextType ==
  ASSUME TypeOK, [Next]_vars
  PROVE  TypeOK'
<1>1. CASE UNCHANGED vars
  BY <1>1 DEF vars, TypeOK
<1>. QED
  BY <1>1, AttemptType, AddType, MonitorType, SenderType, BlockType, RestartType
  DEF Next

\* Every variable has its type in every reachable state.
THEOREM TypeCorrect == Spec => []TypeOK
<1>1. TypeOK /\ [Next]_vars => TypeOK'
  BY NextType
<1>. QED
  BY InitType, <1>1, PTL DEF Spec

-----------------------------------------------------------------------------
(* What is pending concerns no commitment that still counts.               *)

Working == {"adding", "added"}

\* A commitment that has lost its use does not regain it.
LEMMA GoneStays ==
  ASSUME spending \subseteq spending', punished \subseteq punished',
         NEW c, Gone(c)
  PROVE  Gone(c)'
BY DEF Gone

\* A step that leaves the attempts alone and deletes only what is void.
LEMMA AttemptsStand ==
  ASSUME TypeOK, TowerInv, UNCHANGED <<op, revoked>>,
         spending \subseteq spending', punished \subseteq punished',
         \A c \in punish \ punish' : Gone(c)',
         \A c \in commitMap \ commitMap' : Gone(c)'
  PROVE  RevokedIsPunishable' /\ \A ch \in Chans : AttemptInv(ch)'
<1>1. ASSUME NEW c, Kept(c)
      PROVE  Kept(c)'
  BY <1>1, GoneStays DEF Kept, HasPunishTx
<1>2. ASSUME NEW c, Gone(c) \/ c \in punish
      PROVE  Gone(c)' \/ c \in punish'
  BY <1>2, GoneStays
<1>3. RevokedIsPunishable'
  BY <1>1 DEF TowerInv, RevokedIsPunishable
<1>4. ASSUME NEW ch \in Chans
      PROVE  AttemptInv(ch)'
  BY <1>1, <1>2 DEF TowerInv, AttemptInv
<1>. QED
  BY <1>3, <1>4

\* A step of one attempt that touches no other commitment than its own.
LEMMA OneAttempt ==
  ASSUME TypeOK, TypeOK', TowerInv, NEW ch \in Chans, NEW c \in OfChannel(ch),
         c \notin revoked,
         \A x \in Chans \ {ch} : op'[x] = op[x],
         UNCHANGED <<spending, punished>>,
         revoked' \subseteq revoked \cup {c}, c \in revoked' => Kept(c)',
         punish \ {c} \subseteq punish', commitMap \ {c} \subseteq commitMap',
         AttemptInv(ch)'
  PROVE  RevokedIsPunishable' /\ \A x \in Chans : AttemptInv(x)'
<1>1. ASSUME NEW d, d # c, Kept(d)
      PROVE  Kept(d)'
  BY <1>1, GoneStays DEF Kept, HasPunishTx
<1>2. RevokedIsPunishable'
  BY <1>1 DEF TowerInv, RevokedIsPunishable
<1>3. ASSUME NEW x \in Chans \ {ch}
      PROVE  AttemptInv(x)'
  <2>1. SUFFICES ASSUME op[x].st # "idle"
                 PROVE  AttemptInv(x)'
    BY DEF AttemptInv
  <2>2. op[x].commit # c
    BY <2>1, WorkingType DEF OfChannel
  <2>3. AttemptInv(x) /\ op'[x] = op[x]
    BY DEF TowerInv
  <2>4. Gone(op[x].commit) \/ op[x].commit \in punish
        => Gone(op[x].commit)' \/ op[x].commit \in punish'
    BY <2>2, GoneStays
  <2>. QED
    BY <1>1, <2>2, <2>3, <2>4 DEF AttemptInv
<1>. QED
  BY <1>2, <1>3

LEMMA InitTower == Init => TowerInv
BY DEF Init, TowerInv, RevokedIsPunishable, AttemptInv, SenderInv, PendingVoid,
       IndexInv, NoAttempt, NoSender, NoSpending, NoIndex, Cleaning

\* The parts that do not concern the attempts.
LEMMA OthersStand ==
  ASSUME TypeOK, TowerInv, UNCHANGED <<sender, mon>>,
         spending \subseteq spending', punished \subseteq punished'
  PROVE  (\A c \in Commits : SenderInv(c)') /\ PendingVoid'
BY GoneStays DEF TowerInv, SenderInv, PendingVoid

LEMMA AttemptTower ==
  ASSUME TypeOK, TypeOK', TowerInv, NEW ch \in Chans, AttemptStep(ch)
  PROVE  TowerInv'
<1>c. PICK c : c = op[ch].commit
  OBVIOUS
<1>0. op[ch].st # "idle"
  BY DEF AttemptStep, Merge, AddReturns, Complete, Fail, Abandon, RemoveCommitTx,
         RemoveFlag, Forget, RemoveReturns
<1>1. c \in Commits /\ c \in OfChannel(ch) /\ c \notin revoked /\ AttemptInv(ch)
  BY <1>c, <1>0, WorkingType DEF TowerInv, AttemptInv
<1>2. /\ (\A d \in Commits : SenderInv(d)') /\ PendingVoid'
      /\ UNCHANGED <<spending, punished>>
  <2>1. UNCHANGED <<sender, mon, spending, punished>>
    BY DEF AttemptStep, Merge, AddReturns, Complete, Fail, Abandon, RemoveCommitTx,
           RemoveFlag, Forget, RemoveReturns
  <2>. QED
    BY <2>1, OthersStand
<1>3. IndexInv'
  <2>1. CASE Merge(ch)
    BY <1>c, <1>1, <2>1 DEF Merge, IndexWith, TowerInv, IndexInv
  <2>2. CASE Forget(ch)
    BY <2>2 DEF Forget, IndexWithout, TowerInv, IndexInv
  <2>3. CASE UNCHANGED <<utxoMap, index>>
    BY <2>3 DEF TowerInv, IndexInv
  <2>. QED
    BY <2>1, <2>2, <2>3
    DEF AttemptStep, AddReturns, Complete, Fail, Abandon, RemoveCommitTx,
        RemoveFlag, RemoveReturns
<1>4. Gone(c) => Gone(c)'
  BY <1>2, GoneStays
<1>5. CASE Merge(ch)
  <2>1. op'[ch].st = "adding" /\ op'[ch].commit = c
        /\ \A x \in Chans \ {ch} : op'[x] = op[x]
    BY <1>c, <1>0, <1>5, MoveOpType DEF Merge
  <2>2. Kept(c)'
    BY <1>c, <1>1, <1>4, <1>5 DEF Merge, AttemptInv, Kept, HasPunishTx
  <2>3. AttemptInv(ch)'
    BY <1>c, <1>1, <1>5, <2>1, <2>2 DEF Merge, AttemptInv
  <2>. QED
    BY <1>1, <1>2, <1>3, <1>5, <2>1, <2>3, OneAttempt DEF Merge, TowerInv
<1>6. CASE AddReturns(ch)
  <2>1. op'[ch].st = "added" /\ op'[ch].commit = c
        /\ \A x \in Chans \ {ch} : op'[x] = op[x]
    BY <1>c, <1>0, <1>6, MoveOpType DEF AddReturns
  <2>2. Kept(c)'
    BY <1>c, <1>1, <1>4, <1>6 DEF AddReturns, AttemptInv, Kept, HasPunishTx
  <2>3. AttemptInv(ch)'
    BY <1>c, <1>1, <1>6, <2>1, <2>2 DEF AddReturns, AttemptInv
  <2>. QED
    BY <1>1, <1>2, <1>3, <1>6, <2>1, <2>3, OneAttempt DEF AddReturns, TowerInv
<1>7. CASE Complete(ch) \/ Abandon(ch) \/ RemoveReturns(ch)
  <2>1. op' = [op EXCEPT ![ch] = NoAttempt]
    BY <1>7 DEF Complete, Abandon, RemoveReturns
  <2>2. op'[ch].st = "idle" /\ \A x \in Chans \ {ch} : op'[x] = op[x]
    BY <2>1, EmptyTypes, SetOpType
  <2>3. AttemptInv(ch)'
    BY <2>2 DEF AttemptInv
  <2>4. /\ UNCHANGED <<punish, commitMap>>
        /\ revoked' \subseteq revoked \cup {c}
        /\ revoked' # revoked => op[ch].st = "added"
    BY <1>c, <1>7 DEF Complete, Abandon, RemoveReturns
  <2>5. c \in revoked' => Kept(c)'
    BY <1>c, <1>1, <1>4, <2>4 DEF AttemptInv, Kept, HasPunishTx
  <2>. QED
    BY <1>1, <1>2, <1>3, <2>2, <2>3, <2>4, <2>5, OneAttempt DEF TowerInv
<1>8. CASE Fail(ch) \/ RemoveCommitTx(ch) \/ RemoveFlag(ch) \/ Forget(ch)
  <2>1. /\ op'[ch].st \in {"drop", "unflag", "forget", "removing"}
        /\ op'[ch].commit = c
        /\ \A x \in Chans \ {ch} : op'[x] = op[x]
    BY <1>c, <1>0, <1>8, MoveOpType DEF Fail, RemoveCommitTx, RemoveFlag, Forget
  <2>2. /\ punish \ {c} \subseteq punish' /\ commitMap \ {c} \subseteq commitMap'
        /\ UNCHANGED revoked
    BY <1>c, <1>8 DEF Fail, RemoveCommitTx, RemoveFlag, Forget, Stored, Dropped
  <2>3. AttemptInv(ch)'
    BY <1>1, <2>1, <2>2 DEF AttemptInv
  <2>. QED
    BY <1>1, <1>2, <1>3, <2>1, <2>2, <2>3, OneAttempt DEF TowerInv
<1>. QED
  BY <1>5, <1>6, <1>7, <1>8 DEF AttemptStep

LEMMA AddTower ==
  ASSUME TypeOK, TypeOK', TowerInv, NEW c \in Commits, AddCommitTx(c)
  PROVE  TowerInv'
<1>1. ChanOf[c] \in Chans /\ c \in OfChannel(ChanOf[c]) /\ c \notin revoked
  BY ChannelFacts DEF AddCommitTx
<1>2. PICK r \in {[st |-> "merge", commit |-> c], [st |-> "drop", commit |-> c]} :
        op' = [op EXCEPT ![ChanOf[c]] = r] /\ (r.st = "merge" => c \in punish')
  BY DEF AddCommitTx
<1>3. r \in Attempts /\ r.commit = c /\ r.st \in {"merge", "drop"}
  BY <1>2 DEF Attempts
<1>4. op'[ChanOf[c]] = r /\ \A x \in Chans \ {ChanOf[c]} : op'[x] = op[x]
  BY <1>1, <1>2, <1>3, SetOpType
<1>5. AttemptInv(ChanOf[c])'
  BY <1>1, <1>2, <1>3, <1>4 DEF AttemptInv, AddCommitTx
<1>6. (\A d \in Commits : SenderInv(d)') /\ PendingVoid'
  BY OthersStand DEF AddCommitTx
<1>7. IndexInv'
  BY DEF AddCommitTx, TowerInv, IndexInv
<1>8. punish \subseteq punish' /\ UNCHANGED <<commitMap, spending, punished, revoked>>
  BY DEF AddCommitTx
<1>. QED
  BY <1>1, <1>4, <1>5, <1>6, <1>7, <1>8, OneAttempt DEF TowerInv

LEMMA MonitorTower ==
  ASSUME TypeOK, TypeOK', TowerInv
  PROVE  /\ \A us \in SUBSET Spliced : Splice(us) \/ UtxoSpent(us) => TowerInv'
         /\ MonitorStep => TowerInv'
         /\ \A u \in Utxos : WriteIndex(u) => TowerInv'
<1>1. ASSUME NEW us \in SUBSET Spliced, Splice(us)
      PROVE  TowerInv'
  <2>1. IndexInv'
    BY <1>1 DEF Splice, TowerInv, IndexInv
  <2>. QED
    BY <1>1, <2>1, AttemptsStand, OthersStand DEF Splice, TowerInv
<1>2. ASSUME NEW us \in SUBSET Spliced, UtxoSpent(us)
      PROVE  TowerInv'
  <2>1. ASSUME NEW c \in Void(us)
        PROVE  Gone(c) /\ Gone(c)'
    <3>1. PICK u \in us : c \in utxoMap[u]
      BY DEF Void
    <3>2. u \in Utxos /\ u \in spending
      BY <1>2, SplicedAssumption DEF UtxoSpent
    <3>3. u \in Inputs[c]
      BY <3>1, <3>2 DEF TowerInv, IndexInv
    <3>. QED
      BY <1>2, <3>2, <3>3 DEF Gone, UtxoSpent
  <2>2. PendingVoid'
    BY <1>2, <2>1 DEF UtxoSpent, PendingVoid
  <2>3. \A c \in Commits : SenderInv(c)'
    BY <1>2 DEF UtxoSpent, TowerInv, SenderInv
  <2>4. IndexInv'
    BY <1>2 DEF UtxoSpent, IndexWithout, TowerInv, IndexInv
  <2>5. RevokedIsPunishable' /\ \A ch \in Chans : AttemptInv(ch)'
    BY <1>2, <2>1, AttemptsStand DEF UtxoSpent
  <2>. QED
    BY <2>2, <2>3, <2>4, <2>5 DEF TowerInv
<1>3. ASSUME SpentPunish
      PROVE  TowerInv'
  <2>1. mon'.commits = mon.commits /\ mon \in Spendings
    BY <1>3 DEF SpentPunish, Spendings, TypeOK
  <2>2. ASSUME NEW c \in mon.commits
        PROVE  Gone(c)'
    BY <1>3, GoneStays DEF SpentPunish, TowerInv, PendingVoid
  <2>3. PendingVoid'
    BY <2>1, <2>2 DEF PendingVoid
  <2>4. (\A c \in Commits : SenderInv(c)') /\ IndexInv'
    BY <1>3 DEF SpentPunish, TowerInv, SenderInv, IndexInv
  <2>5. RevokedIsPunishable' /\ \A ch \in Chans : AttemptInv(ch)'
    BY <1>3, <2>2, AttemptsStand DEF SpentPunish, Stored
  <2>. QED
    BY <2>3, <2>4, <2>5 DEF TowerInv
<1>4. ASSUME SpentReturns
      PROVE  TowerInv'
  <2>1. PendingVoid'
    BY <1>4 DEF SpentReturns, NoSpending, PendingVoid
  <2>2. (\A c \in Commits : SenderInv(c)') /\ IndexInv'
    BY <1>4 DEF SpentReturns, TowerInv, SenderInv, IndexInv
  <2>3. RevokedIsPunishable' /\ \A ch \in Chans : AttemptInv(ch)'
    BY <1>4, AttemptsStand DEF SpentReturns
  <2>. QED
    BY <2>1, <2>2, <2>3 DEF TowerInv
<1>5. ASSUME NEW u \in Utxos, WriteIndex(u)
      PROVE  TowerInv'
  <2>1. IndexInv'
    BY <1>5 DEF WriteIndex, Stored, TowerInv, IndexInv, TypeOK
  <2>. QED
    BY <1>5, <2>1, AttemptsStand, OthersStand DEF WriteIndex, TowerInv
<1>. QED
  BY <1>1, <1>2, <1>3, <1>4, <1>5 DEF MonitorStep

LEMMA BlockTower ==
  ASSUME TypeOK, TypeOK', TowerInv, NEW c \in Commits,
         Publish(c) \/ CheckBlock(c) \/ NodeStep(c)
  PROVE  TowerInv'
<1>1. /\ UNCHANGED <<op, revoked, mon, punish, commitMap, utxoMap, index, spending>>
      /\ punished \subseteq punished'
  BY DEF Publish, CheckBlock, NodeStep, SetBroadcastedFlag, SetFlagInMemory,
         BroadcastPunishTx
<1>2. RevokedIsPunishable' /\ \A ch \in Chans : AttemptInv(ch)'
  BY <1>1, AttemptsStand
<1>3. IndexInv' /\ PendingVoid'
  BY <1>1, GoneStays DEF TowerInv, IndexInv, PendingVoid
<1>4. CASE UNCHANGED sender
  BY <1>1, <1>2, <1>3, <1>4 DEF TowerInv, SenderInv
<1>5. CASE sender' = [sender EXCEPT ![c] = [NoSender EXCEPT !.st = "send"]]
  <2>1. sender'[c].st = "send" /\ sender'[c].commits = {}
        /\ \A d \in Commits \ {c} : sender'[d] = sender[d]
    BY <1>5, EmptyTypes DEF TypeOK
  <2>2. \A d \in Commits : SenderInv(d)'
    BY <1>1, <2>1 DEF TowerInv, SenderInv, Cleaning
  <2>. QED
    BY <1>2, <1>3, <2>2 DEF TowerInv
<1>. QED
  BY <1>4, <1>5
  DEF Publish, CheckBlock, NodeStep, SetBroadcastedFlag, SetFlagInMemory,
      BroadcastPunishTx

\* What a step of a goroutine does to the records of the goroutines.
LEMMA OneSender ==
  ASSUME TypeOK, TowerInv, NEW c \in Commits, NEW r \in Senders,
         sender' = [sender EXCEPT ![c] = r],
         punished \subseteq punished',
         r.st \in Cleaning => c \in punished',
         r.commits \subseteq OfChannel(ChanOf[c])
  PROVE  \A d \in Commits : SenderInv(d)'
<1>1. sender'[c] = r /\ \A d \in Commits \ {c} : sender'[d] = sender[d]
  BY DEF TypeOK
<1>. QED
  BY <1>1 DEF TowerInv, SenderInv

LEMMA SenderTower ==
  ASSUME TypeOK, TypeOK', TowerInv, NEW c \in Commits, SenderStep(c)
  PROVE  TowerInv'
<1>0. /\ sender[c] \in Senders /\ SenderInv(c)
      /\ Cleaned(c) \subseteq Commits /\ Cleaned(c) \subseteq OfChannel(ChanOf[c])
  BY DEF TypeOK, Cleaned, TowerInv
<1>1. /\ UNCHANGED <<op, revoked, mon, spending>> /\ punished \subseteq punished'
  BY DEF SenderStep, Send, CleanPunish, CleanIndex, CleanMemory,
         ClearFlagInMemory, ClearFlag
<1>2. PendingVoid'
  BY <1>1, GoneStays DEF TowerInv, PendingVoid
<1>3. IndexInv'
  <2>1. CASE CleanIndex(c)
    BY <2>1 DEF CleanIndex, TowerInv, IndexInv
  <2>2. CASE CleanMemory(c)
    BY <2>2 DEF CleanMemory, IndexWithout, TowerInv, IndexInv
  <2>3. CASE UNCHANGED <<utxoMap, index>>
    BY <2>3 DEF TowerInv, IndexInv
  <2>. QED
    BY <2>1, <2>2, <2>3
    DEF SenderStep, Send, CleanPunish, ClearFlagInMemory, ClearFlag
<1>4. \A d \in Commits : SenderInv(d)'
  <2>1. CASE Send(c)
    <3>1. PICK r : r = [sender[c] EXCEPT !.st = "clean"]
      OBVIOUS
    <3>2. r \in Senders /\ r.commits = sender[c].commits
      BY <1>0, <3>1, SenderStage DEF Cleaning
    <3>3. sender' = [sender EXCEPT ![c] = r] /\ c \in punished'
      BY <2>1, <3>1 DEF Send
    <3>. QED
      BY <1>0, <1>1, <3>2, <3>3, OneSender DEF SenderInv
  <2>2. CASE CleanPunish(c)
    <3>1. PICK r \in {[sender[c] EXCEPT !.st = "index"],
                      [sender[c] EXCEPT !.st = "index", !.commits = Cleaned(c)]} :
            sender' = [sender EXCEPT ![c] = r]
      BY <2>2 DEF CleanPunish
    <3>2. r \in Senders /\ r.commits \in {sender[c].commits, Cleaned(c)}
      <4>1. CASE r = [sender[c] EXCEPT !.st = "index"]
        BY <1>0, <4>1, SenderStage DEF Cleaning
      <4>2. CASE r = [sender[c] EXCEPT !.st = "index", !.commits = Cleaned(c)]
        <5>1. PICK x \in Senders : x = sender[c]
          BY <1>0
        <5>2. /\ [x EXCEPT !.st = "index", !.commits = Cleaned(c)] \in Senders
              /\ [x EXCEPT !.st = "index", !.commits = Cleaned(c)].commits = Cleaned(c)
          BY <1>0 DEF Senders, Cleaning
        <5>. QED
          BY <4>2, <5>1, <5>2
      <4>. QED
        BY <3>1, <4>1, <4>2
    <3>3. c \in punished
      BY <1>0, <2>2 DEF CleanPunish, SenderInv, Cleaning
    <3>. QED
      BY <1>0, <1>1, <3>1, <3>2, <3>3, OneSender DEF SenderInv
  <2>3. CASE CleanIndex(c)
    <3>1. PICK us : us = {u \in UtxosOf(ChanOf[c]) : index[u] # {}}
      OBVIOUS
    <3>2. PICK r \in {[sender[c] EXCEPT !.st = "memory"],
                      [sender[c] EXCEPT !.st = "memory", !.utxos = us]} :
            sender' = [sender EXCEPT ![c] = r]
      BY <2>3, <3>1 DEF CleanIndex
    <3>3. us \in SUBSET Utxos
      BY <3>1, ChannelFacts
    <3>4. r \in Senders /\ r.commits = sender[c].commits
      <4>1. CASE r = [sender[c] EXCEPT !.st = "memory"]
        BY <1>0, <4>1, SenderStage DEF Cleaning
      <4>2. CASE r = [sender[c] EXCEPT !.st = "memory", !.utxos = us]
        <5>1. PICK x \in Senders : x = sender[c]
          BY <1>0
        <5>2. /\ [x EXCEPT !.st = "memory", !.utxos = us] \in Senders
              /\ [x EXCEPT !.st = "memory", !.utxos = us].commits = x.commits
          BY <3>3 DEF Senders, Cleaning
        <5>. QED
          BY <4>2, <5>1, <5>2
      <4>. QED
        BY <3>2, <4>1, <4>2
    <3>5. c \in punished
      BY <1>0, <2>3 DEF CleanIndex, SenderInv, Cleaning
    <3>. QED
      BY <1>0, <1>1, <3>2, <3>4, <3>5, OneSender DEF SenderInv
  <2>4. CASE CleanMemory(c)
    <3>1. PICK r : r = [NoSender EXCEPT !.st = "flag"]
      OBVIOUS
    <3>2. r \in Senders /\ r.commits = {}
      BY <3>1, EmptyTypes
    <3>3. sender' = [sender EXCEPT ![c] = r] /\ c \in punished
      BY <1>0, <2>4, <3>1 DEF CleanMemory, SenderInv, Cleaning
    <3>. QED
      BY <1>1, <3>2, <3>3, OneSender
  <2>5. CASE ClearFlagInMemory(c)
    <3>1. PICK r : r = [sender[c] EXCEPT !.st = "stored"]
      OBVIOUS
    <3>2. r \in Senders /\ r.commits = sender[c].commits
      BY <1>0, <3>1, SenderStage DEF Cleaning
    <3>3. sender' = [sender EXCEPT ![c] = r] /\ c \in punished
      BY <1>0, <2>5, <3>1 DEF ClearFlagInMemory, SenderInv, Cleaning
    <3>. QED
      BY <1>0, <1>1, <3>2, <3>3, OneSender DEF SenderInv
  <2>6. CASE ClearFlag(c)
    <3>1. sender' = [sender EXCEPT ![c] = NoSender] /\ c \in punished
      BY <1>0, <2>6 DEF ClearFlag, SenderInv, Cleaning
    <3>2. NoSender.commits = {}
      BY DEF NoSender
    <3>. QED
      BY <1>1, <3>1, <3>2, EmptyTypes, OneSender
  <2>. QED
    BY <2>1, <2>2, <2>3, <2>4, <2>5, <2>6 DEF SenderStep
<1>5. ASSUME NEW d \in OfChannel(ChanOf[c]), c \in punished
      PROVE  Gone(d)'
  <2>1. c \in OfChannel(ChanOf[d]) /\ c \in punished'
    BY <1>1, <1>5 DEF OfChannel
  <2>. QED
    BY <2>1 DEF Gone
<1>6. \A d \in punish \ punish' : Gone(d)'
  <2>1. SUFFICES ASSUME punish' # punish
                 PROVE  \A d \in punish \ punish' : Gone(d)'
    OBVIOUS
  <2>2. CleanPunish(c)
    BY <2>1 DEF SenderStep, Send, CleanIndex, CleanMemory, ClearFlagInMemory,
                ClearFlag
  <2>3. c \in punished
    BY <1>0, <2>2 DEF CleanPunish, SenderInv, Cleaning
  <2>. QED
    BY <1>0, <1>5, <2>1, <2>2, <2>3 DEF CleanPunish
<1>7. \A d \in commitMap \ commitMap' : Gone(d)'
  <2>1. SUFFICES ASSUME commitMap' # commitMap
                 PROVE  \A d \in commitMap \ commitMap' : Gone(d)'
    OBVIOUS
  <2>2. CleanMemory(c)
    BY <2>1 DEF SenderStep, Send, CleanPunish, CleanIndex, ClearFlagInMemory,
                ClearFlag
  <2>3. c \in punished
    BY <1>0, <2>2 DEF CleanMemory, SenderInv, Cleaning
  <2>. QED
    BY <1>0, <1>5, <2>2, <2>3 DEF CleanMemory, SenderInv
<1>8. RevokedIsPunishable' /\ \A ch \in Chans : AttemptInv(ch)'
  BY <1>1, <1>6, <1>7, AttemptsStand
<1>. QED
  BY <1>2, <1>3, <1>4, <1>8 DEF TowerInv

\* A start takes the memory from what is on disk.
LEMMA RestartTower ==
  ASSUME TypeOK, TypeOK', TowerInv, Restart
  PROVE  TowerInv'
<1>1. /\ UNCHANGED <<punish, index, revoked, spending, punished>>
      /\ commitMap' = punish /\ utxoMap' = index
  BY DEF Restart
<1>2. RevokedIsPunishable'
  BY <1>1 DEF TowerInv, RevokedIsPunishable, Kept, HasPunishTx, Gone
<1>3. \A ch \in Chans : AttemptInv(ch)'
  <2>1. \A ch \in Chans : op'[ch].st = "idle"
    BY EmptyTypes DEF Restart
  <2>. QED
    BY <2>1 DEF AttemptInv
<1>4. \A c \in Commits : SenderInv(c)'
  <2>1. \A c \in Commits :
          sender'[c].st \in {"off", "send"} /\ sender'[c].commits = {}
    BY DEF Restart, NoSender
  <2>. QED
    BY <2>1 DEF SenderInv, Cleaning
<1>5. PendingVoid'
  BY DEF Restart, NoSpending, PendingVoid
<1>6. IndexInv'
  BY <1>1 DEF TowerInv, IndexInv
<1>. QED
  BY <1>2, <1>3, <1>4, <1>5, <1>6 DEF TowerInv

LEMMA NextTower ==
  ASSUME TypeOK, TypeOK', TowerInv, [Next]_vars
  PROVE  TowerInv'
<1>1. CASE UNCHANGED vars
  BY <1>1 DEF vars, TowerInv, RevokedIsPunishable, AttemptInv, SenderInv,
              PendingVoid, IndexInv, Kept, HasPunishTx, Gone
<1>. QED
  BY <1>1, AttemptTower, AddTower, MonitorTower, SenderTower, BlockTower,
     RestartTower DEF Next

\* No interleaving of attempts, splices, cleanings, database errors and restarts
\* lets what is pending in the tower concern a commitment that still counts.
THEOREM TowerInvariant == Spec => []TowerInv
<1>1. TypeOK /\ TypeOK' /\ TowerInv /\ [Next]_vars => TowerInv'
  BY NextTower
<1>. QED
  BY InitTower, TypeCorrect, <1>1, PTL DEF Spec

\* Every commitment a completed attempt left behind stays punishable, in memory
\* and on disk, for as long as its punishment is of use.
THEOREM RevokedStaysPunishable == Spec => []RevokedIsPunishable
<1>1. TowerInv => RevokedIsPunishable
  BY DEF TowerInv
<1>. QED
  BY TowerInvariant, <1>1, PTL

-----------------------------------------------------------------------------
(* The indexes in memory stay in step while the process was not stopped.   *)

\* The punish transactions of the channel are still of use.
Fresh(c) == OfChannel(ChanOf[c]) \cap punished = {}

\* The index names a commitment under all its inputs, or under none.
Named(c) == \A u \in Inputs[c] : c \in utxoMap[u] <=> c \in commitMap
\* Only an attempt that takes the commitment out may have deleted its punish
\* transaction before the memory.
TakenOut(c) ==
  \/ c \in punish
  \/ /\ op[ChanOf[c]].st \in {"unflag", "forget"} /\ op[ChanOf[c]].commit = c

StepInv ==
  /\ restarts = 0 => \A c \in Commits :
       Fresh(c) => Named(c) /\ (c \in commitMap => TakenOut(c))
  \* what a splice spends has been replaced, so no attempt adds it again
  /\ \A c \in Commits : Inputs[c] \cap spending # {} => c \in revoked
  /\ \A c \in mon.commits : c \in revoked /\ c \notin commitMap
  /\ \A c \in Commits : sender[c].utxos \subseteq UtxosOf(ChanOf[c])

LEMMA InitStep == Init => StepInv
<1> SUFFICES ASSUME Init PROVE StepInv
  OBVIOUS
<1>1. mon.commits = {} /\ \A c \in Commits : sender[c].utxos = {}
  BY DEF Init, NoSpending, NoSender
<1>2. \A c \in Commits : Named(c)
  BY ChannelFacts DEF Init, Named, NoIndex
<1>. QED
  BY <1>1, <1>2 DEF Init, StepInv

\* The memory of one commitment is left alone, or it loses its use.
StaysNamed(c) ==
  /\ c \in commitMap' <=> c \in commitMap
  /\ \A u \in Inputs[c] : c \in utxoMap'[u] <=> c \in utxoMap[u]

\* A step that adds no commitment, and deletes only what is of no use.
LEMMA StepStays ==
  ASSUME TypeOK, StepInv, UNCHANGED <<op, restarts, spending>>,
         punished \subseteq punished', revoked \subseteq revoked',
         commitMap' \subseteq commitMap,
         \A c \in Commits : Fresh(c)' => StaysNamed(c),
         \A c \in Commits : Fresh(c)' /\ c \in commitMap' /\ c \in punish => c \in punish',
         \A c \in mon'.commits : c \in mon.commits,
         \A c \in Commits : sender'[c].utxos \subseteq UtxosOf(ChanOf[c])
  PROVE  StepInv'
<1>1. \A c \in Commits : Fresh(c)' => Fresh(c)
  BY DEF Fresh
<1>2. ASSUME restarts' = 0, NEW c \in Commits, Fresh(c)'
      PROVE  Named(c)' /\ (c \in commitMap' => TakenOut(c)')
  <2>1. Named(c) /\ (c \in commitMap => TakenOut(c)) /\ StaysNamed(c)
    BY <1>1, <1>2 DEF StepInv
  <2>. QED  BY <1>2, <2>1 DEF Named, TakenOut, StaysNamed
<1>3. \A c \in mon'.commits : c \in revoked' /\ c \notin commitMap'
  BY DEF StepInv
<1>. QED
  BY <1>2, <1>3 DEF StepInv

LEMMA StepUnmoved ==
  ASSUME TypeOK, StepInv,
         UNCHANGED <<commitMap, utxoMap, punish, op, mon, sender, revoked, spending, restarts>>,
         punished \subseteq punished'
  PROVE  StepInv'
BY StepStays DEF StepInv, StaysNamed

\* A step of one attempt, which concerns its own commitment.
LEMMA StepOfOne ==
  ASSUME TypeOK, TypeOK', StepInv, NEW ch \in Chans, NEW c \in OfChannel(ch),
         UNCHANGED <<restarts, spending, punished, mon, sender>>, revoked \subseteq revoked',
         \A x \in Chans \ {ch} : op'[x] = op[x],
         op[ch].st # "idle" => op[ch].commit = c,
         c \notin mon.commits,
         \A d \in Commits \ {c} : StaysNamed(d) /\ (d \in punish => d \in punish'),
         restarts = 0 /\ Fresh(c) => Named(c)' /\ (c \in commitMap' => TakenOut(c)')
  PROVE  StepInv'
<1>1. \A d \in Commits : Fresh(d)' <=> Fresh(d)
  BY DEF Fresh
<1>2. ASSUME restarts' = 0, NEW d \in Commits \ {c}, Fresh(d)'
      PROVE  Named(d)' /\ (d \in commitMap' => TakenOut(d)')
  <2>1. Named(d) /\ (d \in commitMap => TakenOut(d)) /\ StaysNamed(d)
    BY <1>1, <1>2 DEF StepInv
  <2>2. TakenOut(d) => TakenOut(d)'
    <3>1. CASE ChanOf[d] # ch
      BY <3>1, ChannelFacts DEF TakenOut
    <3>2. CASE ChanOf[d] = ch
      BY <3>2, <1>2 DEF TakenOut
    <3>. QED  BY <3>1, <3>2
  <2>. QED  BY <2>1, <2>2 DEF Named, StaysNamed
<1>3. c \in Commits
  BY DEF OfChannel
<1>4. \A d \in mon'.commits : d \in revoked' /\ d \notin commitMap'
  <2>1. \A d \in mon.commits : d \in Commits /\ d # c
    BY DEF TypeOK, Spendings
  <2>. QED  BY <2>1 DEF StepInv, StaysNamed
<1>. QED
  BY <1>1, <1>2, <1>3, <1>4 DEF StepInv

LEMMA AttemptInStep ==
  ASSUME TypeOK, TypeOK', TowerInv, StepInv, NEW ch \in Chans, AttemptStep(ch)
  PROVE  StepInv'
<1>0. op[ch].st # "idle"
  BY DEF AttemptStep, Merge, AddReturns, Complete, Fail, Abandon, RemoveCommitTx,
         RemoveFlag, Forget, RemoveReturns
<1>1. PICK c \in Commits : c = op[ch].commit /\ c \in OfChannel(ch) /\ ChanOf[c] = ch
  BY <1>0, WorkingType DEF OfChannel
<1>2. c \notin revoked /\ AttemptInv(ch) /\ Inputs[c] \subseteq Utxos
  BY <1>0, <1>1, ChannelFacts DEF TowerInv, AttemptInv
<1>3. c \notin mon.commits
  BY <1>2 DEF StepInv
<1>4. UNCHANGED <<restarts, spending, punished, mon, sender>> /\ revoked \subseteq revoked'
  BY DEF AttemptStep, Merge, AddReturns, Complete, Fail, Abandon, RemoveCommitTx,
         RemoveFlag, Forget, RemoveReturns
<1>5. \A x \in Chans \ {ch} : op'[x] = op[x]
  <2>1. \E r : op' = [op EXCEPT ![ch] = r]
    BY DEF AttemptStep, Merge, AddReturns, Complete, Fail, Abandon, RemoveCommitTx,
           RemoveFlag, Forget, RemoveReturns, MoveOp
  <2>. QED  BY <2>1 DEF TypeOK
<1>6. restarts = 0 /\ Fresh(c) => Named(c) /\ (c \in commitMap => TakenOut(c))
  BY DEF StepInv
<1>7. CASE Merge(ch)
  <2>1. /\ commitMap' = commitMap \cup {c} /\ utxoMap' = IndexWith(utxoMap, c)
        /\ UNCHANGED punish
    BY <1>1, <1>7 DEF Merge
  <2>2. \A d \in Commits \ {c} : StaysNamed(d) /\ (d \in punish => d \in punish')
    BY <2>1, ChannelFacts DEF StaysNamed, IndexWith
  <2>3. Named(c)'
    BY <1>2, <2>1 DEF Named, IndexWith
  <2>4. Fresh(c) => c \in punish'
    BY <1>1, <1>2, <1>7, <2>1 DEF Merge, AttemptInv, Gone, Fresh, StepInv
  <2>. QED
    BY <1>1, <1>3, <1>4, <1>5, <2>2, <2>3, <2>4, StepOfOne DEF TakenOut
<1>8. CASE Forget(ch)
  <2>1. /\ commitMap' = commitMap \ {c} /\ utxoMap' = IndexWithout(utxoMap, {}, {c})
        /\ UNCHANGED punish
    BY <1>1, <1>8 DEF Forget
  <2>2. \A d \in Commits \ {c} : StaysNamed(d) /\ (d \in punish => d \in punish')
    BY <2>1, ChannelFacts DEF StaysNamed, IndexWithout
  <2>3. Named(c)' /\ c \notin commitMap'
    BY <1>2, <2>1 DEF Named, IndexWithout
  <2>. QED
    BY <1>1, <1>3, <1>4, <1>5, <2>2, <2>3, StepOfOne
<1>9. CASE RemoveCommitTx(ch)
  <2>1. /\ UNCHANGED <<commitMap, utxoMap>>
        /\ \A d \in Commits \ {c} : d \in punish => d \in punish'
    BY <1>1, <1>9 DEF RemoveCommitTx, Stored, Dropped
  <2>2. op'[ch].st = "unflag" /\ op'[ch].commit = c
    BY <1>0, <1>1, <1>9, MoveOpType DEF RemoveCommitTx
  <2>3. TakenOut(c)'
    BY <1>1, <2>2 DEF TakenOut
  <2>4. Named(c) => Named(c)'
    BY <2>1 DEF Named
  <2>. QED
    BY <1>1, <1>3, <1>4, <1>5, <1>6, <2>1, <2>3, <2>4, StepOfOne DEF StaysNamed
<1>10. CASE RemoveFlag(ch)
  <2>1. UNCHANGED <<commitMap, utxoMap, punish>>
    BY <1>10 DEF RemoveFlag
  <2>2. op'[ch].st = "forget" /\ op'[ch].commit = c
    BY <1>0, <1>1, <1>10, MoveOpType DEF RemoveFlag
  <2>3. TakenOut(c)'
    BY <1>1, <2>2 DEF TakenOut
  <2>4. Named(c) => Named(c)'
    BY <2>1 DEF Named
  <2>. QED
    BY <1>1, <1>3, <1>4, <1>5, <1>6, <2>1, <2>3, <2>4, StepOfOne DEF StaysNamed
<1>11. CASE \/ AddReturns(ch) \/ Complete(ch) \/ Fail(ch) \/ Abandon(ch)
            \/ RemoveReturns(ch)
  <2>1. UNCHANGED <<commitMap, utxoMap, punish>> /\ op[ch].st \notin {"unflag", "forget"}
    BY <1>11 DEF AddReturns, Complete, Fail, Abandon, RemoveReturns
  <2>2. (Named(c) => Named(c)') /\ (TakenOut(c) => TakenOut(c)')
    BY <1>1, <2>1 DEF Named, TakenOut
  <2>. QED
    BY <1>1, <1>3, <1>4, <1>5, <1>6, <2>1, <2>2, StepOfOne DEF StaysNamed
<1>. QED
  BY <1>7, <1>8, <1>9, <1>10, <1>11 DEF AttemptStep

LEMMA AddInStep ==
  ASSUME TypeOK, TypeOK', TowerInv, StepInv, NEW c \in Commits, AddCommitTx(c)
  PROVE  StepInv'
<1>1. ChanOf[c] \in Chans /\ c \in OfChannel(ChanOf[c]) /\ c \notin revoked
  BY ChannelFacts DEF AddCommitTx
<1>2. /\ UNCHANGED <<restarts, spending, punished, mon, sender, revoked, commitMap, utxoMap>>
      /\ punish \subseteq punish' /\ op[ChanOf[c]].st = "idle"
  BY DEF AddCommitTx
<1>3. \A x \in Chans \ {ChanOf[c]} : op'[x] = op[x]
  <2>1. \E r : op' = [op EXCEPT ![ChanOf[c]] = r]
    BY DEF AddCommitTx
  <2>. QED  BY <2>1 DEF TypeOK
<1>4. c \notin mon.commits
  BY <1>1 DEF StepInv
<1>5. restarts = 0 /\ Fresh(c) => Named(c)' /\ (c \in commitMap' => TakenOut(c)')
  BY <1>2 DEF StepInv, Named, TakenOut
<1>. QED
  BY <1>1, <1>2, <1>3, <1>4, <1>5, StepOfOne DEF StaysNamed

LEMMA MonitorInStep ==
  ASSUME TypeOK, TypeOK', TowerInv, StepInv
  PROVE  /\ \A us \in SUBSET Spliced : Splice(us) \/ UtxoSpent(us) => StepInv'
         /\ MonitorStep => StepInv'
         /\ \A u \in Utxos : WriteIndex(u) => StepInv'
<1>1. ASSUME NEW us \in SUBSET Spliced, Splice(us)
      PROVE  StepInv'
  <2>1. /\ UNCHANGED <<commitMap, utxoMap, punish, op, mon, sender, revoked, punished, restarts>>
        /\ spending' = spending \cup us
        /\ \A c \in Commits : Inputs[c] \cap us # {} => c \in revoked
    BY <1>1 DEF Splice
  <2>2. \A c \in Commits : Inputs[c] \cap spending' # {} => c \in revoked'
    BY <2>1 DEF StepInv
  <2>. QED  BY <2>1, <2>2 DEF StepInv, Fresh, Named, TakenOut
<1>2. ASSUME NEW us \in SUBSET Spliced, UtxoSpent(us)
      PROVE  StepInv'
  <2>1. PICK cs : cs = Void(us)
    OBVIOUS
  <2>2. /\ us \subseteq spending /\ commitMap' = commitMap \ cs
        /\ utxoMap' = IndexWithout(utxoMap, us, cs) /\ mon'.commits = cs
        /\ UNCHANGED <<punish, op, sender, revoked, spending, punished, restarts>>
    BY <1>2, <2>1 DEF UtxoSpent
  <2>3. cs \subseteq Commits /\ us \subseteq Utxos
    BY <2>1, SplicedAssumption DEF Void, TypeOK
  <2>4. ASSUME NEW c \in cs PROVE c \in revoked
    <3>1. PICK u \in us : c \in utxoMap[u]
      BY <2>1 DEF Void
    <3>2. u \in Inputs[c]
      BY <2>3, <3>1 DEF TowerInv, IndexInv
    <3>. QED  BY <2>2, <2>3, <3>2 DEF StepInv
  <2>5. ASSUME restarts' = 0, NEW c \in Commits, Fresh(c)'
        PROVE  Named(c)' /\ (c \in commitMap' => TakenOut(c)')
    <3>1. Named(c) /\ (c \in commitMap => TakenOut(c)) /\ Inputs[c] \subseteq Utxos
      BY <2>2, <2>5, ChannelFacts DEF StepInv, Fresh
    <3>2. CASE c \in cs
      BY <2>2, <3>1, <3>2 DEF Named, IndexWithout
    <3>3. CASE c \notin cs
      <4>1. \A u \in us : c \notin utxoMap[u]
        BY <2>1, <3>3 DEF Void
      <4>2. \A u \in Inputs[c] : c \in utxoMap'[u] <=> c \in utxoMap[u]
        BY <2>2, <3>1, <3>3, <4>1 DEF IndexWithout
      <4>. QED  BY <2>2, <3>1, <3>3, <4>2 DEF Named, TakenOut
    <3>. QED  BY <3>2, <3>3
  <2>. QED  BY <2>2, <2>4, <2>5 DEF StepInv
<1>3. ASSUME SpentPunish
      PROVE  StepInv'
  <2>1. /\ UNCHANGED <<commitMap, utxoMap, op, sender, revoked, spending, punished, restarts>>
        /\ punish \ mon.commits \subseteq punish'
    BY <1>3 DEF SpentPunish, Stored
  <2>2. mon'.commits = mon.commits
    BY <1>3 DEF SpentPunish, Spendings, TypeOK
  <2>. QED  BY <2>1, <2>2, StepStays DEF StepInv, StaysNamed
<1>4. ASSUME SpentReturns
      PROVE  StepInv'
  <2>1. mon'.commits = {}
    BY <1>4 DEF SpentReturns, NoSpending
  <2>. QED  BY <1>4, <2>1, StepStays DEF SpentReturns, StepInv, StaysNamed
<1>5. ASSUME NEW u \in Utxos, WriteIndex(u)
      PROVE  StepInv'
  BY <1>5, StepUnmoved DEF WriteIndex
<1>. QED
  BY <1>1, <1>2, <1>3, <1>4, <1>5 DEF MonitorStep

\* The goroutines touch the channel they punished and no other.
LEMMA SenderUtxos ==
  ASSUME TypeOK, StepInv, NEW c \in Commits, NEW r \in Senders,
         sender' = [sender EXCEPT ![c] = r], r.utxos \subseteq UtxosOf(ChanOf[c])
  PROVE  \A d \in Commits : sender'[d].utxos \subseteq UtxosOf(ChanOf[d])
<1>1. sender'[c] = r /\ \A d \in Commits \ {c} : sender'[d] = sender[d]
  BY DEF TypeOK
<1>. QED
  BY <1>1 DEF StepInv

LEMMA BlockInStep ==
  ASSUME TypeOK, TypeOK', StepInv, NEW c \in Commits,
         Publish(c) \/ CheckBlock(c) \/ NodeStep(c)
  PROVE  StepInv'
<1>1. /\ UNCHANGED <<op, revoked, mon, punish, commitMap, utxoMap, spending, restarts>>
      /\ punished \subseteq punished'
  BY DEF Publish, CheckBlock, NodeStep, SetBroadcastedFlag, SetFlagInMemory,
         BroadcastPunishTx
<1>2. CASE UNCHANGED sender
  BY <1>1, <1>2, StepUnmoved
<1>3. CASE sender' = [sender EXCEPT ![c] = [NoSender EXCEPT !.st = "send"]]
  <2>1. PICK r : r = [NoSender EXCEPT !.st = "send"]
    OBVIOUS
  <2>2. r \in Senders /\ r.utxos = {}
    BY <2>1, EmptyTypes DEF NoSender
  <2>3. \A d \in Commits : sender'[d].utxos \subseteq UtxosOf(ChanOf[d])
    BY <1>3, <2>1, <2>2, SenderUtxos
  <2>. QED  BY <1>1, <2>3, StepStays DEF StaysNamed
<1>. QED
  BY <1>2, <1>3
  DEF Publish, CheckBlock, NodeStep, SetBroadcastedFlag, SetFlagInMemory,
      BroadcastPunishTx

LEMMA SenderInStep ==
  ASSUME TypeOK, TypeOK', TowerInv, StepInv, NEW c \in Commits, SenderStep(c)
  PROVE  StepInv'
<1>0. /\ sender[c] \in Senders /\ SenderInv(c) /\ sender[c].utxos \subseteq UtxosOf(ChanOf[c])
      /\ Cleaned(c) \subseteq OfChannel(ChanOf[c])
  BY DEF TypeOK, Cleaned, TowerInv, StepInv
<1>1. /\ UNCHANGED <<op, revoked, mon, spending, restarts>> /\ punished \subseteq punished'
      /\ commitMap' \subseteq commitMap
  BY DEF SenderStep, Send, CleanPunish, CleanIndex, CleanMemory,
         ClearFlagInMemory, ClearFlag
<1>2. ASSUME c \in punished, NEW d \in Commits, Fresh(d)'
      PROVE  ChanOf[d] # ChanOf[c]
  BY <1>1, <1>2 DEF Fresh, OfChannel
<1>3. \A d \in Commits : sender'[d].utxos \subseteq UtxosOf(ChanOf[d])
  <2>1. \E r \in Senders : /\ sender' = [sender EXCEPT ![c] = r]
                           /\ r.utxos \subseteq UtxosOf(ChanOf[c])
    <3>1. CASE CleanIndex(c)
      <4>1. PICK us : us = {u \in UtxosOf(ChanOf[c]) : index[u] # {}}
        OBVIOUS
      <4>2. us \subseteq UtxosOf(ChanOf[c]) /\ us \subseteq Utxos
        BY <4>1, ChannelFacts
      <4>3. PICK r \in {[sender[c] EXCEPT !.st = "memory"],
                        [sender[c] EXCEPT !.st = "memory", !.utxos = us]} :
              sender' = [sender EXCEPT ![c] = r]
        BY <3>1, <4>1 DEF CleanIndex
      <4>4. r \in Senders /\ r.utxos \in {sender[c].utxos, us}
        BY <1>0, <4>2, <4>3 DEF Senders, Cleaning
      <4>. QED  BY <1>0, <4>2, <4>3, <4>4
    <3>2. CASE CleanPunish(c)
      <4>1. PICK r \in {[sender[c] EXCEPT !.st = "index"],
                        [sender[c] EXCEPT !.st = "index", !.commits = Cleaned(c)]} :
              sender' = [sender EXCEPT ![c] = r]
        BY <3>2 DEF CleanPunish
      <4>2. r \in Senders /\ r.utxos = sender[c].utxos
        BY <1>0, <4>1 DEF Senders, Cleaning, OfChannel
      <4>. QED  BY <1>0, <4>1, <4>2
    <3>3. CASE Send(c) \/ ClearFlagInMemory(c)
      <4>1. PICK r \in {[sender[c] EXCEPT !.st = "clean"], [sender[c] EXCEPT !.st = "stored"]} :
              sender' = [sender EXCEPT ![c] = r]
        BY <3>3 DEF Send, ClearFlagInMemory
      <4>2. r \in Senders /\ r.utxos = sender[c].utxos
        BY <1>0, <4>1 DEF Senders, Cleaning
      <4>. QED  BY <1>0, <4>1, <4>2
    <3>4. CASE CleanMemory(c) \/ ClearFlag(c)
      <4>1. PICK r \in {[NoSender EXCEPT !.st = "flag"], NoSender} :
              sender' = [sender EXCEPT ![c] = r]
        BY <3>4 DEF CleanMemory, ClearFlag
      <4>2. r \in Senders /\ r.utxos = {}
        BY <4>1, EmptyTypes DEF NoSender
      <4>. QED  BY <4>1, <4>2
    <3>. QED  BY <3>1, <3>2, <3>3, <3>4 DEF SenderStep
  <2>. QED  BY <2>1, SenderUtxos
<1>4. \A d \in Commits : Fresh(d)' /\ d \in punish => d \in punish'
  <2>1. CASE CleanPunish(c)
    <3>1. c \in punished
      BY <1>0, <2>1 DEF CleanPunish, SenderInv, Cleaning
    <3>. QED  BY <1>0, <1>2, <2>1, <3>1 DEF CleanPunish, OfChannel
  <2>2. CASE UNCHANGED punish
    BY <2>2
  <2>. QED
    BY <2>1, <2>2 DEF SenderStep, Send, CleanIndex, CleanMemory, ClearFlagInMemory, ClearFlag
<1>5. \A d \in Commits : Fresh(d)' => StaysNamed(d)
  <2>1. CASE CleanMemory(c)
    <3>1. c \in punished
      BY <1>0, <2>1 DEF CleanMemory, SenderInv, Cleaning
    <3>2. ASSUME NEW d \in Commits, Fresh(d)' PROVE StaysNamed(d)
      <4>1. ChanOf[d] # ChanOf[c] /\ Inputs[d] \subseteq Utxos
        BY <1>2, <3>1, <3>2, ChannelFacts
      <4>2. d \notin sender[c].commits
        BY <1>0, <4>1 DEF SenderInv, OfChannel
      <4>3. ASSUME NEW u \in Inputs[d] PROVE u \notin sender[c].utxos
        <5>1. ASSUME u \in UtxosOf(ChanOf[c]) PROVE FALSE
          <6>1. PICK e \in OfChannel(ChanOf[c]) : u \in Inputs[e]
            BY <5>1 DEF UtxosOf
          <6>2. e \in Commits /\ ChanOf[e] = ChanOf[c] /\ Inputs[d] \cap Inputs[e] # {}
            BY <6>1 DEF OfChannel
          <6>. QED  BY <4>1, <6>2, InputsAssumption
        <5>. QED  BY <1>0, <5>1
      <4>. QED  BY <2>1, <4>1, <4>2, <4>3 DEF CleanMemory, IndexWithout, StaysNamed
    <3>. QED  BY <3>2
  <2>2. CASE UNCHANGED <<commitMap, utxoMap>>
    BY <2>2 DEF StaysNamed
  <2>. QED
    BY <2>1, <2>2 DEF SenderStep, Send, CleanPunish, CleanIndex, ClearFlagInMemory, ClearFlag
<1>. QED
  BY <1>1, <1>3, <1>4, <1>5, StepStays

LEMMA RestartInStep ==
  ASSUME TypeOK, StepInv, Restart
  PROVE  StepInv'
<1>1. restarts' # 0
  BY DEF Restart, TypeOK
<1>2. mon'.commits = {}
  BY DEF Restart, NoSpending
<1>3. \A c \in Commits : sender'[c].utxos = {}
  BY DEF Restart, NoSender
<1>. QED
  BY <1>1, <1>2, <1>3 DEF Restart, StepInv

LEMMA NextInStep ==
  ASSUME TypeOK, TypeOK', TowerInv, StepInv, [Next]_vars
  PROVE  StepInv'
<1>1. CASE UNCHANGED vars
  BY <1>1, StepUnmoved DEF vars
<1>. QED
  BY <1>1, AttemptInStep, AddInStep, MonitorInStep, SenderInStep, BlockInStep,
     RestartInStep DEF Next

\* The indexes in memory name the same commitments at every moment, and only an
\* attempt that is taking a commitment out may have deleted its punish
\* transaction first, whatever database calls failed.
THEOREM StepInvariant == Spec => []StepInv
<1>1. TypeOK /\ TypeOK' /\ TowerInv /\ StepInv /\ [Next]_vars => StepInv'
  BY NextInStep
<1>. QED
  BY InitStep, TypeCorrect, TowerInvariant, <1>1, PTL DEF Spec

\* Whenever no call is running, what the memory watches UtxoSpent would find,
\* and it has its punish transaction, as long as the process was not stopped.
THEOREM MemoryIsInStep == Spec => []IndexInStep
<1>1. TypeOK /\ StepInv => IndexInStep
  <2> SUFFICES ASSUME TypeOK, StepInv, Quiet, restarts = 0, NEW c \in Commits, Fresh(c)
               PROVE  /\ c \in commitMap => c \in punish
                      /\ \A u \in Inputs[c] : c \in utxoMap[u] <=> c \in commitMap
    BY DEF IndexInStep, Fresh
  <2>1. op[ChanOf[c]].st = "idle"
    BY ChannelFacts DEF Quiet
  <2>. QED
    BY <2>1 DEF StepInv, Named, TakenOut
<1>. QED
  BY <1>1, TypeCorrect, StepInvariant, PTL
=============================================================================
