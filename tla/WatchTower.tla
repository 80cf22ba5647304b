----------------------------- MODULE WatchTower -----------------------------
(***************************************************************************)
(* The watch tower keeps, for every remote commitment the peer has revoked,*)
(* the transactions that punish its publication.  Three indexes are kept   *)
(* in memory and on disk: the punish transactions by commitment, the       *)
(* commitments by the outpoints they spend, and the published commitments  *)
(* whose punishment is still being broadcast.                              *)
(*                                                                         *)
(* Its callers run side by side: the payment attempts of each channel add  *)
(* a commitment and, when they fail, take it out; the channel monitor      *)
(* reports outpoints that were spent by a splice; the program around the   *)
(* wallet looks every block up and flags what it could not punish; and one *)
(* goroutine per flagged commitment broadcasts and then cleans the channel.*)
(* The mutex covers the memory and the index writes, not the other writes. *)
(*                                                                         *)
(* A transaction is its number; the commitments of a channel replace one   *)
(* another in the order of their numbers.                                  *)
(***************************************************************************)
EXTENDS Naturals, FiniteSets

CONSTANTS
  Commits,     \* remote commitment transactions, numbers
  Chans,       \* channels
  Utxos,       \* outpoints
  ChanOf,      \* the channel of a commitment
  Inputs,      \* the outpoints a commitment spends
  Spliced,     \* bound: the outpoints a splice may spend
  Faults,      \* what may go wrong
  MaxRestart   \* bound: the process restarts at most that often

None == "none"
Monitor == "monitor"

\* store: a write or a delete in the database returns an error.
ASSUME FaultsAssumption == Faults \subseteq {"store"}
ASSUME CommitsAssumption == Commits \subseteq Nat \ {0} /\ MaxRestart \in Nat
ASSUME ChannelsAssumption ==
  /\ ChanOf \in [Commits -> Chans]
  /\ None \notin Chans /\ Monitor \notin Chans
ASSUME SplicedAssumption == Spliced \subseteq Utxos
\* A commitment spends something, and an outpoint belongs to one channel.
ASSUME InputsAssumption ==
  /\ Inputs \in [Commits -> SUBSET Utxos]
  /\ \A c \in Commits : Inputs[c] # {}
  /\ \A c, d \in Commits :
       Inputs[c] \cap Inputs[d] # {} => ChanOf[c] = ChanOf[d]

VARIABLES
  commitMap,    \* the commitments known in memory
  utxoMap,      \* per outpoint, the commitments that spend it
  broadcasted,  \* the flagged commitments
  holder,       \* who holds the mutex across database writes
  todo,         \* the outpoints whose index the holder has yet to write
  punish,       \* disk: the commitments with punish transactions
  index,        \* disk: utxoMap
  flags,        \* disk: broadcasted
  op,           \* per channel, the attempt that adds or removes a commitment
  mon,          \* the monitor's UtxoSpent
  node,         \* per commitment, how far its handling in a block is
  sender,       \* per commitment, the goroutine that punishes it
  revoked,      \* the commitments a completed attempt left behind
  spending,     \* the outpoints a broadcast splice spends
  onL1,         \* the commitments the peer published and layer 1 confirmed
  punished,     \* those whose punish transaction got through
  restarts

memory == <<commitMap, utxoMap, broadcasted, holder, todo>>
disk == <<punish, index, flags>>
callers == <<op, mon, node, sender>>
world == <<revoked, spending, onL1, punished>>
vars == <<memory, disk, callers, world, restarts>>

Attempts == [st : {"idle", "merge", "adding", "added", "drop", "unflag",
                   "forget", "removing"},
             commit : Commits \cup {0}]
Spendings == [st : {"idle", "first", "rest"},
              commits : SUBSET Commits, rest : SUBSET Utxos]
Cleaning == {"clean", "index", "memory", "flag", "stored"}
Senders == [st : Cleaning \cup {"off", "send"},
            commits : SUBSET Commits, utxos : SUBSET Utxos]

OfChannel(ch) == {c \in Commits : ChanOf[c] = ch}
UtxosOf(ch) == UNION {Inputs[c] : c \in OfChannel(ch)}

TypeOK ==
  /\ commitMap \subseteq Commits
  /\ utxoMap \in [Utxos -> SUBSET Commits]
  /\ broadcasted \subseteq Commits
  /\ holder \in Chans \cup {Monitor, None}
  /\ todo \subseteq Utxos
  /\ punish \subseteq Commits
  /\ index \in [Utxos -> SUBSET Commits]
  /\ flags \subseteq Commits
  /\ op \in [Chans -> Attempts]
  /\ \A ch \in Chans : op[ch].st # "idle" => op[ch].commit \in OfChannel(ch)
  /\ mon \in Spendings
  /\ node \in [Commits -> {"idle", "flag", "memory", "spawn", "done"}]
  /\ sender \in [Commits -> Senders]
  /\ revoked \subseteq Commits
  /\ spending \subseteq Utxos
  /\ onL1 \subseteq Commits
  /\ punished \subseteq Commits
  /\ restarts \in 0 .. MaxRestart

NoAttempt == [st |-> "idle", commit |-> 0]
NoSpending == [st |-> "idle", commits |-> {}, rest |-> {}]
NoSender == [st |-> "off", commits |-> {}, utxos |-> {}]
NoIndex == [u \in Utxos |-> {}]

Init ==
  /\ commitMap = {} /\ utxoMap = NoIndex /\ broadcasted = {}
  /\ holder = None /\ todo = {}
  /\ punish = {} /\ index = NoIndex /\ flags = {}
  /\ op = [ch \in Chans |-> NoAttempt]
  /\ mon = NoSpending
  /\ node = [c \in Commits |-> "idle"]
  /\ sender = [c \in Commits |-> NoSender]
  /\ revoked = {} /\ spending = {} /\ onL1 = {} /\ punished = {}
  /\ restarts = 0

-----------------------------------------------------------------------------

\* The peer's commitment that counts, or one it left behind.
Reached(c) == \A d \in OfChannel(ChanOf[c]) : d < c => d \in revoked

\* A database call whose error the code drops.
Stored(new, var) == new \/ ("store" \in Faults /\ UNCHANGED var)

Unlocked == holder = None

IndexWith(m, c) == [u \in Utxos |-> IF u \in Inputs[c] THEN m[u] \cup {c} ELSE m[u]]
IndexWithout(m, us, cs) == [u \in Utxos |-> IF u \in us THEN {} ELSE m[u] \ cs]

MoveOp(ch, st) == op' = [op EXCEPT ![ch].st = st]

\* The holder of the mutex writes one outpoint of the index.
WriteIndex(u) ==
  /\ u \in todo
  /\ Stored(index' = [index EXCEPT ![u] = utxoMap[u]], index)
  /\ todo' = todo \ {u}
  /\ UNCHANGED <<commitMap, utxoMap, broadcasted, holder, punish, flags,
                 callers, world, restarts>>

-----------------------------------------------------------------------------
(* AddCommitTx and RemoveCommitTx, called by the attempts of a channel.    *)

\* savePunishTx: without the mutex, and the only write whose error is seen.
AddCommitTx(c) ==
  LET ch == ChanOf[c] IN
  /\ op[ch].st = "idle"
  /\ Reached(c) /\ c \notin revoked
  /\ \/ /\ punish' = punish \cup {c}
        /\ op' = [op EXCEPT ![ch] = [st |-> "merge", commit |-> c]]
     \/ /\ "store" \in Faults
        /\ op' = [op EXCEPT ![ch] = [st |-> "drop", commit |-> c]]
        /\ UNCHANGED punish
  /\ UNCHANGED <<memory, index, flags, mon, node, sender, world, restarts>>

Merge(ch) ==
  LET c == op[ch].commit IN
  /\ op[ch].st = "merge" /\ Unlocked
  /\ holder' = ch
  /\ commitMap' = commitMap \cup {c}
  /\ utxoMap' = IndexWith(utxoMap, c)
  /\ todo' = Inputs[c]
  /\ MoveOp(ch, "adding")
  /\ UNCHANGED <<broadcasted, disk, mon, node, sender, world, restarts>>

AddReturns(ch) ==
  /\ op[ch].st = "adding" /\ todo = {}
  /\ holder' = None
  /\ MoveOp(ch, "added")
  /\ UNCHANGED <<commitMap, utxoMap, broadcasted, todo, disk, mon, node, sender,
                 world, restarts>>

\* The attempt goes on to complete, or fails and takes the commitment out.
Complete(ch) ==
  /\ op[ch].st = "added"
  /\ revoked' = revoked \cup {op[ch].commit}
  /\ op' = [op EXCEPT ![ch] = NoAttempt]
  /\ UNCHANGED <<memory, disk, mon, node, sender, spending, onL1, punished,
                 restarts>>

Fail(ch) ==
  /\ op[ch].st = "added"
  /\ MoveOp(ch, "drop")
  /\ UNCHANGED <<memory, disk, mon, node, sender, world, restarts>>

\* A recovery that fails, or a splice, leaves the commitment where it is.
Abandon(ch) ==
  /\ op[ch].st = "added"
  /\ op' = [op EXCEPT ![ch] = NoAttempt]
  /\ UNCHANGED <<memory, disk, mon, node, sender, world, restarts>>

\* Mutant: everything the channel has is dropped with it.
DroppedWithChannel(c) == OfChannel(ChanOf[c])
Dropped(c) == {c}

RemoveCommitTx(ch) ==
  /\ op[ch].st = "drop"
  /\ Stored(punish' = punish \ Dropped(op[ch].commit), punish)
  /\ MoveOp(ch, "unflag")
  /\ UNCHANGED <<memory, index, flags, mon, node, sender, world, restarts>>

RemoveFlag(ch) ==
  /\ op[ch].st = "unflag"
  /\ Stored(flags' = flags \ {op[ch].commit}, flags)
  /\ MoveOp(ch, "forget")
  /\ UNCHANGED <<memory, punish, index, mon, node, sender, world, restarts>>

Forget(ch) ==
  LET c == op[ch].commit IN
  /\ op[ch].st = "forget" /\ Unlocked
  /\ holder' = ch
  /\ commitMap' = commitMap \ {c}
  /\ broadcasted' = broadcasted \ {c}
  /\ utxoMap' = IndexWithout(utxoMap, {}, {c})
  /\ todo' = {u \in Utxos : c \in utxoMap[u]}
  /\ MoveOp(ch, "removing")
  /\ UNCHANGED <<disk, mon, node, sender, world, restarts>>

RemoveReturns(ch) ==
  /\ op[ch].st = "removing" /\ todo = {}
  /\ holder' = None
  /\ op' = [op EXCEPT ![ch] = NoAttempt]
  /\ UNCHANGED <<commitMap, utxoMap, broadcasted, todo, disk, mon, node, sender,
                 world, restarts>>

-----------------------------------------------------------------------------
(* UtxoSpent, called by the monitor.                                       *)

\* A splice is broadcast: the commitments on its inputs are all replaced.
Splice(us) ==
  /\ us # {} /\ us \subseteq Spliced \ spending
  /\ \A c \in Commits : Inputs[c] \cap us # {} => c \in revoked /\ c \notin onL1
  /\ spending' = spending \cup us
  /\ UNCHANGED <<memory, disk, callers, revoked, onL1, punished, restarts>>

\* Mutant: of the commitments that spend an outpoint only the outpoint goes.
VoidNone(us) == {}
Void(us) == UNION {utxoMap[u] : u \in us}

UtxoSpent(us) ==
  LET cs == Void(us) IN
  /\ us # {} /\ us \subseteq spending
  /\ mon.st = "idle" /\ Unlocked
  /\ holder' = Monitor
  /\ commitMap' = commitMap \ cs
  /\ utxoMap' = IndexWithout(utxoMap, us, cs)
  /\ todo' = us
  /\ mon' = [st |-> "first", commits |-> cs,
             rest |-> {u \in Utxos \ us : utxoMap[u] \cap cs # {}}]
  /\ UNCHANGED <<broadcasted, disk, op, node, sender, world, restarts>>

SpentPunish ==
  /\ mon.st = "first" /\ todo = {}
  /\ Stored(punish' = punish \ mon.commits, punish)
  /\ todo' = mon.rest
  /\ mon' = [mon EXCEPT !.st = "rest"]
  /\ UNCHANGED <<commitMap, utxoMap, broadcasted, holder, index, flags, op, node,
                 sender, world, restarts>>

SpentReturns ==
  /\ mon.st = "rest" /\ todo = {}
  /\ holder' = None
  /\ mon' = NoSpending
  /\ UNCHANGED <<commitMap, utxoMap, broadcasted, todo, disk, op, node, sender,
                 world, restarts>>
-----------------------------------------------------------------------------
(* Layer 1, and the blocks looked up by the program around the wallet.     *)

\* The peer publishes its current commitment or one it left behind.  Layer 1
\* confirms one commitment of a channel at most.
Publish(c) ==
  /\ Reached(c)
  /\ OfChannel(ChanOf[c]) \cap onL1 = {}
  /\ onL1' = onL1 \cup {c}
  /\ UNCHANGED <<memory, disk, callers, revoked, spending, punished, restarts>>

MoveNode(c, st) == node' = [node EXCEPT ![c] = st]

\* CheckBlock finds the commitment in a block; its punishment is broadcast, or
\* that fails and the commitment is to be flagged.
CheckBlock(c) ==
  /\ node[c] = "idle" /\ Unlocked
  /\ c \in onL1 /\ c \in commitMap /\ c \in punish
  /\ \/ MoveNode(c, "done") /\ punished' = punished \cup {c}
     \/ MoveNode(c, "flag") /\ UNCHANGED punished
  /\ UNCHANGED <<memory, disk, op, mon, sender, revoked, spending, onL1, restarts>>

SetBroadcastedFlag(c) ==
  /\ node[c] = "flag"
  /\ \/ flags' = flags \cup {c} /\ MoveNode(c, "memory")
     \/ "store" \in Faults /\ MoveNode(c, "idle") /\ UNCHANGED flags
  /\ UNCHANGED <<memory, punish, index, op, mon, sender, world, restarts>>

SetFlagInMemory(c) ==
  /\ node[c] = "memory" /\ Unlocked
  /\ broadcasted' = broadcasted \cup {c}
  /\ MoveNode(c, "spawn")
  /\ UNCHANGED <<commitMap, utxoMap, holder, todo, disk, op, mon, sender, world,
                 restarts>>

HasPunishTx(c) == c \in commitMap \cap punish

\* broadcastPunishTx: without a punish transaction there is no goroutine.
BroadcastPunishTx(c) ==
  /\ node[c] = "spawn" /\ Unlocked
  /\ MoveNode(c, "done")
  /\ IF HasPunishTx(c)
       THEN sender' = [sender EXCEPT ![c] = [NoSender EXCEPT !.st = "send"]]
       ELSE UNCHANGED sender
  /\ UNCHANGED <<memory, disk, op, mon, world, restarts>>

-----------------------------------------------------------------------------
(* The goroutine of broadcastPunishTx.                                     *)

\* It broadcasts until it gets through.
Send(c) ==
  /\ sender[c].st = "send"
  /\ punished' = punished \cup {c}
  /\ sender' = [sender EXCEPT ![c].st = "clean"]
  /\ UNCHANGED <<memory, disk, op, mon, node, revoked, spending, onL1, restarts>>

\* deleteAllPunishTxWithChannel: what was deleted is remembered.
Cleaned(c) == punish \cap OfChannel(ChanOf[c])

CleanPunish(c) ==
  /\ sender[c].st = "clean"
  /\ \/ /\ punish' = punish \ Cleaned(c)
        /\ sender' = [sender EXCEPT ![c].st = "index", ![c].commits = Cleaned(c)]
     \/ /\ "store" \in Faults
        /\ sender' = [sender EXCEPT ![c].st = "index"]
        /\ UNCHANGED punish
  /\ UNCHANGED <<memory, index, flags, op, mon, node, world, restarts>>

\* deleteAllUtxoDataWithChannel.
CleanIndex(c) ==
  LET us == {u \in UtxosOf(ChanOf[c]) : index[u] # {}} IN
  /\ sender[c].st = "index"
  /\ \/ /\ index' = [u \in Utxos |-> IF u \in us THEN {} ELSE index[u]]
        /\ sender' = [sender EXCEPT ![c].st = "memory", ![c].utxos = us]
     \/ /\ "store" \in Faults
        /\ sender' = [sender EXCEPT ![c].st = "memory"]
        /\ UNCHANGED index
  /\ UNCHANGED <<memory, punish, flags, op, mon, node, world, restarts>>

CleanMemory(c) ==
  /\ sender[c].st = "memory" /\ Unlocked
  /\ commitMap' = commitMap \ sender[c].commits
  /\ utxoMap' = IndexWithout(utxoMap, sender[c].utxos, {})
  /\ sender' = [sender EXCEPT ![c] = [NoSender EXCEPT !.st = "flag"]]
  /\ UNCHANGED <<broadcasted, holder, todo, disk, op, mon, node, world, restarts>>

ClearFlagInMemory(c) ==
  /\ sender[c].st = "flag" /\ Unlocked
  /\ broadcasted' = broadcasted \ {c}
  /\ sender' = [sender EXCEPT ![c].st = "stored"]
  /\ UNCHANGED <<commitMap, utxoMap, holder, todo, disk, op, mon, node, world,
                 restarts>>

ClearFlag(c) ==
  /\ sender[c].st = "stored"
  /\ Stored(flags' = flags \ {c}, flags)
  /\ sender' = [sender EXCEPT ![c] = NoSender]
  /\ UNCHANGED <<memory, punish, index, op, mon, node, world, restarts>>

-----------------------------------------------------------------------------

\* newWatchTower: a goroutine for each flag that has its punish transaction.
\* Mutant: for none.
ResumedNone(c) == FALSE
Resumed(c) == c \in flags \cap punish

\* The process stops and starts again.  A block that was being handled is not
\* looked up again.
Restart ==
  /\ restarts < MaxRestart
  /\ restarts' = restarts + 1
  /\ commitMap' = punish /\ utxoMap' = index /\ broadcasted' = flags
  /\ holder' = None /\ todo' = {}
  /\ op' = [ch \in Chans |-> NoAttempt]
  /\ mon' = NoSpending
  /\ node' = [c \in Commits |-> IF node[c] = "idle" THEN "idle" ELSE "done"]
  /\ sender' = [c \in Commits |->
       IF Resumed(c) THEN [NoSender EXCEPT !.st = "send"] ELSE NoSender]
  /\ UNCHANGED <<disk, world>>

AttemptStep(ch) ==
  \/ Merge(ch) \/ AddReturns(ch)
  \/ Complete(ch) \/ Fail(ch) \/ Abandon(ch)
  \/ RemoveCommitTx(ch) \/ RemoveFlag(ch) \/ Forget(ch) \/ RemoveReturns(ch)

MonitorStep == SpentPunish \/ SpentReturns

NodeStep(c) ==
  SetBroadcastedFlag(c) \/ SetFlagInMemory(c) \/ BroadcastPunishTx(c)

SenderStep(c) ==
  \/ Send(c)
  \/ CleanPunish(c) \/ CleanIndex(c) \/ CleanMemory(c)
  \/ ClearFlagInMemory(c) \/ ClearFlag(c)

Next ==
  \/ \E u \in Utxos : WriteIndex(u)
  \/ \E ch \in Chans : AttemptStep(ch)
  \/ \E us \in SUBSET Spliced : Splice(us) \/ UtxoSpent(us)
  \/ MonitorStep
  \/ \E c \in Commits :
       AddCommitTx(c) \/ Publish(c) \/ CheckBlock(c) \/ NodeStep(c) \/ SenderStep(c)
  \/ Restart

Spec == Init /\ [][Next]_vars

\* The process is scheduled, whoever waits for the mutex gets it (the mutex of
\* Go does not starve a goroutine), and a broadcast that is repeated until it
\* succeeds gets through.
Fairness ==
  /\ \A u \in Utxos : WF_vars(WriteIndex(u))
  /\ \A ch \in Chans : WF_vars(AddReturns(ch)) /\ WF_vars(RemoveReturns(ch))
  /\ WF_vars(MonitorStep)
  /\ \A c \in Commits : SF_vars(NodeStep(c)) /\ SF_vars(SenderStep(c))

FairSpec == Spec /\ Fairness

-----------------------------------------------------------------------------
(* Properties.                                                             *)

\* The punish transaction of a commitment has lost its use once one of its
\* inputs is spent, or another commitment of the channel was punished.
Gone(c) ==
  \/ Inputs[c] \cap spending # {}
  \/ OfChannel(ChanOf[c]) \cap punished # {}

Kept(c) == Gone(c) \/ HasPunishTx(c)

\* Every commitment a completed attempt left behind can be punished, in memory
\* and on disk, through failures of other attempts on the channel, splices,
\* cleanings of other channels, database errors and restarts.
RevokedIsPunishable == \A c \in revoked : Kept(c)

\* Why: what an attempt works on has not been left behind yet, and is there
\* when the attempt completes ...
AttemptInv(ch) ==
  /\ op[ch].st # "idle" => op[ch].commit \notin revoked
  /\ op[ch].st = "merge" => Gone(op[ch].commit) \/ op[ch].commit \in punish
  /\ op[ch].st \in {"adding", "added"} => Kept(op[ch].commit)

\* ... and what a goroutine has deleted, and deletes from memory later, is of
\* the channel it punished ...
SenderInv(c) ==
  /\ sender[c].st \in Cleaning => c \in punished
  /\ sender[c].commits \subseteq OfChannel(ChanOf[c])

\* ... and the index names a commitment under its own inputs only, so that what
\* the monitor deletes has lost its use.
IndexInv ==
  \A u \in Utxos : \A c \in utxoMap[u] \cup index[u] : u \in Inputs[c]

PendingVoid == \A c \in mon.commits : Gone(c)

TowerInv ==
  /\ RevokedIsPunishable
  /\ \A ch \in Chans : AttemptInv(ch)
  /\ \A c \in Commits : SenderInv(c)
  /\ PendingVoid
  /\ IndexInv

Quiet ==
  /\ holder = None
  /\ \A ch \in Chans : op[ch].st = "idle"
  /\ mon.st = "idle"

\* As long as the process was not stopped, and whatever database calls failed,
\* the indexes in memory name the same commitments whenever no call is running,
\* and each of them has its punish transaction: nothing is watched that
\* UtxoSpent would not find, or that could not be punished.
IndexInStep ==
  Quiet /\ restarts = 0 =>
    \A c \in Commits : OfChannel(ChanOf[c]) \cap punished = {} =>
      /\ c \in commitMap => c \in punish
      /\ \A u \in Inputs[c] : c \in utxoMap[u] <=> c \in commitMap

\* A revoked commitment whose flag was stored is punished in the end, whatever
\* step a restart falls on, unless a splice that was broadcast takes its inputs.
FlaggedIsPunished ==
  \A c \in Commits :
    node[c] = "memory" /\ c \in flags \cap revoked ~> Gone(c)
=============================================================================
