----------------------------- MODULE DkvsReplica -----------------------------
(***************************************************************************)
(* The wallet's replica of its DKVS directories: sdk/wallet/dkvs_manager.go *)
(* with the sync pass of dkvs_sync_service.go, the store of                *)
(* dkvs_replica_v1.go and the outbox of dkvs_outbox_sync_v1.go.            *)
(*                                                                         *)
(* A foreground update holds the lock of its paths: it reads the confirmed *)
(* replica, signs a batch with the generation of the path as precondition, *)
(* keeps the batch in the outbox, submits it and merges what was accepted  *)
(* into the replica.  The background pass holds runMu, and no path lock:   *)
(* per path it brings the replica up to date, then replays the outbox.     *)
(* Both load the replica, change what they loaded and write it back.       *)
(*                                                                         *)
(* The endpoint is external: another device writes to the same paths, and  *)
(* a batch that is in place already is answered as such, not applied again.*)
(***************************************************************************)
EXTENDS Integers, Sequences, FiniteSetsExt

CONSTANTS
    PathOrder,   \* the managed directories, sorted
    Keys,
    PathOf,      \* the directory of a key
    Writers,     \* threads of the foreground
    Updates,     \* what a caller may ask for: the keys read and those written
    MaxWrites,   \* bound: local batches
    MaxRemote,   \* bound: writes of the other device
    Faults,      \* "lost": the answer does not arrive; "offline": nor does the
                 \* request; "lag": an endpoint that is behind answers; "crash"
    MaxFault     \* bound: how often something fails

Paths     == Range(PathOrder)
Places(P) == {i \in DOMAIN PathOrder : PathOrder[i] \in P}
KeysOf(p) == {k \in Keys : PathOf[k] = p}
PathsOf(K) == {PathOf[k] : k \in K}

ASSUME PathsAssumption == PathOrder \in Seq(Paths) /\ PathOf \in [Keys -> Paths]
ASSUME UpdatesAssumption ==
    \A u \in Updates : u.reads \subseteq Keys /\ u.writes \subseteq u.reads /\ u.writes # {}
ASSUME BoundAssumption == MaxWrites \in Nat /\ MaxRemote \in Nat /\ MaxFault \in Nat

VARIABLES
    log,        \* per path, the contents the endpoint had; the place is the generation
    remote,     \* writes of the other device so far
    batches,    \* the batches signed here; the place is the Id
    applied,    \* those the endpoint has applied
    outbox,     \* the entries in the store: State by Id
    confirmed,  \* the confirmed record of each key
    base,       \* per path: the generation of the baseline, 0 when there is none
    meta,       \* per path: the generation of PathMeta in the path state
    session,    \* per path: SessionState
    ready,      \* the paths marked ready
    lock,       \* per path: the writer that holds it, or Nobody
    writer,     \* per writer: its place and what it has in hand
    sync,       \* the pass that holds runMu
    watching,   \* the background thread is between two passes, in watch
    mixed,      \* (history) paths whose replica holds what a stale copy put there
    faults

endpoint == <<log, remote, applied>>
passes   == <<sync, watching>>
store    == <<outbox, confirmed, base, meta, session>>
vars     == <<endpoint, batches, store, ready, lock, writer, passes, mixed, faults>>

Nobody == "nobody"
Worker == "worker"
Absent == [seq |-> 0, by |-> 0]       \* by: the batch, 0 for the other device
NoRecs == [k \in {} |-> Absent]
NoGens == [p \in {} |-> 0]
NoAnswer == [kind |-> "none", gens |-> NoGens]
NoCopy   == [recs |-> NoRecs, meta |-> NoGens]
Away     == [pc |-> "away", reads |-> {}, writes |-> {}, got |-> NoRecs, n |-> 0,
             answer |-> NoAnswer, copy |-> NoCopy]
NoQueue  == [n \in {} |-> "error"]
NoPass   == [by |-> Nobody, pc |-> "idle", todo |-> {}, gen |-> 0, copy |-> NoCopy,
             queue |-> NoQueue, answer |-> NoAnswer]

Gen(p)     == Len(log[p])
Latest(p)  == log[p][Gen(p)]
Current(k) == Latest(PathOf[k])[k]
Of(f, K)   == [k \in K |-> f[k]]
Over(f, g) == [k \in DOMAIN g |-> IF k \in DOMAIN f THEN f[k] ELSE g[k]]
GensOf(P)  == [p \in P |-> Gen(p)]

MayFail(f) == f \in Faults /\ faults < MaxFault

(***************************************************************************)
(* The endpoint.                                                           *)
(***************************************************************************)
WritePaths(b) == PathsOf(DOMAIN b.recs)
Exact(b)   == {k \in DOMAIN b.recs : Current(k) = b.recs[k]}
Accepts(b) == /\ \A k \in DOMAIN b.recs : Current(k) = b.prev[k]
              /\ \A p \in WritePaths(b) : Gen(p) = b.gens[p]

Grown(recs) == [p \in Paths |-> IF p \in PathsOf(DOMAIN recs)
                                THEN Append(log[p], Over(recs, Latest(p))) ELSE log[p]]

\* A batch that is in place already is not refused, whatever its preconditions.
Reply(n) ==
    LET b == batches[n]
    IN IF Exact(b) = DOMAIN b.recs THEN "exact"
       ELSE IF Exact(b) = {} /\ Accepts(b) THEN "applied" ELSE "conflict"

LogAfter(n) == IF Reply(n) = "applied" THEN Grown(batches[n].recs) ELSE log
Answer(n)   == [kind |-> Reply(n), gens |-> [p \in WritePaths(batches[n]) |-> Len(LogAfter(n)[p])]]
Failed      == [kind |-> "error", gens |-> NoGens]

Handle(n) == /\ log' = LogAfter(n)
             /\ applied' = applied \cup (IF Reply(n) = "applied" THEN {n} ELSE {})
             /\ UNCHANGED remote

\* putRecordBatchCASV1Raw: the batch n is submitted, and a is what comes back.
Submits(n, a) ==
    \/ a = Answer(n) /\ Handle(n) /\ UNCHANGED faults
    \/ a = Failed /\ MayFail("lost") /\ Handle(n) /\ faults' = faults + 1
    \/ a = Failed /\ MayFail("offline") /\ faults' = faults + 1 /\ UNCHANGED endpoint

RemoteWrite(k) ==
    /\ remote < MaxRemote
    /\ remote' = remote + 1
    /\ log' = Grown([j \in {k} |-> [seq |-> Current(k).seq + 1, by |-> 0]])
    /\ UNCHANGED <<applied, batches, store, ready, lock, writer, passes, mixed, faults>>

(***************************************************************************)
(* The store.                                                              *)
(***************************************************************************)
Load(P) == [recs |-> Of(confirmed, {k \in Keys : PathOf[k] \in P}), meta |-> Of(meta, P)]
CopyOf(c, P) == {p \in P : c.meta[p] = meta[p]
                           /\ \A k \in KeysOf(p) : c.recs[k] = confirmed[k]}

SetState(n, s) == [m \in DOMAIN outbox \cup {n} |-> IF m = n THEN s ELSE outbox[m]]

\* Mutants: a batch that was refused is forgotten; any failure is a conflict.
FailureStateGone(n, kind) == [m \in DOMAIN outbox \ {n} |-> outbox[m]]
FailureStateHard(n, kind) == SetState(n, "conflict")
\* markOutboxFailure: the entry is written again, whatever became of it since.
FailureState(n, kind) == SetState(n, IF kind = "conflict" THEN "conflict" ELSE "error")

\* applyWriteResultAndAck: the copy, changed by the batch, is written back with
\* the generation of the answer, and the entry is deleted.
\* Mutant: it is not deleted.
AckedKeep(n) == outbox
Acked(n)     == [m \in DOMAIN outbox \ {n} |-> outbox[m]]

Ack(n, c, gens) ==
    LET P == DOMAIN gens
        b == batches[n]
    IN /\ confirmed' = Over(Over(b.recs, c.recs), confirmed)
       /\ base' = Over(gens, base) /\ meta' = Over(gens, meta)
       /\ session' = [p \in Paths |-> IF p \in P THEN "confirmed" ELSE session[p]]
       /\ outbox' = Acked(n)
       /\ mixed' = mixed \cup (P \ CopyOf(c, P))
                         \cup {p \in P : /\ gens[p] # base[p]
                                         /\ ~(gens[p] = base[p] + 1 /\ b.gens[p] = base[p])}

(***************************************************************************)
(* The foreground: updateValues.                                           *)
(***************************************************************************)
Goto(w, pc) == writer' = [writer EXCEPT ![w].pc = pc]
PathsIn(w)  == PathsOf(writer[w].reads)
Locked(w)   == [p \in Paths |-> IF p \in PathsIn(w) THEN w ELSE lock[p]]
Unlocked(w) == [p \in Paths |-> IF lock[p] = w THEN Nobody ELSE lock[p]]
Leave(w)    == writer' = [writer EXCEPT ![w] = Away] /\ lock' = Unlocked(w)

Call(w, u) ==
    /\ writer[w].pc = "away" /\ Len(batches) < MaxWrites
    /\ writer' = [writer EXCEPT ![w] = [Away EXCEPT !.pc = "wait", !.reads = u.reads,
                                                    !.writes = u.writes]]
    /\ UNCHANGED <<endpoint, batches, store, ready, lock, passes, mixed, faults>>

\* waitPathsReady: a path that is not ready is synchronised here and now.
WaitReady(w) ==
    /\ writer[w].pc = "wait" /\ PathsIn(w) \subseteq ready
    /\ Goto(w, "lock")
    /\ UNCHANGED <<endpoint, batches, store, ready, lock, passes, mixed, faults>>

SyncHere(w) ==
    /\ writer[w].pc = "wait" /\ ~(PathsIn(w) \subseteq ready) /\ sync.pc = "idle"
    /\ \A p \in PathsIn(w) : lock[p] = Nobody
    /\ lock' = Locked(w)
    /\ sync' = [NoPass EXCEPT !.by = w, !.pc = "meta",
                              !.todo = Places(PathsIn(w))]
    /\ Goto(w, "syncing")
    /\ UNCHANGED <<endpoint, batches, store, ready, watching, mixed, faults>>

LockPaths(w) ==
    /\ writer[w].pc = "lock" /\ \A p \in PathsIn(w) : lock[p] = Nobody
    /\ lock' = Locked(w)
    /\ Goto(w, "read")
    /\ UNCHANGED <<endpoint, batches, store, ready, passes, mixed, faults>>

Confirmable(P) == P \subseteq ready /\ \A p \in P : base[p] # 0

\* confirmedRecord, for every key.
ReadRecords(w) ==
    /\ writer[w].pc = "read"
    /\ IF Confirmable(PathsIn(w))
       THEN /\ writer' = [writer EXCEPT ![w].pc = "queue", ![w].got = Of(confirmed, writer[w].reads)]
            /\ UNCHANGED lock
       ELSE Leave(w)
    /\ UNCHANGED <<endpoint, batches, store, ready, passes, mixed, faults>>

\* syncedPathWriteContext.
Writable(P) == P \subseteq ready /\ \A p \in P : /\ meta[p] # 0
                                                 /\ session[p] \in {"idle", "confirmed"}

\* putBatchCASLocked: the sequence numbers are checked against the replica as
\* it is now, and the batch goes to the outbox.
Queue(w) ==
    /\ writer[w].pc = "queue"
    /\ LET K == writer[w].writes
           P == PathsOf(K)
           got == writer[w].got
       IN IF /\ Writable(P) /\ Confirmable(P)
             /\ \A k \in K : confirmed[k].seq = got[k].seq
          THEN LET n == Len(batches) + 1
               IN /\ batches' = Append(batches,
                        [recs |-> [k \in K |-> [seq |-> got[k].seq + 1, by |-> n]],
                         prev |-> Of(got, K), gens |-> Of(meta, P),
                         sound |-> P \cap mixed = {}])
                  /\ outbox' = SetState(n, "inflight")
                  /\ session' = [p \in Paths |-> IF p \in P THEN "prepared" ELSE session[p]]
                  /\ writer' = [writer EXCEPT ![w].pc = "submit", ![w].n = n]
                  /\ UNCHANGED lock
          ELSE Leave(w) /\ UNCHANGED <<batches, outbox, session>>
    /\ UNCHANGED <<endpoint, confirmed, base, meta, ready, passes, mixed, faults>>

Submit(w) ==
    /\ writer[w].pc = "submit"
    /\ \E a \in {Answer(writer[w].n), Failed} :
          /\ Submits(writer[w].n, a)
          /\ writer' = [writer EXCEPT ![w].pc = "answer", ![w].answer = a]
    /\ UNCHANGED <<batches, store, ready, lock, passes, mixed>>

Refused(a) == a.kind \in {"conflict", "error"}

\* The answer is at hand: the failure is noted, or the replica loaded to take
\* up the batch.
Receive(w) ==
    /\ writer[w].pc = "answer"
    /\ LET a == writer[w].answer
       IN IF Refused(a)
          THEN outbox' = FailureState(writer[w].n, a.kind) /\ Leave(w)
          ELSE /\ writer' = [writer EXCEPT ![w].pc = "ack", ![w].copy = Load(DOMAIN a.gens)]
               /\ UNCHANGED <<outbox, lock>>
    /\ UNCHANGED <<endpoint, batches, confirmed, base, meta, session, ready, passes, mixed, faults>>

AckBatch(w) ==
    /\ writer[w].pc = "ack"
    /\ Ack(writer[w].n, writer[w].copy, writer[w].answer.gens)
    /\ Goto(w, "again")
    /\ UNCHANGED <<endpoint, batches, ready, lock, passes, faults>>

\* applyWriteResult: the same records once more, with the baseline alone.
LoadAgain(w) ==
    /\ writer[w].pc = "again"
    /\ writer' = [writer EXCEPT ![w].pc = "apply", ![w].copy = Load(DOMAIN writer[w].answer.gens)]
    /\ UNCHANGED <<endpoint, batches, store, ready, lock, passes, mixed, faults>>

ApplyAgain(w) ==
    /\ writer[w].pc = "apply"
    /\ LET c    == writer[w].copy
           gens == writer[w].answer.gens
           P    == DOMAIN gens
       IN /\ confirmed' = Over(Over(batches[writer[w].n].recs, c.recs), confirmed)
          /\ base' = Over(gens, base)
          /\ ready' = ready \cup P
          /\ mixed' = mixed \cup (P \ CopyOf(c, P)) \cup {p \in P : base[p] # gens[p]}
    /\ Leave(w)
    /\ UNCHANGED <<endpoint, batches, outbox, meta, session, passes, faults>>

(***************************************************************************)
(* A pass: syncDKVSOnce in the background, registerKeysLocked at a writer. *)
(***************************************************************************)
Path == PathOrder[Min(sync.todo)]
Step(pc) == sync' = [sync EXCEPT !.pc = pc]

\* The pass is over, at a writer with or without success.
EndPass(ok) ==
    /\ sync' = NoPass
    /\ IF sync.by = Worker THEN watching' = ok /\ UNCHANGED <<writer, lock>>
       ELSE /\ UNCHANGED watching
            /\ writer' = [writer EXCEPT ![sync.by] = IF ok THEN [writer[sync.by] EXCEPT !.pc = "lock"]
                                                     ELSE Away]
            /\ lock' = Unlocked(sync.by)

BeginPass ==
    /\ sync.pc = "idle" /\ PathOrder # << >>
    /\ sync' = [NoPass EXCEPT !.by = Worker, !.pc = "meta", !.todo = DOMAIN PathOrder]
    /\ watching' = FALSE
    /\ UNCHANGED <<endpoint, batches, store, ready, lock, writer, mixed, faults>>

\* watch tells a change, the wallet's own included, or fails.
WatchEnds(p) ==
    /\ watching /\ p \in Paths
    /\ ready' = ready \ {p} /\ watching' = FALSE
    /\ UNCHANGED <<endpoint, batches, store, lock, writer, sync, mixed, faults>>

\* The generation an endpoint serves.
Serves(p, g) == \/ g = Gen(p) /\ UNCHANGED faults
                \/ g < Gen(p) /\ MayFail("lag") /\ faults' = faults + 1

SyncMeta ==
    /\ sync.pc = "meta"
    /\ ready' = ready \ {Path}
    /\ \/ \E g \in 1 .. Gen(Path) :
             /\ Serves(Path, g)
             /\ IF g < base[Path] THEN EndPass(FALSE)
                ELSE /\ Step(IF g = base[Path] THEN "overlay" ELSE "snapshot")
                     /\ UNCHANGED <<writer, lock, watching>>
       \/ /\ MayFail("offline") /\ faults' = faults + 1
          /\ EndPass(FALSE)
    /\ UNCHANGED <<endpoint, batches, store, mixed>>

\* SyncPath, against the baseline as it was.
SyncSnapshot ==
    /\ sync.pc = "snapshot"
    /\ \E g \in 1 .. Gen(Path) :
          /\ Serves(Path, g)
          /\ IF g < base[Path] THEN EndPass(FALSE)
             ELSE /\ sync' = [sync EXCEPT !.pc = "replace", !.gen = g]
                  /\ UNCHANGED <<writer, lock, watching>>
    /\ UNCHANGED <<endpoint, batches, store, ready, mixed>>

\* Mutant: the generation is that of the endpoint by now.
TakenUpNow(p) == Gen(p)
TakenUp(p) == sync.gen

\* applyPathSnapshot.
ApplySnapshot ==
    /\ sync.pc = "replace"
    /\ confirmed' = Over(log[Path][sync.gen], confirmed)
    /\ base' = [base EXCEPT ![Path] = TakenUp(Path)]
    /\ meta' = [meta EXCEPT ![Path] = TakenUp(Path)]
    /\ session' = [session EXCEPT ![Path] = "idle"]
    /\ mixed' = mixed \ {Path}
    /\ Step("overlay")
    /\ UNCHANGED <<endpoint, batches, outbox, ready, lock, writer, watching, faults>>

\* applyEndpointLocalOverlay: the records of the endpoint alone are replaced in
\* what was loaded, and all of it is written back.
LoadOverlay ==
    /\ sync.pc = "overlay"
    /\ sync' = [sync EXCEPT !.pc = "write", !.copy = Load({Path})]
    /\ UNCHANGED <<endpoint, batches, store, ready, lock, writer, watching, mixed, faults>>

NextPath == IF sync.todo = {Min(sync.todo)} THEN EndPass(TRUE)
            ELSE /\ sync' = [NoPass EXCEPT !.by = sync.by, !.pc = "meta", !.todo = sync.todo \ {Min(sync.todo)}]
                 /\ UNCHANGED <<writer, lock, watching>>

WriteOverlay ==
    /\ sync.pc = "write"
    /\ confirmed' = Over(sync.copy.recs, confirmed)
    /\ meta' = Over(sync.copy.meta, meta)
    /\ session' = [session EXCEPT ![Path] = "idle"]
    /\ ready' = ready \cup {Path}
    /\ mixed' = mixed \cup ({Path} \ CopyOf(sync.copy, {Path}))
    /\ IF sync.by = Worker THEN Step("outbox") /\ UNCHANGED <<writer, lock, watching>> ELSE NextPath
    /\ UNCHANGED <<endpoint, batches, outbox, base, faults>>

\* flushDKVSBatchOutbox: the outbox as it is now, oldest first.
LoadOutbox ==
    /\ sync.pc = "outbox"
    /\ sync' = [sync EXCEPT !.pc = "replay", !.copy = NoCopy, !.queue = outbox]
    /\ UNCHANGED <<endpoint, batches, store, ready, lock, writer, watching, mixed, faults>>

Queued == DOMAIN sync.queue
Oldest == Min(Queued)

Replay ==
    /\ sync.pc = "replay" /\ Queued # {} /\ sync.queue[Oldest] # "conflict"
    /\ outbox' = SetState(Oldest, "inflight")
    /\ \E a \in {Answer(Oldest), Failed} :
          /\ Submits(Oldest, a)
          /\ sync' = [sync EXCEPT !.pc = "answer", !.answer = a]
    /\ UNCHANGED <<batches, confirmed, base, meta, session, ready, lock, writer, watching, mixed>>

\* A conflict, met or remembered, ends the pass.
ReplayEnds ==
    /\ sync.pc = "replay"
    /\ \/ Queued = {} /\ NextPath
       \/ Queued # {} /\ sync.queue[Oldest] = "conflict" /\ EndPass(FALSE)
    /\ UNCHANGED <<endpoint, batches, store, ready, mixed, faults>>

ReplayReceive ==
    /\ sync.pc = "answer"
    /\ LET a == sync.answer
       IN IF Refused(a)
          THEN outbox' = FailureState(Oldest, a.kind) /\ EndPass(FALSE)
          ELSE /\ sync' = [sync EXCEPT !.pc = "ack", !.copy = Load(DOMAIN a.gens)]
               /\ UNCHANGED <<outbox, writer, lock, watching>>
    /\ UNCHANGED <<endpoint, batches, confirmed, base, meta, session, ready, mixed, faults>>

ReplayAck ==
    /\ sync.pc = "ack"
    /\ Ack(Oldest, sync.copy, sync.answer.gens)
    /\ ready' = ready \cup DOMAIN sync.answer.gens
    /\ sync' = [sync EXCEPT !.pc = "replay", !.copy = NoCopy, !.answer = NoAnswer,
                    !.queue = [m \in Queued \ {Oldest} |-> sync.queue[m]]]
    /\ UNCHANGED <<endpoint, batches, lock, writer, watching, faults>>

\* The wallet stops and starts again: what the store holds remains.
Crash ==
    /\ MayFail("crash") /\ faults' = faults + 1
    /\ ready' = {} /\ lock' = [p \in Paths |-> Nobody]
    /\ writer' = [w \in Writers |-> Away] /\ sync' = NoPass /\ watching' = FALSE
    /\ UNCHANGED <<endpoint, batches, store, mixed>>

-----------------------------------------------------------------------------
Init ==
    /\ log = [p \in Paths |-> <<[k \in KeysOf(p) |-> Absent]>>]
    /\ remote = 0 /\ batches = << >> /\ applied = {}
    /\ outbox = [n \in {} |-> "prepared"]
    /\ confirmed = [k \in Keys |-> Absent]
    /\ base = [p \in Paths |-> 0] /\ meta = base
    /\ session = [p \in Paths |-> "none"]
    /\ ready = {} /\ lock = [p \in Paths |-> Nobody]
    /\ writer = [w \in Writers |-> Away] /\ sync = NoPass /\ watching = FALSE
    /\ mixed = {} /\ faults = 0

Update(w) ==
    \/ WaitReady(w) \/ SyncHere(w) \/ LockPaths(w) \/ ReadRecords(w) \/ Queue(w)
    \/ Submit(w) \/ Receive(w) \/ AckBatch(w) \/ LoadAgain(w) \/ ApplyAgain(w)
Pass ==
    \/ SyncMeta \/ SyncSnapshot \/ ApplySnapshot \/ LoadOverlay \/ WriteOverlay
    \/ LoadOutbox \/ Replay \/ ReplayEnds \/ ReplayReceive \/ ReplayAck

Next ==
    \/ \E k \in Keys : RemoteWrite(k)
    \/ \E w \in Writers : Update(w) \/ \E u \in Updates : Call(w, u)
    \/ BeginPass \/ Pass \/ Crash
    \/ \E p \in Paths : WatchEnds(p)

Spec == Init /\ [][Next]_vars
FairSpec == Spec /\ SF_vars(BeginPass) /\ WF_vars(Pass) /\ \A w \in Writers : WF_vars(Update(w))

-----------------------------------------------------------------------------
Records == [seq : Nat, by : Nat]
States  == {"inflight", "conflict", "error"}

\* The kinds of values the variables take.
TypeOK ==
    /\ DOMAIN log = Paths /\ \A p \in Paths : log[p] \in Seq([KeysOf(p) -> Records]) /\ Gen(p) > 0
    /\ remote \in 0 .. MaxRemote
    /\ applied \subseteq DOMAIN batches
    /\ DOMAIN outbox \subseteq DOMAIN batches /\ \A n \in DOMAIN outbox : outbox[n] \in States
    /\ DOMAIN confirmed = Keys /\ \A k \in Keys : confirmed[k] \in Records
    /\ DOMAIN base = Paths /\ DOMAIN meta = Paths
    /\ \A p \in Paths : base[p] \in 0 .. Gen(p) /\ meta[p] \in 0 .. Gen(p)
    /\ session \in [Paths -> {"none", "idle", "prepared", "confirmed"}]
    /\ ready \subseteq Paths /\ mixed \subseteq Paths
    /\ lock \in [Paths -> Writers \cup {Nobody}]
    /\ DOMAIN writer = Writers
    /\ sync.by \in Writers \cup {Worker, Nobody}
    /\ watching \in BOOLEAN /\ faults \in 0 .. MaxFault

(***************************************************************************)
(* Properties.                                                             *)
(***************************************************************************)
\* A signed batch is never lost: it waits in the outbox until the endpoint has
\* applied it, whatever is lost, refused or interrupted.
Durable == \A n \in DOMAIN batches : n \in DOMAIN outbox \cup applied

\* The confirmed replica is what the endpoint had at the generation of the
\* baseline, and PathMeta says the same, unless a stale copy was written back
\* or a replay skipped what others wrote (see mixed); and a batch, although it
\* was read before the pass brought the replica forward, replaces the records
\* of the very generation it names as its precondition.
AtGeneration(k, g) == log[PathOf[k]][g][k]

ReplicaIsBaseline ==
    /\ \A p \in Paths \ mixed :
          base[p] # 0 => /\ meta[p] = base[p]
                         /\ \A k \in KeysOf(p) : confirmed[k] = AtGeneration(k, base[p])
    /\ \A n \in DOMAIN batches : LET b == batches[n] IN
          b.sound => \A k \in DOMAIN b.prev : b.prev[k] = AtGeneration(k, b.gens[PathOf[k]])

\* A batch ends in conflict only when somebody else has written to one of its
\* directories since: neither a lost answer nor a replay alone, beside the
\* foreground or after it, brings the outbox to a stop.
ConflictHasRival ==
    \A n \in DOMAIN outbox : outbox[n] = "conflict" /\ batches[n].sound =>
        \E p \in WritePaths(batches[n]) :
            Gen(p) > batches[n].gens[p] + (IF n \in applied THEN 1 ELSE 0)

Stuck == \E n \in DOMAIN outbox : outbox[n] = "conflict"

\* In the end the outbox is empty and the replica is what the endpoint has, or
\* a conflict waits for somebody to resolve it.
Settles ==
    <>[](\/ Stuck
         \/ /\ DOMAIN outbox = {}
            /\ \A p \in Paths \ mixed : \A k \in KeysOf(p) : confirmed[k] = Current(k))
=============================================================================
