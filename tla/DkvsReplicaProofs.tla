-------------------------- MODULE DkvsReplicaProofs --------------------------
(***************************************************************************)
(* What is proved of the replica, for any directories, keys, writers and   *)
(* requests, any number of batches and of writes by the other device, and  *)
(* any number of faults of every kind.                                     *)
(***************************************************************************)
EXTENDS DkvsReplica, SequenceTheorems, WellFoundedInduction, TLAPS

USE DEF endpoint, passes, store

-----------------------------------------------------------------------------
(* The invariant.                                                          *)

\* What the endpoint has served for a key.
Served(k) == {log[PathOf[k]][g][k] : g \in 1 .. Gen(PathOf[k])}

\* A sequence number is used once: the log of a directory is a history.
LogTypes ==
    /\ DOMAIN log = Paths
    /\ \A p \in Paths : log[p] \in Seq([KeysOf(p) -> Records]) /\ Gen(p) > 0
LogInv ==
    /\ LogTypes
    /\ \A p \in Paths : \A g, h \in 1 .. Gen(p) : \A k \in KeysOf(p) :
          g <= h => \/ log[p][g][k] = log[p][h][k]
                    \/ log[p][g][k].seq < log[p][h][k].seq
    /\ \A p \in Paths : \A g \in 1 .. Gen(p) : \A k \in KeysOf(p) :
          log[p][g][k].by \in {0} \cup applied

\* A batch writes the numbers after those it read, at the generation it names.
BatchOK(b, n) ==
    /\ DOMAIN b.recs \subseteq Keys /\ DOMAIN b.recs # {}
    /\ DOMAIN b.prev = DOMAIN b.recs
    /\ DOMAIN b.gens = WritePaths(b)
    /\ \A k \in DOMAIN b.recs : /\ b.recs[k] \in Records /\ b.prev[k] \in Records
                                /\ b.recs[k].seq = b.prev[k].seq + 1
                                /\ b.recs[k].by = n
    /\ \A p \in WritePaths(b) : b.gens[p] \in 1 .. Gen(p)
    /\ b.sound => \A k \in DOMAIN b.prev : b.prev[k] = AtGeneration(k, b.gens[PathOf[k]])

\* One that was applied made the generation after it.
AppliedOK(b) ==
    \A p \in WritePaths(b) :
       /\ b.gens[p] + 1 \in 1 .. Gen(p)
       /\ \A k \in KeysOf(p) : log[p][b.gens[p] + 1][k] = IF k \in DOMAIN b.recs THEN b.recs[k]
                                                          ELSE log[p][b.gens[p]][k]
BatchInv ==
    /\ batches \in Seq({batches[n] : n \in DOMAIN batches})
    /\ \A n \in DOMAIN batches : BatchOK(batches[n], n)
    /\ applied \subseteq DOMAIN batches
    /\ \A n \in applied : AppliedOK(batches[n])

\* Somebody else has written since.
Rival(n) ==
    batches[n].sound => \E p \in WritePaths(batches[n]) :
        Gen(p) > batches[n].gens[p] + (IF n \in applied THEN 1 ELSE 0)

OutboxInv ==
    /\ DOMAIN outbox \subseteq DOMAIN batches
    /\ \A n \in DOMAIN batches : n \in DOMAIN outbox \cup applied
    /\ \A n \in DOMAIN outbox : outbox[n] \in States /\ (outbox[n] = "conflict" => Rival(n))

ReplicaInv ==
    /\ DOMAIN confirmed = Keys
    /\ \A k \in Keys : confirmed[k] \in Served(k)
    /\ DOMAIN base = Paths /\ DOMAIN meta = Paths
    /\ \A p \in Paths : base[p] \in 0 .. Gen(p) /\ meta[p] \in 0 .. Gen(p)
    /\ \A p \in Paths \ mixed :
          base[p] # 0 => /\ meta[p] = base[p]
                         /\ \A k \in KeysOf(p) : confirmed[k] = AtGeneration(k, base[p])

\* An answer that has come back, and a replica that was loaded.
AnswerOK(n, a) ==
    /\ ~Refused(a) => /\ n \in applied
                      /\ DOMAIN a.gens = WritePaths(batches[n])
                      /\ \A p \in DOMAIN a.gens : a.gens[p] \in 1 .. Gen(p)
                      /\ \A k \in DOMAIN batches[n].recs :
                            log[PathOf[k]][a.gens[PathOf[k]]][k] = batches[n].recs[k]
    /\ a.kind = "conflict" => Rival(n)
CopyOK(c, P) ==
    /\ DOMAIN c.recs = {k \in Keys : PathOf[k] \in P} /\ DOMAIN c.meta = P
    /\ \A k \in DOMAIN c.recs : c.recs[k] \in Served(k)
    /\ \A p \in P : c.meta[p] \in 0 .. Gen(p)

WriterOK(r) ==
    /\ DOMAIN r = DOMAIN Away
    /\ r.pc # "away" => r.writes \subseteq r.reads /\ r.reads \subseteq Keys /\ r.writes # {}
    /\ r.pc = "queue" => DOMAIN r.got = r.reads /\ \A k \in r.reads : r.got[k] \in Served(k)
    /\ r.pc \in {"submit", "answer", "ack", "again", "apply"} => r.n \in DOMAIN batches
    /\ r.pc \in {"answer", "ack", "again", "apply"} => AnswerOK(r.n, r.answer)
    /\ r.pc \in {"ack", "again", "apply"} => ~Refused(r.answer)
    /\ r.pc \in {"ack", "apply"} => CopyOK(r.copy, DOMAIN r.answer.gens)
WriterInv == DOMAIN writer = Writers /\ \A w \in Writers : WriterOK(writer[w])

First(S) == PathOrder[Min(S)]
SyncOK(s) ==
    /\ DOMAIN s = DOMAIN NoPass
    /\ s.by \in Writers \cup {Worker, Nobody}
    /\ s.todo \subseteq DOMAIN PathOrder /\ (s.pc # "idle" => s.todo # {})
    /\ s.pc = "replace" => s.gen \in 1 .. Gen(First(s.todo))
    /\ s.pc = "write" => CopyOK(s.copy, {First(s.todo)})
    /\ DOMAIN s.queue \subseteq DOMAIN batches
    /\ s.pc \in {"answer", "ack"} => DOMAIN s.queue # {} /\ AnswerOK(Min(DOMAIN s.queue), s.answer)
    /\ s.pc = "ack" => ~Refused(s.answer) /\ CopyOK(s.copy, DOMAIN s.answer.gens)
SyncInv == SyncOK(sync)

\* The writer whose pass it is waits for it.
Waits ==
    sync.pc # "idle" /\ sync.by \in Writers \ {Worker} => writer[sync.by].pc = "syncing"

\* The rest of the types.
OtherTypes ==
    /\ remote \in 0 .. MaxRemote
    /\ session \in [Paths -> {"none", "idle", "prepared", "confirmed"}]
    /\ ready \subseteq Paths /\ mixed \subseteq Paths
    /\ lock \in [Paths -> Writers \cup {Nobody}]
    /\ watching \in BOOLEAN /\ faults \in 0 .. MaxFault

Inv == LogInv /\ BatchInv /\ OutboxInv /\ ReplicaInv /\ WriterInv /\ SyncInv /\ Waits /\ OtherTypes

-----------------------------------------------------------------------------
(* Numbers, directories and the log.                                       *)

LEMMA NatHasLeast ==
  ASSUME NEW T \in SUBSET Nat, T # {}
  PROVE  \E k \in T : \A n \in T : k <= n
<1> DEFINE R == OpToRel(<, Nat)
<1>1. IsWellFoundedOn(R, Nat)
  BY NatLessThanWellFounded
<1>2. PICK k \in T : \A n \in T : <<n, k>> \notin R
  <2> HIDE DEF R
  <2>. QED  BY <1>1, WFMin
<1>3. \A n \in T : n < k => <<n, k>> \in R
  BY DEF OpToRel
<1> HIDE DEF R
<1>4. \A n \in T : ~(n < k)
  BY <1>2, <1>3
<1>5. \A n \in T : n \in Nat /\ k \in Nat
  OBVIOUS
<1>. QED
  BY <1>4, <1>5

LEMMA MinIn ==
  ASSUME NEW T \in SUBSET Nat, T # {}
  PROVE  Min(T) \in T
BY NatHasLeast DEF Min

LEMMA PathIn == \A k \in Keys : PathOf[k] \in Paths
BY PathsAssumption

LEMMA PathsOfIn == \A K \in SUBSET Keys : PathsOf(K) \subseteq Paths
BY PathIn DEF PathsOf

\* The first directory of a pass.
LEMMA FirstIn ==
  ASSUME NEW T \in SUBSET DOMAIN PathOrder, T # {}
  PROVE  Min(T) \in T /\ First(T) \in Paths
<1>1. DOMAIN PathOrder \subseteq Nat
  BY PathsAssumption, LenProperties
<1>2. Min(T) \in T
  BY <1>1, MinIn
<1>. QED
  BY <1>2 DEF First, Paths, Range

LEMMA LogFacts ==
  ASSUME LogTypes, NEW p \in Paths
  PROVE  /\ Gen(p) \in Nat /\ Gen(p) \in 1 .. Gen(p) /\ DOMAIN log[p] = 1 .. Gen(p)
         /\ \A g \in 1 .. Gen(p) : log[p][g] \in [KeysOf(p) -> Records]
         /\ Latest(p) \in [KeysOf(p) -> Records]
<1>1. log[p] \in Seq([KeysOf(p) -> Records]) /\ Gen(p) > 0
  BY DEF LogTypes
<1>2. Gen(p) \in Nat /\ DOMAIN log[p] = 1 .. Gen(p)
  BY <1>1, LenProperties DEF Gen
<1>3. \A g \in 1 .. Gen(p) : log[p][g] \in [KeysOf(p) -> Records]
  BY <1>1, <1>2, ElementOfSeq DEF Gen
<1>. QED
  BY <1>1, <1>2, <1>3 DEF Latest

\* The log of every directory goes on, batches stay, and one is applied only at
\* the generations it names.
Goes ==
    \A p \in Paths : /\ Gen(p)' \in Nat /\ Gen(p) <= Gen(p)'
                     /\ \A g \in 1 .. Gen(p) : log'[p][g] = log[p][g]
Later ==
    /\ Goes
    /\ \A n \in DOMAIN batches : n \in DOMAIN batches' /\ batches'[n] = batches[n]
    /\ applied \subseteq applied'
    /\ \A n \in DOMAIN batches : n \in applied' =>
          n \in applied \/ \A p \in WritePaths(batches[n]) : Gen(p) <= batches[n].gens[p]

\* What is said of the log and of the batches, when they stay.
LEMMA SameLog == ASSUME LogInv, UNCHANGED <<log, applied>> PROVE LogInv'
<1>1. LogTypes'
  BY DEF LogInv, LogTypes, Gen, KeysOf
<1>2. \A p \in Paths : \A g, h \in 1 .. Gen(p)' : \A k \in KeysOf(p) :
          g <= h => \/ log'[p][g][k] = log'[p][h][k]
                    \/ log'[p][g][k].seq < log'[p][h][k].seq
  BY DEF LogInv, Gen
<1>3. \A p \in Paths : \A g \in 1 .. Gen(p)' : \A k \in KeysOf(p) :
          log'[p][g][k].by \in {0} \cup applied'
  BY DEF LogInv, Gen
<1>. QED
  BY <1>1, <1>2, <1>3 DEF LogInv, KeysOf

LEMMA SameBatches == ASSUME BatchInv, UNCHANGED <<log, applied, batches>> PROVE BatchInv'
<1>1. ASSUME NEW n \in DOMAIN batches
      PROVE  BatchOK(batches[n], n)'
  <2>1. BatchOK(batches[n], n)
    BY DEF BatchInv
  <2>. QED
    BY <2>1 DEF BatchOK, AtGeneration, Gen, WritePaths, PathsOf
<1>2. ASSUME NEW n \in applied
      PROVE  AppliedOK(batches[n])'
  <2>1. AppliedOK(batches[n])
    BY DEF BatchInv
  <2>. QED
    BY <2>1 DEF AppliedOK, Gen, KeysOf, WritePaths, PathsOf
<1>. QED
  BY <1>1, <1>2 DEF BatchInv

LEMMA Calm == ASSUME LogTypes, UNCHANGED <<log, applied, batches>> PROVE Later
<1>1. \A p \in Paths : Gen(p) \in Nat /\ Gen(p)' = Gen(p)
  BY LogFacts DEF Gen
<1>. QED
  BY <1>1 DEF Later, Goes

LEMMA ServedKept ==
  ASSUME LogTypes, Later, NEW k \in Keys
  PROVE  Served(k) \subseteq Served(k)'
<1>1. PathOf[k] \in Paths
  BY PathIn
<1>2. Gen(PathOf[k]) \in Nat
  BY <1>1, LogFacts
<1>3. \A g \in 1 .. Gen(PathOf[k]) : g \in 1 .. Gen(PathOf[k])' /\ log'[PathOf[k]][g] = log[PathOf[k]][g]
  BY <1>1, <1>2 DEF Later, Goes
<1>. QED
  BY <1>3 DEF Served

LEMMA BatchKept ==
  ASSUME LogTypes, Later, NEW b, NEW n, BatchOK(b, n)
  PROVE  BatchOK(b, n)'
<1>1. \A p \in WritePaths(b) : p \in Paths /\ b.gens[p] \in 1 .. Gen(p)
  BY PathsOfIn DEF BatchOK, WritePaths
<1>2. \A p \in WritePaths(b) : b.gens[p] \in 1 .. Gen(p)' /\ log'[p][b.gens[p]] = log[p][b.gens[p]]
  BY <1>1, LogFacts DEF Later, Goes
<1>3. \A k \in DOMAIN b.prev : PathOf[k] \in WritePaths(b)
  BY DEF BatchOK, WritePaths, PathsOf
<1>4. b.sound => \A k \in DOMAIN b.prev : b.prev[k] = AtGeneration(k, b.gens[PathOf[k]])'
  BY <1>2, <1>3 DEF BatchOK, AtGeneration
<1>5. WritePaths(b)' = WritePaths(b)
  BY DEF WritePaths, PathsOf
<1>. QED
  BY <1>2, <1>4, <1>5 DEF BatchOK

LEMMA AppliedKept ==
  ASSUME LogTypes, Later, NEW b, NEW n, BatchOK(b, n), AppliedOK(b)
  PROVE  AppliedOK(b)'
<1>1. \A p \in WritePaths(b) : p \in Paths /\ b.gens[p] \in 1 .. Gen(p)
  BY PathsOfIn DEF BatchOK, WritePaths
<1>2. SUFFICES ASSUME NEW p \in WritePaths(b)
               PROVE  /\ b.gens[p] + 1 \in 1 .. Gen(p)'
                      /\ log'[p][b.gens[p]] = log[p][b.gens[p]]
                      /\ log'[p][b.gens[p] + 1] = log[p][b.gens[p] + 1]
  BY DEF AppliedOK, WritePaths, PathsOf
<1>3. b.gens[p] + 1 \in 1 .. Gen(p)
  BY DEF AppliedOK
<1>. QED
  BY <1>1, <1>3, LogFacts DEF Later, Goes

LEMMA RivalKept ==
  ASSUME LogTypes, BatchInv, Later, NEW n \in DOMAIN batches, Rival(n)
  PROVE  Rival(n)'
<1> DEFINE b == batches[n]
<1>1. batches'[n] = b /\ WritePaths(b)' = WritePaths(b)
  BY DEF Later, WritePaths, PathsOf
<1>2. \A p \in WritePaths(b) : /\ p \in Paths /\ Gen(p) \in Nat /\ Gen(p)' \in Nat /\ Gen(p) <= Gen(p)'
                               /\ b.gens[p] \in 1 .. Gen(p)
  BY PathsOfIn, LogFacts DEF BatchInv, BatchOK, WritePaths, Later, Goes
<1>3. ASSUME b.sound
      PROVE  \E p \in WritePaths(b) : Gen(p)' > b.gens[p] + (IF n \in applied' THEN 1 ELSE 0)
  <2>1. PICK p \in WritePaths(b) : Gen(p) > b.gens[p] + (IF n \in applied THEN 1 ELSE 0)
    BY <1>3 DEF Rival
  <2>2. Gen(p) > b.gens[p]
    BY <1>2, <2>1
  <2>3. n \in applied' <=> n \in applied
    <3>1. ~(Gen(p) <= b.gens[p])
      BY <1>2, <2>2
    <3>. QED  BY <3>1 DEF Later
  <2>. QED
    BY <1>2, <2>1, <2>3
<1>4. b.sound => \E p \in WritePaths(b) : Gen(p)' > b.gens[p] + (IF n \in applied' THEN 1 ELSE 0)
  BY <1>3
<1>. QED
  BY <1>1, <1>4 DEF Rival

LEMMA AnswerKept ==
  ASSUME LogTypes, BatchInv, Later, NEW n \in DOMAIN batches, NEW a, AnswerOK(n, a)
  PROVE  AnswerOK(n, a)'
<1> DEFINE b == batches[n]
<1>1. batches'[n] = b /\ WritePaths(b)' = WritePaths(b) /\ Refused(a)' = Refused(a)
  BY DEF Later, WritePaths, PathsOf, Refused
<1>2. a.kind = "conflict" => Rival(n)'
  BY RivalKept DEF AnswerOK
<1>3. ASSUME ~Refused(a)
      PROVE  /\ n \in applied'
             /\ DOMAIN a.gens = WritePaths(b)
             /\ \A p \in DOMAIN a.gens : a.gens[p] \in 1 .. Gen(p)'
             /\ \A k \in DOMAIN b.recs : log'[PathOf[k]][a.gens[PathOf[k]]][k] = b.recs[k]
  <2>1. /\ n \in applied /\ DOMAIN a.gens = WritePaths(b)
        /\ \A p \in WritePaths(b) : a.gens[p] \in 1 .. Gen(p)
        /\ \A k \in DOMAIN b.recs : log[PathOf[k]][a.gens[PathOf[k]]][k] = b.recs[k]
    BY <1>3 DEF AnswerOK
  <2>2. \A p \in WritePaths(b) : p \in Paths /\ Gen(p) \in Nat
    BY PathsOfIn, LogFacts DEF BatchInv, BatchOK, WritePaths
  <2>3. \A p \in WritePaths(b) : a.gens[p] \in 1 .. Gen(p)' /\ log'[p][a.gens[p]] = log[p][a.gens[p]]
    BY <2>1, <2>2 DEF Later, Goes
  <2>4. \A k \in DOMAIN b.recs : PathOf[k] \in WritePaths(b)
    BY DEF WritePaths, PathsOf
  <2>. QED
    BY <2>1, <2>3, <2>4 DEF Later
<1>. QED
  BY <1>1, <1>2, <1>3 DEF AnswerOK

LEMMA CopyKept ==
  ASSUME LogTypes, Later, NEW c, NEW P \in SUBSET Paths, CopyOK(c, P)
  PROVE  CopyOK(c, P)'
<1>1. \A k \in DOMAIN c.recs : c.recs[k] \in Served(k)'
  BY ServedKept DEF CopyOK
<1>2. \A p \in P : c.meta[p] \in 0 .. Gen(p)'
  BY LogFacts DEF CopyOK, Later, Goes
<1>. QED
  BY <1>1, <1>2 DEF CopyOK

LEMMA WriterKept ==
  ASSUME LogTypes, BatchInv, Later, NEW r, WriterOK(r)
  PROVE  WriterOK(r)'
<1>1. r.pc = "queue" => \A k \in r.reads : r.got[k] \in Served(k)'
  BY ServedKept DEF WriterOK
<1>2. r.pc \in {"submit", "answer", "ack", "again", "apply"} => r.n \in DOMAIN batches'
  BY DEF WriterOK, Later
<1>3. r.pc \in {"answer", "ack", "again", "apply"} => AnswerOK(r.n, r.answer)'
  BY AnswerKept DEF WriterOK
<1>4. ASSUME r.pc \in {"ack", "apply"}
      PROVE  CopyOK(r.copy, DOMAIN r.answer.gens)'
  <2>1. r.n \in DOMAIN batches /\ DOMAIN r.answer.gens = WritePaths(batches[r.n])
    BY <1>4 DEF WriterOK, AnswerOK
  <2>2. DOMAIN r.answer.gens \subseteq Paths
    BY <2>1, PathsOfIn DEF BatchInv, BatchOK, WritePaths
  <2>3. CopyOK(r.copy, DOMAIN r.answer.gens)
    BY <1>4 DEF WriterOK
  <2>. QED  BY <2>2, <2>3, CopyKept
<1>5. Refused(r.answer)' = Refused(r.answer)
  BY DEF Refused
<1>. QED
  BY <1>1, <1>2, <1>3, <1>4, <1>5 DEF WriterOK

LEMMA SyncKept ==
  ASSUME LogTypes, BatchInv, Later, NEW s, SyncOK(s)
  PROVE  SyncOK(s)'
<1>1. DOMAIN s.queue \subseteq DOMAIN batches /\ DOMAIN batches \subseteq DOMAIN batches'
  BY DEF SyncOK, Later
<1>2. s.pc = "replace" => s.gen \in 1 .. Gen(First(s.todo))'
  <2>1. SUFFICES ASSUME s.pc = "replace" PROVE s.gen \in 1 .. Gen(First(s.todo))'
    OBVIOUS
  <2>2. s.gen \in 1 .. Gen(First(s.todo)) /\ First(s.todo) \in Paths
    BY <2>1, FirstIn DEF SyncOK
  <2>. QED  BY <2>2, LogFacts DEF Later, Goes
<1>3. s.pc = "write" => CopyOK(s.copy, {First(s.todo)})'
  <2>1. SUFFICES ASSUME s.pc = "write" PROVE CopyOK(s.copy, {First(s.todo)})'
    OBVIOUS
  <2>2. CopyOK(s.copy, {First(s.todo)}) /\ First(s.todo) \in Paths
    BY <2>1, FirstIn DEF SyncOK
  <2>. QED  BY <2>2, CopyKept
<1>4. ASSUME s.pc \in {"answer", "ack"}
      PROVE  AnswerOK(Min(DOMAIN s.queue), s.answer)' /\ Min(DOMAIN s.queue) \in DOMAIN batches
  <2>1. DOMAIN batches \subseteq Nat
    BY LenProperties DEF BatchInv
  <2>2. Min(DOMAIN s.queue) \in DOMAIN batches /\ AnswerOK(Min(DOMAIN s.queue), s.answer)
    BY <1>4, <1>1, <2>1, MinIn DEF SyncOK
  <2>. QED  BY <2>2, AnswerKept
<1>5. ASSUME s.pc = "ack"
      PROVE  CopyOK(s.copy, DOMAIN s.answer.gens)'
  <2>1. AnswerOK(Min(DOMAIN s.queue), s.answer) /\ ~Refused(s.answer)
    BY <1>5 DEF SyncOK
  <2>2. DOMAIN s.answer.gens = WritePaths(batches[Min(DOMAIN s.queue)])
    BY <2>1 DEF AnswerOK
  <2>3. DOMAIN s.answer.gens \subseteq Paths
    BY <1>4, <1>5, <2>2, PathsOfIn DEF BatchInv, BatchOK, WritePaths
  <2>4. CopyOK(s.copy, DOMAIN s.answer.gens)
    BY <1>5 DEF SyncOK
  <2>. QED  BY <2>3, <2>4, CopyKept
<1>6. Refused(s.answer)' = Refused(s.answer)
  BY DEF Refused
<1>. QED
  BY <1>1, <1>2, <1>3, <1>4, <1>5, <1>6 DEF SyncOK, First

-----------------------------------------------------------------------------
(* The endpoint.                                                           *)

\* What a write makes of the log.
LEMMA GrownLog ==
  ASSUME LogTypes, NEW recs, DOMAIN recs \subseteq Keys, \A k \in DOMAIN recs : recs[k] \in Records,
         log' = Grown(recs)
  PROVE  /\ LogTypes' /\ Goes
         /\ \A p \in Paths : p \notin PathsOf(DOMAIN recs) => log'[p] = log[p]
         /\ \A p \in PathsOf(DOMAIN recs) : /\ p \in Paths /\ Gen(p)' = Gen(p) + 1
                                            /\ log'[p][Gen(p) + 1] = Over(recs, Latest(p))
<1>1. DOMAIN log' = Paths
  BY DEF Grown
<1>2. \A p \in Paths : p \notin PathsOf(DOMAIN recs) => log'[p] = log[p]
  BY DEF Grown
<1>3. ASSUME NEW p \in PathsOf(DOMAIN recs)
      PROVE  /\ p \in Paths /\ log'[p] \in Seq([KeysOf(p) -> Records])
             /\ Gen(p)' = Gen(p) + 1 /\ log'[p][Gen(p) + 1] = Over(recs, Latest(p))
             /\ \A g \in 1 .. Gen(p) : log'[p][g] = log[p][g]
  <2>1. p \in Paths
    BY PathsOfIn
  <2>2. log'[p] = Append(log[p], Over(recs, Latest(p)))
    BY <2>1 DEF Grown
  <2>3. Over(recs, Latest(p)) \in [KeysOf(p) -> Records]
    BY <2>1, LogFacts DEF Over
  <2>4. log[p] \in Seq([KeysOf(p) -> Records])
    BY <2>1 DEF LogTypes
  <2>. QED
    BY <2>1, <2>2, <2>3, <2>4, AppendProperties DEF Gen
<1>4. \A p \in Paths : Gen(p) \in Nat /\ Gen(p) > 0
  BY LogFacts DEF LogTypes
<1>5. \A p \in Paths : p \notin PathsOf(DOMAIN recs) => Gen(p)' = Gen(p)
  BY <1>2 DEF Gen
<1>6. \A p \in Paths : /\ Gen(p)' \in Nat /\ Gen(p)' > 0 /\ Gen(p) <= Gen(p)'
  <2>1. \A p \in Paths : Gen(p)' = Gen(p) \/ Gen(p)' = Gen(p) + 1
    BY <1>3, <1>5
  <2>2. SUFFICES ASSUME NEW p \in Paths
                 PROVE  /\ Gen(p)' \in Nat /\ Gen(p)' > 0 /\ Gen(p) <= Gen(p)'
    OBVIOUS
  <2>3. PICK y \in Nat : y = Gen(p) /\ y > 0
    BY <1>4
  <2>4. Gen(p)' = y \/ Gen(p)' = y + 1
    BY <2>1, <2>3
  <2>. QED  BY <2>3, <2>4
<1>7. LogTypes'
  <2>1. \A p \in Paths : log'[p] \in Seq([KeysOf(p) -> Records])
    BY <1>2, <1>3 DEF LogTypes
  <2>. QED  BY <1>1, <1>6, <2>1 DEF LogTypes, KeysOf, Records
<1>8. Goes
  BY <1>2, <1>3, <1>6 DEF Goes
<1>. QED
  BY <1>2, <1>3, <1>7, <1>8

\* The history of a directory goes on with later numbers.
LEMMA GrownInv ==
  ASSUME LogInv, NEW recs, DOMAIN recs \subseteq Keys, log' = Grown(recs), applied \subseteq applied',
         \A k \in DOMAIN recs : /\ recs[k] \in Records /\ Current(k).seq < recs[k].seq
                                /\ recs[k].by \in {0} \cup applied'
  PROVE  LogInv'
<1> USE DEF KeysOf
<1>1. LogTypes /\ LogTypes'
  BY GrownLog DEF LogInv
<1>2. ASSUME NEW p \in Paths, NEW k \in KeysOf(p), NEW g \in 1 .. Gen(p)', NEW h \in 1 .. Gen(p)', g <= h
      PROVE  log'[p][g][k] = log'[p][h][k] \/ log'[p][g][k].seq < log'[p][h][k].seq
  <2>1. CASE p \notin PathsOf(DOMAIN recs)
    <3>1. log'[p] = log[p] /\ Gen(p)' = Gen(p)
      BY <1>1, <2>1, GrownLog DEF Gen
    <3>2. log[p][g][k] = log[p][h][k] \/ log[p][g][k].seq < log[p][h][k].seq
      BY <1>2, <3>1 DEF LogInv
    <3>. QED  BY <3>1, <3>2
  <2>2. CASE p \in PathsOf(DOMAIN recs)
    <3>1. /\ Gen(p)' = Gen(p) + 1 /\ log'[p][Gen(p) + 1] = Over(recs, Latest(p))
          /\ \A i \in 1 .. Gen(p) : log'[p][i] = log[p][i]
      BY <1>1, <2>2, GrownLog DEF Goes
    <3>2. Gen(p) \in Nat /\ Gen(p) \in 1 .. Gen(p) /\ Latest(p) \in [KeysOf(p) -> Records]
      BY <1>1, LogFacts
    <3>3. CASE h \in 1 .. Gen(p)
      <4>1. g \in 1 .. Gen(p)
        BY <1>2, <3>2, <3>3
      <4>2. log[p][g][k] = log[p][h][k] \/ log[p][g][k].seq < log[p][h][k].seq
        BY <1>2, <3>3, <4>1 DEF LogInv
      <4>. QED  BY <3>1, <3>3, <4>1, <4>2
    <3>4. CASE h = Gen(p) + 1
      <4>1. CASE g = h
        BY <4>1
      <4>2. CASE g \in 1 .. Gen(p)
        <5>1. log'[p][g][k] = log[p][g][k] /\ log'[p][h][k] = Over(recs, Latest(p))[k]
          BY <3>1, <3>4, <4>2
        <5>2. log[p][g][k] = Latest(p)[k] \/ log[p][g][k].seq < Latest(p)[k].seq
          <6>1. g <= Gen(p)
            BY <3>2, <4>2
          <6>. QED  BY <3>2, <4>2, <6>1 DEF LogInv, Latest
        <5>3. Latest(p)[k].seq \in Int /\ log[p][g][k].seq \in Int
          <6>1. log[p][g] \in [KeysOf(p) -> Records]
            BY <1>1, <4>2, LogFacts
          <6>2. log[p][g][k] \in Records /\ Latest(p)[k] \in Records
            BY <3>2, <6>1
          <6>3. \A x \in Records : x.seq \in Int
            BY DEF Records
          <6>. QED  BY <6>2, <6>3
        <5>4. CASE k \notin DOMAIN recs
          BY <5>1, <5>2, <5>4, <3>2 DEF Over
        <5>5. CASE k \in DOMAIN recs
          <6>1. Latest(p)[k].seq < recs[k].seq /\ recs[k].seq \in Int
            BY <5>5 DEF Current, Records
          <6>2. Over(recs, Latest(p))[k] = recs[k]
            BY <3>2, <5>5 DEF Over
          <6>. QED  BY <5>1, <5>2, <5>3, <6>1, <6>2
        <5>. QED  BY <5>4, <5>5
      <4>. QED  BY <3>2, <3>4, <4>1, <4>2, <1>2, <3>1
    <3>. QED  BY <3>1, <3>2, <3>3, <3>4
  <2>. QED  BY <2>1, <2>2
<1>3. ASSUME NEW p \in Paths, NEW k \in KeysOf(p), NEW g \in 1 .. Gen(p)'
      PROVE  log'[p][g][k].by \in {0} \cup applied'
  <2>1. CASE p \notin PathsOf(DOMAIN recs)
    <3>1. log'[p] = log[p] /\ Gen(p)' = Gen(p)
      BY <1>1, <2>1, GrownLog DEF Gen
    <3>. QED  BY <3>1 DEF LogInv
  <2>2. CASE p \in PathsOf(DOMAIN recs)
    <3>1. /\ Gen(p)' = Gen(p) + 1 /\ log'[p][Gen(p) + 1] = Over(recs, Latest(p))
          /\ \A i \in 1 .. Gen(p) : log'[p][i] = log[p][i]
      BY <1>1, <2>2, GrownLog DEF Goes
    <3>2. Gen(p) \in Nat /\ Gen(p) \in 1 .. Gen(p) /\ Latest(p) \in [KeysOf(p) -> Records]
      BY <1>1, LogFacts
    <3>3. CASE g \in 1 .. Gen(p)
      BY <3>1, <3>3 DEF LogInv
    <3>4. CASE g = Gen(p) + 1
      <4>1. Over(recs, Latest(p))[k].by \in {0} \cup applied'
        <5>1. Latest(p)[k].by \in {0} \cup applied
          BY <3>2 DEF LogInv, Latest
        <5>. QED  BY <3>2, <5>1 DEF Over
      <4>. QED  BY <3>1, <3>4, <4>1
    <3>. QED  BY <3>1, <3>2, <3>3, <3>4
  <2>. QED  BY <2>1, <2>2
<1>. QED
  BY <1>1, <1>2, <1>3 DEF LogInv

\* The parts of a batch.
LEMMA BatchFacts ==
  ASSUME LogTypes, BatchInv, NEW n \in DOMAIN batches
  PROVE  LET b == batches[n]
         IN /\ n \in Nat /\ n # 0
            /\ DOMAIN b.recs \subseteq Keys /\ DOMAIN b.recs # {} /\ DOMAIN b.prev = DOMAIN b.recs
            /\ WritePaths(b) \subseteq Paths /\ DOMAIN b.gens = WritePaths(b)
            /\ \A p \in WritePaths(b) : Gen(p) \in Nat /\ b.gens[p] \in 1 .. Gen(p)
            /\ \A k \in DOMAIN b.recs : /\ PathOf[k] \in WritePaths(b) /\ k \in KeysOf(PathOf[k])
                                        /\ b.recs[k] \in Records /\ b.recs[k].by = n
<1>1. DOMAIN batches = 1 .. Len(batches) /\ Len(batches) \in Nat
  BY LenProperties DEF BatchInv
<1>2. BatchOK(batches[n], n)
  BY DEF BatchInv
<1>3. WritePaths(batches[n]) \subseteq Paths
  BY <1>2, PathsOfIn DEF BatchOK, WritePaths
<1>4. \A p \in WritePaths(batches[n]) : Gen(p) \in Nat /\ batches[n].gens[p] \in 1 .. Gen(p)
  BY <1>2, <1>3, LogFacts DEF BatchOK
<1>5. \A k \in DOMAIN batches[n].recs : /\ PathOf[k] \in WritePaths(batches[n])
                                        /\ k \in KeysOf(PathOf[k])
  BY <1>2 DEF BatchOK, WritePaths, PathsOf, KeysOf
<1>. QED
  BY <1>1, <1>2, <1>3, <1>4, <1>5 DEF BatchOK

LEMMA CurrentBy ==
  ASSUME LogInv, NEW k \in Keys
  PROVE  Current(k).by \in {0} \cup applied /\ Current(k) \in Records
<1>1. PathOf[k] \in Paths /\ k \in KeysOf(PathOf[k])
  BY PathIn DEF KeysOf
<1>2. Gen(PathOf[k]) \in 1 .. Gen(PathOf[k]) /\ Latest(PathOf[k]) \in [KeysOf(PathOf[k]) -> Records]
  BY <1>1, LogFacts DEF LogInv
<1>. QED
  BY <1>1, <1>2 DEF LogInv, Current, Latest

\* A record of a batch is in place only when the batch was applied.
LEMMA ExactApplied ==
  ASSUME LogInv, BatchInv, NEW n \in DOMAIN batches, Exact(batches[n]) # {}
  PROVE  n \in applied
<1>1. PICK k \in DOMAIN batches[n].recs : Current(k) = batches[n].recs[k]
  BY DEF Exact
<1>2. n # 0 /\ k \in Keys /\ Current(k).by = n
  BY <1>1, BatchFacts DEF LogInv
<1>. QED
  BY <1>2, CurrentBy

\* A refusal has a rival.
LEMMA ConflictRival ==
  ASSUME LogInv, BatchInv, NEW n \in DOMAIN batches, Reply(n) = "conflict"
  PROVE  Rival(n)
<1> DEFINE b == batches[n]
<1>0. /\ \A p \in WritePaths(b) : p \in Paths /\ Gen(p) \in Nat /\ b.gens[p] \in 1 .. Gen(p)
      /\ \A k \in DOMAIN b.recs : PathOf[k] \in WritePaths(b) /\ k \in KeysOf(PathOf[k])
      /\ DOMAIN b.prev = DOMAIN b.recs
  BY BatchFacts DEF LogInv
<1>1. CASE n \in applied
  <2>1. AppliedOK(b)
    BY <1>1 DEF BatchInv
  <2>2. SUFFICES ASSUME \A p \in WritePaths(b) : ~(Gen(p) > b.gens[p] + 1)
                 PROVE  FALSE
    BY <1>1 DEF Rival
  <2>3. \A p \in WritePaths(b) : Gen(p) = b.gens[p] + 1
    BY <1>0, <2>1, <2>2 DEF AppliedOK
  <2>4. \A k \in DOMAIN b.recs : Current(k) = b.recs[k]
    BY <1>0, <2>1, <2>3 DEF AppliedOK, Current, Latest
  <2>5. Exact(b) = DOMAIN b.recs
    BY <2>4 DEF Exact
  <2>. QED  BY <2>5 DEF Reply
<1>2. CASE n \notin applied
  <2>1. Exact(b) = {}
    BY <1>2, ExactApplied
  <2>2. SUFFICES ASSUME b.sound, \A p \in WritePaths(b) : ~(Gen(p) > b.gens[p])
                 PROVE  FALSE
    BY <1>0, <1>2 DEF Rival
  <2>3. \A p \in WritePaths(b) : Gen(p) = b.gens[p]
    BY <1>0, <2>2
  <2>4. \A k \in DOMAIN b.prev : b.prev[k] = AtGeneration(k, b.gens[PathOf[k]])
    BY <2>2 DEF BatchInv, BatchOK
  <2>5. \A k \in DOMAIN b.recs : Current(k) = b.prev[k]
    BY <1>0, <2>3, <2>4 DEF AtGeneration, Current, Latest
  <2>6. Accepts(b)
    BY <2>3, <2>5 DEF Accepts
  <2>. QED  BY <2>1, <2>6 DEF Reply
<1>. QED
  BY <1>1, <1>2

\* The endpoint applies a batch.
LEMMA AppliedStep ==
  ASSUME LogInv, BatchInv, NEW n \in DOMAIN batches, Reply(n) = "applied",
         Handle(n), batches' = batches
  PROVE  /\ Later /\ LogInv' /\ BatchInv' /\ n \in applied'
         /\ \A p \in WritePaths(batches[n]) : Len(LogAfter(n)[p]) \in 1 .. Gen(p)'
         /\ \A k \in DOMAIN batches[n].recs :
               log'[PathOf[k]][Len(LogAfter(n)[PathOf[k]])][k] = batches[n].recs[k]
<1> DEFINE b == batches[n]
<1>0. /\ n \in Nat /\ n # 0 /\ DOMAIN b.recs \subseteq Keys /\ DOMAIN b.prev = DOMAIN b.recs
      /\ \A p \in WritePaths(b) : p \in Paths /\ Gen(p) \in Nat /\ b.gens[p] \in 1 .. Gen(p)
      /\ \A k \in DOMAIN b.recs : /\ PathOf[k] \in WritePaths(b) /\ k \in KeysOf(PathOf[k])
                                  /\ b.recs[k] \in Records /\ b.recs[k].by = n
  BY BatchFacts DEF LogInv
<1>1. Exact(b) = {} /\ Accepts(b)
  BY DEF Reply
<1>2. log' = Grown(b.recs) /\ LogAfter(n) = log' /\ applied' = applied \cup {n}
  BY DEF Handle, LogAfter
<1>3. \A p \in WritePaths(b) : Gen(p) = b.gens[p]
  BY <1>1 DEF Accepts
<1>4. \A k \in DOMAIN b.recs : Current(k).seq < b.recs[k].seq
  <2>1. SUFFICES ASSUME NEW k \in DOMAIN b.recs PROVE Current(k).seq < b.recs[k].seq
    OBVIOUS
  <2>2. Current(k) = b.prev[k] /\ b.recs[k].seq = b.prev[k].seq + 1 /\ b.prev[k] \in Records
    BY <1>1 DEF Accepts, BatchInv, BatchOK
  <2>3. b.prev[k].seq \in Nat
    BY <2>2 DEF Records
  <2>. QED  BY <2>2, <2>3
<1>5. /\ LogTypes' /\ Goes
      /\ \A p \in Paths : p \notin PathsOf(DOMAIN b.recs) => log'[p] = log[p]
      /\ \A p \in PathsOf(DOMAIN b.recs) : /\ p \in Paths /\ Gen(p)' = Gen(p) + 1
                                           /\ log'[p][Gen(p) + 1] = Over(b.recs, Latest(p))
  <2> HIDE DEF b
  <2>. QED  BY <1>0, <1>2, GrownLog DEF LogInv
<1>6. LogInv'
  <2> HIDE DEF b
  <2>. QED  BY <1>0, <1>2, <1>4, GrownInv
<1>7. Later
  BY <1>2, <1>3, <1>5, <1>0 DEF Later
<1>8. AppliedOK(b)'
  <2>1. WritePaths(b)' = WritePaths(b) /\ WritePaths(b) = PathsOf(DOMAIN b.recs)
    BY DEF WritePaths, PathsOf
  <2>2. SUFFICES ASSUME NEW p \in WritePaths(b)
                 PROVE  /\ b.gens[p] + 1 \in 1 .. Gen(p)'
                        /\ \A k \in KeysOf(p) : log'[p][b.gens[p] + 1][k] =
                              IF k \in DOMAIN b.recs THEN b.recs[k] ELSE log'[p][b.gens[p]][k]
    BY <2>1 DEF AppliedOK, KeysOf
  <2>3. /\ p \in Paths /\ Gen(p) \in Nat /\ Gen(p) = b.gens[p] /\ Gen(p)' = Gen(p) + 1
        /\ log'[p][Gen(p) + 1] = Over(b.recs, Latest(p)) /\ Gen(p) \in 1 .. Gen(p)
        /\ Latest(p) \in [KeysOf(p) -> Records]
    BY <1>0, <1>3, <1>5, <2>1, LogFacts DEF LogInv
  <2>4. log'[p][Gen(p)] = Latest(p)
    BY <2>3, <1>5 DEF Goes, Latest
  <2>. QED  BY <2>3, <2>4 DEF Over
<1>9. BatchInv'
  <2>1. \A m \in DOMAIN batches : BatchOK(batches[m], m)'
    BY <1>7, BatchKept DEF BatchInv, LogInv
  <2>2. \A m \in applied : AppliedOK(batches[m])'
    <3>1. SUFFICES ASSUME NEW m \in applied PROVE AppliedOK(batches[m])'
      OBVIOUS
    <3>2. PICK c : c = batches[m]
      OBVIOUS
    <3>3. BatchOK(c, m) /\ AppliedOK(c)
      BY <3>2 DEF BatchInv
    <3>4. AppliedOK(c)'
      BY <3>3, <1>7, AppliedKept DEF LogInv
    <3>. QED  BY <3>2, <3>4
  <2>3. \A m \in applied' : m \in DOMAIN batches /\ AppliedOK(batches[m])'
    BY <1>2, <1>8, <2>2 DEF BatchInv
  <2>. QED  BY <2>1, <2>3 DEF BatchInv
<1>10. \A p \in WritePaths(b) : Len(LogAfter(n)[p]) = Gen(p)' /\ Gen(p)' \in 1 .. Gen(p)'
  BY <1>0, <1>2, <1>5 DEF Gen, WritePaths
<1>11. \A k \in DOMAIN b.recs : log'[PathOf[k]][Gen(PathOf[k])'][k] = b.recs[k]
  <2>1. SUFFICES ASSUME NEW k \in DOMAIN b.recs
                 PROVE  log'[PathOf[k]][Gen(PathOf[k])'][k] = b.recs[k]
    OBVIOUS
  <2>2. PathOf[k] \in PathsOf(DOMAIN b.recs) /\ PathOf[k] \in Paths /\ k \in KeysOf(PathOf[k])
    BY <1>0 DEF WritePaths
  <2>3. Latest(PathOf[k]) \in [KeysOf(PathOf[k]) -> Records]
    BY <2>2, LogFacts DEF LogInv
  <2>. QED  BY <1>5, <2>2, <2>3 DEF Over
<1>. QED
  BY <1>2, <1>6, <1>7, <1>9, <1>10, <1>11, <1>0

LEMMA SubmitStep ==
  ASSUME LogInv, BatchInv, NEW n \in DOMAIN batches, NEW a, Submits(n, a), batches' = batches
  PROVE  Later /\ LogInv' /\ BatchInv' /\ AnswerOK(n, a)' /\ remote' = remote
<1>1. remote' = remote
  BY DEF Submits, Handle
<1>2. CASE UNCHANGED <<log, applied>>
  <2>1. Later
    BY <1>2, Calm DEF LogInv
  <2>2. LogInv'
    BY <1>2, SameLog
  <2>3. BatchInv'
    BY <1>2, SameBatches
  <2>4. ASSUME a = Failed PROVE AnswerOK(n, a)'
    BY <2>4 DEF AnswerOK, Failed, Refused
  <2>5. ASSUME a = Answer(n), Reply(n) # "applied" PROVE AnswerOK(n, a)'
    <3>1. a.kind = Reply(n) /\ a.gens = [p \in WritePaths(batches[n]) |-> Gen(p)]
      BY <2>5 DEF Answer, LogAfter, Gen
    <3>2. Reply(n) = "conflict" => AnswerOK(n, a)
      BY <3>1, ConflictRival DEF AnswerOK, Refused
    <3>3. ASSUME Reply(n) = "exact" PROVE AnswerOK(n, a)
      <4>1. Exact(batches[n]) = DOMAIN batches[n].recs
        BY <3>3 DEF Reply
      <4>2. n \in applied
        BY <4>1, ExactApplied, BatchFacts DEF LogInv
      <4>3. \A p \in DOMAIN a.gens : a.gens[p] \in 1 .. Gen(p)
        BY <3>1, BatchFacts, LogFacts DEF LogInv
      <4>4. \A k \in DOMAIN batches[n].recs :
               log[PathOf[k]][a.gens[PathOf[k]]][k] = batches[n].recs[k]
        BY <3>1, <4>1, BatchFacts DEF LogInv, Exact, Current, Latest
      <4>. QED  BY <3>1, <3>3, <4>2, <4>3, <4>4 DEF AnswerOK, Refused
    <3>4. AnswerOK(n, a)
      BY <2>5, <3>2, <3>3 DEF Reply
    <3>. QED  BY <2>1, <3>4, AnswerKept DEF LogInv
  <2>6. ASSUME a = Answer(n), Reply(n) = "applied" PROVE AnswerOK(n, a)'
    <3>1. n \in applied'
      BY <2>6, <1>2 DEF Submits, Handle, Answer, Failed
    <3>2. n \in applied
      BY <3>1, <1>2
    <3>3. PICK p \in WritePaths(batches[n]) : TRUE
      BY BatchFacts DEF LogInv
    <3>4. Gen(p) = batches[n].gens[p] /\ Gen(p) \in Nat
      BY <2>6, BatchFacts DEF Reply, Accepts, LogInv
    <3>5. batches[n].gens[p] + 1 \in 1 .. Gen(p)
      BY <3>2 DEF BatchInv, AppliedOK
    <3>. QED  BY <3>4, <3>5
  <2>7. a = Failed \/ a = Answer(n)
    BY DEF Submits
  <2>8. AnswerOK(n, a)'
    BY <2>4, <2>5, <2>6, <2>7
  <2>. QED  BY <1>1, <2>1, <2>2, <2>3, <2>8
<1>3. CASE Handle(n) /\ Reply(n) = "applied"
  <2>1. /\ Later /\ LogInv' /\ BatchInv' /\ n \in applied'
        /\ \A p \in WritePaths(batches[n]) : Len(LogAfter(n)[p]) \in 1 .. Gen(p)'
        /\ \A k \in DOMAIN batches[n].recs :
              log'[PathOf[k]][Len(LogAfter(n)[PathOf[k]])][k] = batches[n].recs[k]
    BY <1>3, AppliedStep
  <2>2. ASSUME a = Failed PROVE AnswerOK(n, a)'
    BY <2>2 DEF AnswerOK, Failed, Refused
  <2>3. ASSUME a = Answer(n) PROVE AnswerOK(n, a)'
    <3>1. a.kind = "applied" /\ a.gens = [p \in WritePaths(batches[n]) |-> Len(LogAfter(n)[p])]
      BY <1>3, <2>3 DEF Answer
    <3>2. \A k \in DOMAIN batches[n].recs : PathOf[k] \in WritePaths(batches[n])
      BY BatchFacts DEF LogInv
    <3>3. WritePaths(batches[n])' = WritePaths(batches[n])
      BY DEF WritePaths, PathsOf
    <3>. QED
      BY <2>1, <3>1, <3>2, <3>3 DEF AnswerOK, Refused
  <2>. QED  BY <1>1, <2>1, <2>2, <2>3 DEF Submits
<1>4. CASE Handle(n) /\ Reply(n) # "applied"
  <2>1. UNCHANGED <<log, applied>>
    BY <1>4 DEF Handle, LogAfter
  <2>. QED  BY <1>2, <2>1
<1>. QED
  BY <1>2, <1>3, <1>4 DEF Submits

-----------------------------------------------------------------------------
(* The store.                                                              *)

\* What a step of the store leaves alone.
LEMMA OutboxKept ==
  ASSUME LogInv, BatchInv, OutboxInv, Later, outbox' = outbox, batches' = batches
  PROVE  OutboxInv'
<1>1. \A n \in DOMAIN outbox : outbox[n] = "conflict" => Rival(n)'
  BY RivalKept DEF OutboxInv, LogInv
<1>. QED
  BY <1>1 DEF OutboxInv, Later

LEMMA StateSet ==
  ASSUME LogInv, BatchInv, OutboxInv, Later, batches' = batches,
         NEW n \in DOMAIN batches, NEW s \in States, s = "conflict" => Rival(n)',
         outbox' = SetState(n, s)
  PROVE  OutboxInv'
<1>1. DOMAIN outbox' = DOMAIN outbox \cup {n}
  BY DEF SetState
<1>2. \A m \in DOMAIN outbox' : outbox'[m] = IF m = n THEN s ELSE outbox[m]
  BY DEF SetState
<1>3. \A m \in DOMAIN outbox : outbox[m] = "conflict" => Rival(m)'
  BY RivalKept DEF OutboxInv, LogInv
<1>. QED
  BY <1>1, <1>2, <1>3 DEF OutboxInv, Later

LEMMA FailureNoted ==
  ASSUME LogInv, BatchInv, OutboxInv, UNCHANGED <<log, applied, batches>>,
         NEW n \in DOMAIN batches, NEW a, AnswerOK(n, a), outbox' = FailureState(n, a.kind)
  PROVE  OutboxInv'
<1>1. Later
  BY Calm DEF LogInv
<1>2. a.kind = "conflict" => Rival(n)'
  BY <1>1, AnswerKept DEF AnswerOK, LogInv
<1>3. PICK s \in States : s = IF a.kind = "conflict" THEN "conflict" ELSE "error"
  BY DEF States
<1>. QED
  BY <1>1, <1>2, <1>3, StateSet DEF FailureState

LEMMA Forgotten ==
  ASSUME LogInv, BatchInv, OutboxInv, UNCHANGED <<log, applied, batches>>,
         NEW n \in applied, outbox' = Acked(n)
  PROVE  OutboxInv'
<1>1. Later
  BY Calm DEF LogInv
<1>2. \A m \in DOMAIN outbox : outbox[m] = "conflict" => Rival(m)'
  BY <1>1, RivalKept DEF OutboxInv, LogInv
<1>3. DOMAIN outbox' = DOMAIN outbox \ {n} /\ \A m \in DOMAIN outbox' : outbox'[m] = outbox[m]
  BY DEF Acked
<1>. QED
  BY <1>2, <1>3 DEF OutboxInv

LEMMA ReplicaKept ==
  ASSUME LogInv, ReplicaInv, Later, UNCHANGED <<confirmed, base, meta, mixed>>
  PROVE  ReplicaInv'
<1>1. \A k \in Keys : confirmed[k] \in Served(k)'
  BY ServedKept DEF ReplicaInv, LogInv
<1>2. \A p \in Paths : /\ base[p] \in 0 .. Gen(p)' /\ meta[p] \in 0 .. Gen(p)'
                       /\ base[p] # 0 => log'[p][base[p]] = log[p][base[p]]
  BY LogFacts DEF ReplicaInv, LogInv, Later, Goes
<1>3. \A p \in Paths \ mixed : base[p] # 0 => \A k \in KeysOf(p) : confirmed[k] = AtGeneration(k, base[p])'
  BY <1>2 DEF ReplicaInv, AtGeneration, KeysOf
<1>. QED
  BY <1>1, <1>2, <1>3 DEF ReplicaInv, KeysOf

\* A batch that was applied is merged into the replica that was loaded: a
\* directory is as it should be when nothing was written to it in between, and
\* the batch is already in its baseline or makes the next one.
LEMMA Merged ==
  ASSUME LogInv, BatchInv, ReplicaInv, UNCHANGED <<log, applied, batches>>,
         NEW n \in DOMAIN batches, NEW a, ~Refused(a), AnswerOK(n, a),
         NEW c, CopyOK(c, DOMAIN a.gens),
         confirmed' = Over(Over(batches[n].recs, c.recs), confirmed),
         base' = Over(a.gens, base), meta' \in {meta, Over(a.gens, meta)},
         \A p \in Paths \ mixed' :
            /\ p \notin mixed
            /\ p \in DOMAIN a.gens =>
                  /\ p \in CopyOf(c, DOMAIN a.gens)
                  /\ \/ a.gens[p] = base[p]
                     \/ /\ a.gens[p] = base[p] + 1 /\ batches[n].gens[p] = base[p]
                        /\ meta' = Over(a.gens, meta)
  PROVE  ReplicaInv'
<1> DEFINE b == batches[n]
           P == DOMAIN a.gens
<1>1. /\ n \in applied /\ P = WritePaths(b) /\ P \subseteq Paths
      /\ \A p \in P : a.gens[p] \in 1 .. Gen(p)
      /\ \A k \in DOMAIN b.recs : log[PathOf[k]][a.gens[PathOf[k]]][k] = b.recs[k]
  BY BatchFacts DEF AnswerOK, LogInv
<1>2. DOMAIN b.recs \subseteq Keys /\ \A k \in DOMAIN b.recs : PathOf[k] \in P
  BY <1>1, BatchFacts DEF LogInv
<1>3. DOMAIN c.recs = {k \in Keys : PathOf[k] \in P} /\ \A k \in DOMAIN c.recs : c.recs[k] \in Served(k)
  BY DEF CopyOK
<1>4. /\ DOMAIN confirmed' = Keys
      /\ \A k \in Keys : confirmed'[k] = IF PathOf[k] \in P
                                         THEN IF k \in DOMAIN b.recs THEN b.recs[k] ELSE c.recs[k]
                                         ELSE confirmed[k]
  BY <1>2, <1>3 DEF Over, ReplicaInv
<1>5. \A k \in Keys : confirmed'[k] \in Served(k)
  <2>1. SUFFICES ASSUME NEW k \in Keys PROVE confirmed'[k] \in Served(k)
    OBVIOUS
  <2>2. CASE PathOf[k] \in P /\ k \in DOMAIN b.recs
    <3>1. b.recs[k] = log[PathOf[k]][a.gens[PathOf[k]]][k] /\ a.gens[PathOf[k]] \in 1 .. Gen(PathOf[k])
      BY <1>1, <2>2
    <3>2. b.recs[k] \in Served(k)
      BY <3>1 DEF Served
    <3>. QED  BY <1>4, <2>2, <3>2
  <2>3. CASE PathOf[k] \in P /\ k \notin DOMAIN b.recs
    BY <1>3, <1>4, <2>3
  <2>4. CASE PathOf[k] \notin P
    BY <1>4, <2>4 DEF ReplicaInv
  <2>. QED  BY <2>2, <2>3, <2>4
<1>6. /\ DOMAIN base' = Paths /\ DOMAIN meta' = Paths
      /\ \A p \in Paths : /\ base'[p] = IF p \in P THEN a.gens[p] ELSE base[p]
                          /\ meta'[p] \in {meta[p]} \cup (IF p \in P THEN {a.gens[p]} ELSE {})
                          /\ meta' = Over(a.gens, meta) /\ p \in P => meta'[p] = a.gens[p]
  BY DEF Over, ReplicaInv
<1>7. \A p \in Paths : base'[p] \in 0 .. Gen(p) /\ meta'[p] \in 0 .. Gen(p)
  BY <1>1, <1>6, LogFacts DEF ReplicaInv, LogInv
<1>8. ASSUME NEW p \in Paths \ mixed', base'[p] # 0
      PROVE  meta'[p] = base'[p] /\ \A k \in KeysOf(p) : confirmed'[k] = AtGeneration(k, base'[p])
  <2>1. p \in Paths \ mixed
    OBVIOUS
  <2>2. CASE p \notin P
    <3>1. base'[p] = base[p] /\ meta'[p] = meta[p]
      BY <1>6, <2>2
    <3>2. \A k \in KeysOf(p) : k \in Keys /\ confirmed'[k] = confirmed[k]
      BY <1>4, <2>2 DEF KeysOf
    <3>. QED  BY <1>8, <2>1, <3>1, <3>2 DEF ReplicaInv
  <2>3. CASE p \in P
    <3>1. /\ \A k \in KeysOf(p) : c.recs[k] = confirmed[k]
          /\ \/ a.gens[p] = base[p]
             \/ /\ a.gens[p] = base[p] + 1 /\ b.gens[p] = base[p] /\ meta' = Over(a.gens, meta)
      BY <2>3 DEF CopyOf
    <3>2. base'[p] = a.gens[p] /\ a.gens[p] \in 1 .. Gen(p) /\ base[p] \in 0 .. Gen(p) /\ Gen(p) \in Nat
      BY <1>1, <1>6, <2>3, LogFacts DEF LogInv, ReplicaInv
    <3>3. b.gens[p] \in 1 .. Gen(p)
      BY <1>1, <2>3, BatchFacts DEF LogInv
    <3>4. base[p] # 0
      BY <3>1, <3>2, <3>3
    <3>5. meta[p] = base[p] /\ \A k \in KeysOf(p) : confirmed[k] = log[p][base[p]][k]
      BY <2>1, <3>4 DEF ReplicaInv, AtGeneration, KeysOf
    <3>6. \A k \in KeysOf(p) : k \in Keys /\ PathOf[k] = p
      BY DEF KeysOf
    <3>7. \A k \in KeysOf(p) : confirmed'[k] = IF k \in DOMAIN b.recs THEN b.recs[k] ELSE log[p][base[p]][k]
      BY <1>4, <2>3, <3>1, <3>5, <3>6
    <3>8. meta'[p] = a.gens[p]
      BY <1>6, <2>3, <3>1, <3>5
    <3>9. \A k \in KeysOf(p) : k \notin DOMAIN b.recs => log[p][a.gens[p]][k] = log[p][base[p]][k]
      <4>1. CASE a.gens[p] = base[p]
        BY <4>1
      <4>2. CASE a.gens[p] = base[p] + 1 /\ b.gens[p] = base[p]
        <5>1. AppliedOK(b)
          BY <1>1 DEF BatchInv
        <5>. QED  BY <1>1, <2>3, <4>2, <5>1 DEF AppliedOK
      <4>. QED  BY <3>1, <4>1, <4>2
    <3>. QED
      BY <1>1, <3>2, <3>6, <3>7, <3>8, <3>9 DEF AtGeneration
  <2>. QED  BY <2>2, <2>3
<1> HIDE DEF b, P
<1>9. \A k \in Keys : Served(k)' = Served(k)
  BY DEF Served, Gen
<1>10. \A p \in Paths : Gen(p)' = Gen(p)
  BY DEF Gen
<1>11. \A k, g : AtGeneration(k, g)' = log[PathOf[k]][g][k]
  BY DEF AtGeneration
<1>. QED
  BY <1>4, <1>5, <1>6, <1>7, <1>8, <1>9, <1>10, <1>11 DEF ReplicaInv, KeysOf, AtGeneration

LEMMA AckStep ==
  ASSUME LogInv, BatchInv, OutboxInv, ReplicaInv, OtherTypes, UNCHANGED <<log, applied, batches>>,
         NEW n \in DOMAIN batches, NEW a, ~Refused(a), AnswerOK(n, a),
         NEW c, CopyOK(c, DOMAIN a.gens), Ack(n, c, a.gens)
  PROVE  /\ OutboxInv' /\ ReplicaInv' /\ mixed' \subseteq Paths
         /\ session' \in [Paths -> {"none", "idle", "prepared", "confirmed"}]
<1>1. n \in applied /\ DOMAIN a.gens \subseteq Paths
  BY BatchFacts DEF AnswerOK, LogInv
<1>2. OutboxInv'
  BY <1>1, Forgotten DEF Ack
<1>3. ReplicaInv'
  <2>1. \A p \in Paths \ mixed' :
           /\ p \notin mixed
           /\ p \in DOMAIN a.gens =>
                 /\ p \in CopyOf(c, DOMAIN a.gens)
                 /\ \/ a.gens[p] = base[p]
                    \/ a.gens[p] = base[p] + 1 /\ batches[n].gens[p] = base[p]
    BY DEF Ack
  <2>2. /\ confirmed' = Over(Over(batches[n].recs, c.recs), confirmed)
        /\ base' = Over(a.gens, base) /\ meta' = Over(a.gens, meta)
    BY DEF Ack
  <2>. QED  BY <2>1, <2>2, Merged
<1>4. mixed' \subseteq Paths
  BY <1>1 DEF Ack, OtherTypes
<1>5. session' \in [Paths -> {"none", "idle", "prepared", "confirmed"}]
  BY DEF Ack, OtherTypes
<1>. QED
  BY <1>2, <1>3, <1>4, <1>5

-----------------------------------------------------------------------------
(* Writers and passes.                                                     *)

LEMMA AwayOK == WriterOK(Away) /\ WriterOK(Away)'
BY DEF WriterOK, Away

LEMMA IdleOK == SyncOK(NoPass) /\ SyncOK(NoPass)'
BY DEF SyncOK, NoPass, NoQueue

\* A step that is taken by a writer alone.
LEMMA WriterPc ==
  ASSUME NEW r, DOMAIN r = DOMAIN Away, NEW v, NEW q, q = [r EXCEPT !.pc = v]
  PROVE  /\ DOMAIN q = DOMAIN Away /\ q.pc = v /\ q.reads = r.reads /\ q.writes = r.writes
         /\ q.got = r.got /\ q.n = r.n /\ q.answer = r.answer /\ q.copy = r.copy
BY DEF Away

LEMMA WriterSame ==
  ASSUME LogTypes, BatchInv, WriterInv, Later, writer' = writer
  PROVE  WriterInv'
BY WriterKept DEF WriterInv

LEMMA WriterSet ==
  ASSUME LogTypes, BatchInv, WriterInv, Later, NEW w, NEW r, w \in Writers => WriterOK(r)',
         writer' = [writer EXCEPT ![w] = r]
  PROVE  WriterInv'
<1>2. DOMAIN writer' = Writers
  BY DEF WriterInv
<1>3. ASSUME NEW v \in Writers PROVE WriterOK(writer[v])'
  <2>1. PICK x : x = writer[v]
    OBVIOUS
  <2>2. PICK y : y = writer'[v]
    OBVIOUS
  <2>3. WriterOK(x)'
    BY <2>1, WriterKept DEF WriterInv
  <2>4. y = IF v = w THEN r ELSE x
    BY <2>1, <2>2 DEF WriterInv
  <2>5. WriterOK(y)'
    BY <2>3, <2>4
  <2>. QED  BY <2>2, <2>5
<1>. QED
  BY <1>2, <1>3 DEF WriterInv

LEMMA SyncSame ==
  ASSUME LogTypes, BatchInv, SyncInv, Later, sync' = sync
  PROVE  SyncInv'
<1>1. PICK s : s = sync
  OBVIOUS
<1>2. SyncOK(s)'
  BY <1>1, SyncKept DEF SyncInv
<1>3. sync' = s
  BY <1>1
<1>. QED
  BY <1>2, <1>3 DEF SyncInv

LEMMA SyncSet ==
  ASSUME NEW s, SyncOK(s)', sync' = s
  PROVE  SyncInv'
BY DEF SyncInv

\* A pass turns to the first of some directories.
LEMMA StartOK ==
  ASSUME NEW b \in Writers \cup {Worker, Nobody}, NEW T \in SUBSET DOMAIN PathOrder, T # {},
         NEW s, s = [NoPass EXCEPT !.by = b, !.pc = "meta", !.todo = T]
  PROVE  SyncOK(s)'
<1>1. /\ DOMAIN s = DOMAIN NoPass /\ s.by = b /\ s.pc = "meta" /\ s.todo = T
      /\ s.queue = NoQueue
  BY DEF NoPass
<1>2. DOMAIN NoQueue = {}
  BY DEF NoQueue
<1>. QED
  BY <1>1, <1>2 DEF SyncOK

\* It goes on to a step that has nothing in hand.
LEMMA StepOK ==
  ASSUME LogTypes, BatchInv, Later, NEW s, SyncOK(s), s.pc # "idle",
         NEW v \in {"snapshot", "overlay", "outbox"}, NEW q, q = [s EXCEPT !.pc = v]
  PROVE  SyncOK(q)'
<1>1. /\ DOMAIN q = DOMAIN NoPass /\ q.by = s.by /\ q.pc = v /\ q.todo = s.todo /\ q.queue = s.queue
  BY DEF NoPass, SyncOK
<1>2. SyncOK(s)'
  BY SyncKept
<1>. QED
  BY <1>1, <1>2 DEF SyncOK

LEMMA UnlockedType ==
  ASSUME OtherTypes, NEW w
  PROVE  Unlocked(w) \in [Paths -> Writers \cup {Nobody}]
BY DEF OtherTypes, Unlocked

LEMMA LockedType ==
  ASSUME OtherTypes, NEW w \in Writers
  PROVE  Locked(w) \in [Paths -> Writers \cup {Nobody}]
BY DEF OtherTypes, Locked

LEMMA PassEnds ==
  ASSUME LogTypes, BatchInv, WriterInv, SyncInv, Waits, OtherTypes, Later, sync.pc # "idle",
         NEW ok \in BOOLEAN, EndPass(ok)
  PROVE  /\ WriterInv' /\ SyncInv' /\ Waits' /\ watching' \in BOOLEAN
         /\ lock' \in [Paths -> Writers \cup {Nobody}]
<1>1. SyncInv'
  <2>1. PICK s : s = NoPass /\ SyncOK(s)'
    BY IdleOK
  <2>. QED  BY <2>1, SyncSet DEF EndPass
<1>9. Waits'
  BY DEF EndPass, NoPass, Waits
<1>2. CASE sync.by = Worker
  <2>1. writer' = writer /\ lock' = lock /\ watching' = ok
    BY <1>2 DEF EndPass
  <2>. QED  BY <1>1, <1>9, <2>1, WriterSame DEF OtherTypes
<1>3. CASE sync.by # Worker
  <2>1. PICK w : w = sync.by
    OBVIOUS
  <2>2. PICK r : r = IF ok THEN [writer[w] EXCEPT !.pc = "lock"] ELSE Away
    OBVIOUS
  <2>3. writer' = [writer EXCEPT ![w] = r] /\ lock' = Unlocked(w) /\ watching' = watching
    BY <1>3, <2>1, <2>2 DEF EndPass
  <2>4. ASSUME w \in Writers PROVE WriterOK(r)'
    <3>1. CASE ~ok
      BY <2>2, <3>1, AwayOK
    <3>2. CASE ok
      <4>1. PICK x : x = writer[w] /\ WriterOK(x) /\ x.pc # "away"
        BY <1>3, <2>1, <2>4 DEF WriterInv, Waits
      <4>2. r = [x EXCEPT !.pc = "lock"] /\ DOMAIN x = DOMAIN Away
        BY <2>2, <3>2, <4>1 DEF WriterOK
      <4>3. DOMAIN r = DOMAIN Away /\ r.pc = "lock" /\ r.reads = x.reads /\ r.writes = x.writes
        BY <4>2, WriterPc
      <4>. QED  BY <3>2, <4>1, <4>3 DEF WriterOK
    <3>. QED  BY <3>1, <3>2
  <2>5. WriterInv'
    BY <2>3, <2>4, WriterSet
  <2>. QED  BY <1>1, <1>9, <2>3, <2>5, UnlockedType DEF OtherTypes
<1>. QED
  BY <1>2, <1>3

-----------------------------------------------------------------------------
(* The steps of a writer.                                                  *)

LEMMA CalmParts ==
  ASSUME LogInv, BatchInv, UNCHANGED <<log, applied, batches>>
  PROVE  Later /\ LogInv' /\ BatchInv' /\ LogTypes
<1>1. Later /\ LogTypes
  BY Calm DEF LogInv
<1>2. LogInv'
  BY SameLog
<1>3. BatchInv'
  BY SameBatches
<1>. QED
  BY <1>1, <1>2, <1>3

\* A writer at a step of its own is not the one a pass belongs to.
LEMMA WaitsKept ==
  ASSUME Waits, WriterInv, NEW w \in Writers, writer[w].pc # "syncing", NEW r,
         writer' = [writer EXCEPT ![w] = r], sync' = sync
  PROVE  Waits'
BY DEF Waits, WriterInv

LEMMA LoadOK ==
  ASSUME LogInv, ReplicaInv, NEW P \in SUBSET Paths
  PROVE  CopyOK(Load(P), P)
BY DEF CopyOK, Load, Of, ReplicaInv

\* One that neither answers nor writes to the store.
LEMMA WriterMoves ==
  ASSUME Inv, NEW w \in Writers, NEW r, WriterOK(r)', writer' = [writer EXCEPT ![w] = r],
         writer[w].pc # "syncing",
         UNCHANGED <<log, remote, applied, batches, outbox, confirmed, base, meta, session, ready,
                     sync, watching, mixed, faults>>,
         lock' \in [Paths -> Writers \cup {Nobody}]
  PROVE  Inv'
<1> USE DEF Inv
<1>1. Later /\ LogInv' /\ BatchInv' /\ LogTypes
  BY CalmParts
<1>2. OutboxInv' /\ ReplicaInv'
  BY <1>1, OutboxKept, ReplicaKept
<1>3. WriterInv' /\ SyncInv' /\ Waits'
  BY <1>1, WriterSet, SyncSame, WaitsKept
<1>4. OtherTypes'
  BY DEF OtherTypes
<1>. QED
  BY <1>1, <1>2, <1>3, <1>4

LEMMA CallInv ==
  ASSUME Inv, NEW w \in Writers, NEW u \in Updates, Call(w, u)
  PROVE  Inv'
<1>1. PICK r : r = [Away EXCEPT !.pc = "wait", !.reads = u.reads, !.writes = u.writes]
  OBVIOUS
<1>2. DOMAIN r = DOMAIN Away /\ r.pc = "wait" /\ r.reads = u.reads /\ r.writes = u.writes
  BY <1>1 DEF Away
<1>3. WriterOK(r)'
  BY <1>2, UpdatesAssumption DEF WriterOK
<1>4. lock' \in [Paths -> Writers \cup {Nobody}]
  BY DEF Call, Inv, OtherTypes
<1>. QED
  BY <1>1, <1>3, <1>4, WriterMoves DEF Call

\* A step forward that only moves the place of the writer.
LEMMA GotoInv ==
  ASSUME Inv, NEW w \in Writers, writer[w].pc \notin {"away", "syncing"},
         NEW v \in {"lock", "read", "syncing"}, Goto(w, v)
  PROVE  \E r : WriterOK(r)' /\ writer' = [writer EXCEPT ![w] = r] /\ r.pc = v
<1>1. PICK x : x = writer[w] /\ WriterOK(x)
  BY DEF Inv, WriterInv
<1>2. PICK r : r = [x EXCEPT !.pc = v]
  OBVIOUS
<1>3. DOMAIN x = DOMAIN Away
  BY <1>1 DEF WriterOK
<1>4. DOMAIN r = DOMAIN Away /\ r.pc = v /\ r.reads = x.reads /\ r.writes = x.writes
  BY <1>2, <1>3, WriterPc
<1>5. WriterOK(r)'
  BY <1>1, <1>4 DEF WriterOK
<1>6. writer' = [writer EXCEPT ![w] = r]
  BY <1>1, <1>2 DEF Goto
<1>. QED
  BY <1>4, <1>5, <1>6

LEMMA WaitReadyInv ==
  ASSUME Inv, NEW w \in Writers, WaitReady(w)
  PROVE  Inv'
<1>1. PICK r : WriterOK(r)' /\ writer' = [writer EXCEPT ![w] = r]
  BY GotoInv DEF WaitReady
<1>2. lock' \in [Paths -> Writers \cup {Nobody}]
  BY DEF WaitReady, Inv, OtherTypes
<1>. QED
  BY <1>1, <1>2, WriterMoves DEF WaitReady

LEMMA LockPathsInv ==
  ASSUME Inv, NEW w \in Writers, LockPaths(w)
  PROVE  Inv'
<1>1. PICK r : WriterOK(r)' /\ writer' = [writer EXCEPT ![w] = r]
  BY GotoInv DEF LockPaths
<1>2. lock' \in [Paths -> Writers \cup {Nobody}]
  BY LockedType DEF LockPaths, Inv
<1>. QED
  BY <1>1, <1>2, WriterMoves DEF LockPaths

LEMMA SyncHereInv ==
  ASSUME Inv, NEW w \in Writers, SyncHere(w)
  PROVE  Inv'
<1> USE DEF Inv
<1>1. Later /\ LogInv' /\ BatchInv' /\ LogTypes
  BY CalmParts DEF SyncHere
<1>2. OutboxInv' /\ ReplicaInv'
  BY <1>1, OutboxKept, ReplicaKept DEF SyncHere
<1>3. PICK r : WriterOK(r)' /\ writer' = [writer EXCEPT ![w] = r] /\ r.pc = "syncing"
  BY GotoInv DEF SyncHere
<1>4. WriterInv'
  BY <1>1, <1>3, WriterSet
<1>5. SyncInv' /\ sync'.by = w
  <2>1. Places(PathsIn(w)) \subseteq DOMAIN PathOrder
    BY DEF Places
  <2>2. Places(PathsIn(w)) # {}
    <3>1. PICK k : k \in writer[w].reads /\ k \in Keys
      BY DEF WriterInv, WriterOK, SyncHere
    <3>2. PathOf[k] \in PathsIn(w) /\ PathOf[k] \in Paths
      BY <3>1, PathIn DEF PathsIn, PathsOf
    <3>. QED  BY <3>2 DEF Places, Paths, Range
  <2>3. PICK s : s = [NoPass EXCEPT !.by = w, !.pc = "meta", !.todo = Places(PathsIn(w))]
    OBVIOUS
  <2>4. SyncOK(s)'
    BY <2>1, <2>2, <2>3, StartOK
  <2>5. s.by = w
    BY <2>3 DEF NoPass
  <2>. QED  BY <2>3, <2>4, <2>5, SyncSet DEF SyncHere
<1>6. Waits'
  BY <1>3, <1>5 DEF Waits, WriterInv
<1>7. OtherTypes'
  BY LockedType DEF OtherTypes, SyncHere
<1>. QED
  BY <1>1, <1>2, <1>4, <1>5, <1>6, <1>7

LEMMA ReadRecordsInv ==
  ASSUME Inv, NEW w \in Writers, ReadRecords(w)
  PROVE  Inv'
<1>1. PICK x : x = writer[w] /\ WriterOK(x) /\ x.pc = "read"
  BY DEF Inv, WriterInv, ReadRecords
<1>2. CASE Confirmable(PathsIn(w))
  <2>0. PICK g : g = Of(confirmed, x.reads)
    OBVIOUS
  <2>1. PICK r : r = [x EXCEPT !.pc = "queue", !.got = g]
    OBVIOUS
  <2>2. /\ DOMAIN r = DOMAIN Away /\ r.pc = "queue" /\ r.reads = x.reads /\ r.writes = x.writes
        /\ r.got = Of(confirmed, x.reads)
    <3>1. DOMAIN x = DOMAIN Away
      BY <1>1 DEF WriterOK
    <3>. QED  BY <2>0, <2>1, <3>1 DEF Away
  <2>3. WriterOK(r)
    BY <1>1, <2>2 DEF WriterOK, Of, Inv, ReplicaInv
  <2>4. WriterOK(r)'
    BY <2>3, WriterKept, CalmParts DEF Inv, ReadRecords
  <2>5. writer' = [writer EXCEPT ![w] = r] /\ lock' = lock
    BY <1>1, <1>2, <2>0, <2>1 DEF ReadRecords
  <2>. QED
    BY <1>1, <2>4, <2>5, WriterMoves DEF ReadRecords, Inv, OtherTypes
<1>3. CASE ~Confirmable(PathsIn(w))
  <2>1. writer' = [writer EXCEPT ![w] = Away] /\ lock' = Unlocked(w)
    BY <1>3 DEF ReadRecords, Leave
  <2>2. PICK r : r = Away /\ WriterOK(r)'
    BY AwayOK
  <2>. QED
    BY <1>1, <2>1, <2>2, WriterMoves, UnlockedType DEF ReadRecords, Inv
<1>. QED
  BY <1>2, <1>3

\* The number of a record tells which one it is.
LEMMA OneNumber ==
  ASSUME LogInv, NEW k \in Keys, NEW x \in Served(k), NEW y \in Served(k), x.seq = y.seq
  PROVE  x = y
<1> DEFINE p == PathOf[k]
<1>1. p \in Paths /\ k \in KeysOf(p) /\ Gen(p) \in Nat
  BY PathIn, LogFacts DEF KeysOf, LogInv
<1>2. PICK g \in 1 .. Gen(p), h \in 1 .. Gen(p) : x = log[p][g][k] /\ y = log[p][h][k]
  BY DEF Served
<1>3. x.seq \in Nat /\ y.seq \in Nat
  <2>1. log[p][g] \in [KeysOf(p) -> Records] /\ log[p][h] \in [KeysOf(p) -> Records]
    BY <1>1, LogFacts DEF LogInv
  <2>2. x \in Records /\ y \in Records
    BY <1>1, <1>2, <2>1
  <2>. QED  BY <2>2 DEF Records
<1>4. CASE g <= h
  BY <1>1, <1>2, <1>3, <1>4 DEF LogInv
<1>5. CASE h <= g
  BY <1>1, <1>2, <1>3, <1>5 DEF LogInv
<1>. QED
  BY <1>1, <1>4, <1>5

\* A new batch is signed.
LEMMA NewBatch ==
  ASSUME LogInv, ReplicaInv, NEW K \in SUBSET Keys, K # {}, NEW got, K \subseteq DOMAIN got,
         \A k \in K : got[k] \in Served(k) /\ confirmed[k].seq = got[k].seq,
         Writable(PathsOf(K)), Confirmable(PathsOf(K)),
         NEW n \in Nat,
         NEW b, b = [recs |-> [k \in K |-> [seq |-> got[k].seq + 1, by |-> n]],
                     prev |-> Of(got, K), gens |-> Of(meta, PathsOf(K)),
                     sound |-> PathsOf(K) \cap mixed = {}]
  PROVE  BatchOK(b, n)
<1>1. /\ DOMAIN b.recs = K /\ DOMAIN b.prev = K /\ DOMAIN b.gens = PathsOf(K) /\ WritePaths(b) = PathsOf(K)
      /\ \A k \in K : b.recs[k] = [seq |-> got[k].seq + 1, by |-> n] /\ b.prev[k] = got[k]
      /\ \A p \in PathsOf(K) : b.gens[p] = meta[p]
      /\ b.sound => PathsOf(K) \cap mixed = {}
  BY DEF Of, WritePaths
<1>2. ASSUME NEW k \in K PROVE got[k] \in Records
  <2>1. PathOf[k] \in Paths /\ k \in KeysOf(PathOf[k])
    BY PathIn DEF KeysOf
  <2>2. PICK g \in 1 .. Gen(PathOf[k]) : got[k] = log[PathOf[k]][g][k]
    BY DEF Served
  <2>3. log[PathOf[k]][g] \in [KeysOf(PathOf[k]) -> Records]
    BY <2>1, LogFacts DEF LogInv
  <2>. QED  BY <2>1, <2>2, <2>3
<1>3. \A x \in Records : x.seq \in Nat /\ \A m \in Nat : [seq |-> x.seq + 1, by |-> m] \in Records
  BY DEF Records
<1>4. \A k \in K : /\ b.recs[k] \in Records /\ b.prev[k] \in Records
                   /\ b.recs[k].seq = b.prev[k].seq + 1 /\ b.recs[k].by = n
  BY <1>1, <1>2, <1>3
<1>5. \A p \in PathsOf(K) : b.gens[p] \in 1 .. Gen(p)
  BY <1>1, PathsOfIn, LogFacts DEF ReplicaInv, Writable, LogInv
<1>6. ASSUME b.sound, NEW k \in K
      PROVE  b.prev[k] = AtGeneration(k, b.gens[PathOf[k]])
  <2>1. PathOf[k] \in PathsOf(K) /\ PathOf[k] \in Paths \ mixed /\ k \in KeysOf(PathOf[k])
    BY <1>1, <1>6, PathIn DEF PathsOf, KeysOf
  <2>2. base[PathOf[k]] # 0
    BY <2>1 DEF Confirmable
  <2>3. meta[PathOf[k]] = base[PathOf[k]] /\ confirmed[k] = AtGeneration(k, base[PathOf[k]])
    BY <2>1, <2>2 DEF ReplicaInv
  <2>4. got[k] = confirmed[k]
    BY OneNumber DEF ReplicaInv
  <2>. QED  BY <1>1, <2>1, <2>3, <2>4
<1>. QED
  BY <1>1, <1>4, <1>5, <1>6 DEF BatchOK

LEMMA QueueInv ==
  ASSUME Inv, NEW w \in Writers, Queue(w)
  PROVE  Inv'
<1> USE DEF Inv
<1> DEFINE K == writer[w].writes
           P == PathsOf(K)
           got == writer[w].got
           Ok == Writable(P) /\ Confirmable(P) /\ \A k \in K : confirmed[k].seq = got[k].seq
<1>1. PICK x : x = writer[w] /\ WriterOK(x) /\ x.pc = "queue"
  BY DEF WriterInv, Queue
<1>2. CASE ~Ok
  <2>1. writer' = [writer EXCEPT ![w] = Away] /\ lock' = Unlocked(w) /\ UNCHANGED <<batches, outbox, session>>
    BY <1>2 DEF Queue, Leave
  <2>2. PICK r : r = Away /\ WriterOK(r)'
    BY AwayOK
  <2>. QED
    BY <1>1, <2>1, <2>2, WriterMoves, UnlockedType DEF Queue
<1>3. CASE Ok
  <2>0. PICK n : n = Len(batches) + 1
    OBVIOUS
  <2>1. PICK b : b = [recs |-> [k \in K |-> [seq |-> got[k].seq + 1, by |-> n]],
                      prev |-> Of(got, K), gens |-> Of(meta, P), sound |-> P \cap mixed = {}]
    OBVIOUS
  <2>2. /\ batches' = Append(batches, b) /\ outbox' = SetState(n, "inflight")
        /\ session' = [p \in Paths |-> IF p \in P THEN "prepared" ELSE session[p]]
        /\ writer' = [writer EXCEPT ![w].pc = "submit", ![w].n = n] /\ lock' = lock
        /\ UNCHANGED <<log, remote, applied, confirmed, base, meta, ready, sync, watching, mixed, faults>>
    BY <1>3, <2>0, <2>1 DEF Queue
  <2>3. /\ n \in Nat /\ DOMAIN batches = 1 .. Len(batches) /\ n \notin DOMAIN batches
        /\ DOMAIN batches' = DOMAIN batches \cup {n} /\ batches'[n] = b
        /\ \A m \in DOMAIN batches : batches'[m] = batches[m]
        /\ batches' \in Seq({batches'[m] : m \in DOMAIN batches'})
    <3>1. batches \in Seq({batches[m] : m \in DOMAIN batches})
      BY DEF BatchInv
    <3>2. Len(batches) \in Nat /\ DOMAIN batches = 1 .. Len(batches)
      BY <3>1, LenProperties
    <3>3. batches \in Seq({batches[m] : m \in DOMAIN batches} \cup {b})
      BY <3>1, SeqMonotonic
    <3>4. /\ Append(batches, b) \in Seq({batches[m] : m \in DOMAIN batches} \cup {b})
          /\ Len(Append(batches, b)) = n /\ Append(batches, b)[n] = b
          /\ \A m \in 1 .. Len(batches) : Append(batches, b)[m] = batches[m]
      BY <2>0, <3>3, AppendProperties
    <3>5. DOMAIN batches' = 1 .. n
      BY <2>2, <3>4, LenProperties
    <3>6. n \in Nat /\ n \notin DOMAIN batches /\ DOMAIN batches' = DOMAIN batches \cup {n}
      BY <2>0, <3>2, <3>5
    <3>7. {batches[m] : m \in DOMAIN batches} \cup {b} = {batches'[m] : m \in DOMAIN batches'}
      BY <2>2, <3>2, <3>4, <3>6
    <3>. QED  BY <2>2, <3>2, <3>4, <3>6, <3>7
  <2>4. Later
    <3>1. n \notin applied /\ applied \subseteq DOMAIN batches
      BY <2>3 DEF BatchInv
    <3>2. Goes
      BY <2>2, CalmParts, LogFacts DEF Goes, LogInv, Gen
    <3>. QED  BY <2>2, <2>3, <3>1, <3>2 DEF Later
  <2>5. LogInv'
    BY <2>2, SameLog
  <2>6. BatchOK(b, n)
    <3>1. /\ K \in SUBSET Keys /\ K # {} /\ K \subseteq DOMAIN got
          /\ \A k \in K : got[k] \in Served(k)
      BY <1>1 DEF WriterOK
    <3> HIDE DEF K, P, got
    <3>. QED  BY <1>3, <2>1, <2>3, <3>1, NewBatch DEF P
  <2>7. BatchInv'
    <3>1. \A m \in DOMAIN batches' : BatchOK(batches[m], m)'
      <4>1. BatchOK(b, n)'
        BY <2>4, <2>6, BatchKept DEF LogInv
      <4>2. ASSUME NEW m \in DOMAIN batches PROVE BatchOK(batches[m], m)'
        <5>1. PICK c : c = batches[m] /\ BatchOK(c, m)
          BY DEF BatchInv
        <5>2. BatchOK(c, m)' /\ batches'[m] = c
          BY <2>3, <2>4, <5>1, BatchKept DEF LogInv
        <5>. QED  BY <5>2
      <4>. QED  BY <2>3, <4>1, <4>2
    <3>2. ASSUME NEW m \in applied' PROVE AppliedOK(batches[m])' /\ m \in DOMAIN batches'
      <4>1. PICK c : m \in DOMAIN batches /\ c = batches[m] /\ BatchOK(c, m) /\ AppliedOK(c)
        BY <2>2 DEF BatchInv
      <4>2. AppliedOK(c)' /\ batches'[m] = c
        BY <2>3, <2>4, <4>1, AppliedKept DEF LogInv
      <4>. QED  BY <2>3, <4>1, <4>2
    <3>. QED  BY <2>3, <3>1, <3>2 DEF BatchInv
  <2>8. OutboxInv'
    <3>1. /\ DOMAIN outbox' = DOMAIN outbox \cup {n}
          /\ \A m \in DOMAIN outbox' : outbox'[m] = IF m = n THEN "inflight" ELSE outbox[m]
      BY <2>2 DEF SetState
    <3>2. \A m \in DOMAIN outbox : outbox[m] = "conflict" => Rival(m)'
      BY <2>4, RivalKept DEF OutboxInv, LogInv
    <3>3. \A m \in DOMAIN outbox' : outbox'[m] \in States /\ (outbox'[m] = "conflict" => Rival(m)')
      BY <3>1, <3>2 DEF OutboxInv, States
    <3>. QED  BY <2>2, <2>3, <3>1, <3>3 DEF OutboxInv
  <2>9. ReplicaInv'
    BY <2>2, <2>4, ReplicaKept
  <2>10. PICK r : r = [x EXCEPT !.pc = "submit", !.n = n]
    OBVIOUS
  <2>11. writer' = [writer EXCEPT ![w] = r]
    BY <1>1, <2>2, <2>10
  <2>12. WriterOK(r)'
    <3>1. DOMAIN x = DOMAIN Away
      BY <1>1 DEF WriterOK
    <3>2. PICK m : m = n
      OBVIOUS
    <3>3. /\ DOMAIN r = DOMAIN Away /\ r.pc = "submit" /\ r.reads = x.reads /\ r.writes = x.writes
          /\ r.n = m
      BY <2>10, <3>1, <3>2 DEF Away
    <3>. QED  BY <1>1, <2>3, <3>2, <3>3 DEF WriterOK
  <2>13. WriterInv' /\ SyncInv' /\ Waits'
    BY <1>1, <2>2, <2>4, <2>11, <2>12, WriterSet, SyncSame, WaitsKept DEF LogInv
  <2>14. OtherTypes'
    BY <2>2 DEF OtherTypes
  <2>. QED
    BY <2>5, <2>7, <2>8, <2>9, <2>13, <2>14
<1>. QED
  BY <1>2, <1>3

LEMMA SubmitInv ==
  ASSUME Inv, NEW w \in Writers, Submit(w)
  PROVE  Inv'
<1> USE DEF Inv
<1>1. PICK x : x = writer[w] /\ WriterOK(x) /\ x.pc = "submit"
  BY DEF WriterInv, Submit
<1>2. DOMAIN x = DOMAIN Away /\ x.n \in DOMAIN batches
  BY <1>1 DEF WriterOK
<1>3. PICK a : /\ Submits(x.n, a) /\ batches' = batches
               /\ writer' = [writer EXCEPT ![w].pc = "answer", ![w].answer = a]
  BY <1>1 DEF Submit
<1>4. Later /\ LogInv' /\ BatchInv' /\ AnswerOK(x.n, a)' /\ remote' = remote
  BY <1>2, <1>3, SubmitStep
<1>5. OutboxInv' /\ ReplicaInv'
  BY <1>3, <1>4, OutboxKept, ReplicaKept DEF Submit
<1>6. PICK r : r = [x EXCEPT !.pc = "answer", !.answer = a]
  OBVIOUS
<1>7. writer' = [writer EXCEPT ![w] = r]
  BY <1>1, <1>3, <1>6
<1>8. WriterOK(r)'
  <2>1. /\ DOMAIN r = DOMAIN Away /\ r.pc = "answer" /\ r.reads = x.reads /\ r.writes = x.writes
        /\ r.n = x.n /\ r.answer = a
    BY <1>2, <1>6 DEF Away
  <2>. QED  BY <1>1, <1>2, <1>3, <1>4, <2>1 DEF WriterOK
<1>9. WriterInv' /\ SyncInv' /\ Waits'
  BY <1>1, <1>4, <1>7, <1>8, WriterSet, SyncSame, WaitsKept DEF LogInv, Submit
<1>10. OtherTypes'
  BY <1>1, <1>3, <1>4, BoundAssumption DEF OtherTypes, Submit, Submits, MayFail
<1>. QED
  BY <1>4, <1>5, <1>9, <1>10

LEMMA ReceiveInv ==
  ASSUME Inv, NEW w \in Writers, Receive(w)
  PROVE  Inv'
<1> USE DEF Inv
<1>1. PICK x : x = writer[w] /\ WriterOK(x) /\ x.pc = "answer"
  BY DEF WriterInv, Receive
<1>2. DOMAIN x = DOMAIN Away /\ x.n \in DOMAIN batches /\ AnswerOK(x.n, x.answer)
  BY <1>1 DEF WriterOK
<1>3. Later /\ LogInv' /\ BatchInv' /\ LogTypes
  BY CalmParts DEF Receive
<1>4. ReplicaInv'
  BY <1>3, ReplicaKept DEF Receive
<1>5. CASE Refused(x.answer)
  <2>1. /\ writer' = [writer EXCEPT ![w] = Away] /\ lock' = Unlocked(w)
        /\ outbox' = FailureState(x.n, x.answer.kind)
    BY <1>1, <1>5 DEF Receive, Leave
  <2>2. OutboxInv'
    BY <1>2, <2>1, FailureNoted DEF Receive
  <2>3. PICK r : r = Away /\ WriterOK(r)'
    BY AwayOK
  <2>4. WriterInv' /\ SyncInv' /\ Waits'
    BY <1>1, <1>3, <2>1, <2>3, WriterSet, SyncSame, WaitsKept DEF Receive
  <2>5. OtherTypes'
    BY <2>1, UnlockedType DEF OtherTypes, Receive
  <2>. QED
    BY <1>3, <1>4, <2>2, <2>4, <2>5
<1>6. CASE ~Refused(x.answer)
  <2>1. PICK c : c = Load(DOMAIN x.answer.gens)
    OBVIOUS
  <2>2. PICK r : r = [x EXCEPT !.pc = "ack", !.copy = c]
    OBVIOUS
  <2>3. writer' = [writer EXCEPT ![w] = r] /\ UNCHANGED <<outbox, lock>>
    BY <1>1, <1>6, <2>1, <2>2 DEF Receive
  <2>4. DOMAIN x.answer.gens \subseteq Paths
    BY <1>2, <1>6, <1>3, BatchFacts DEF AnswerOK
  <2>5. CopyOK(c, DOMAIN x.answer.gens)
    BY <2>1, <2>4, LoadOK
  <2>6. WriterOK(r)
    <3>1. /\ DOMAIN r = DOMAIN Away /\ r.pc = "ack" /\ r.reads = x.reads /\ r.writes = x.writes
          /\ r.n = x.n /\ r.answer = x.answer /\ r.copy = c
      BY <1>2, <2>2 DEF Away
    <3>. QED  BY <1>1, <1>2, <1>6, <2>5, <3>1 DEF WriterOK
  <2>7. WriterOK(r)'
    BY <1>3, <2>6, WriterKept
  <2>. QED
    BY <1>1, <2>3, <2>7, WriterMoves DEF Receive, OtherTypes
<1>. QED
  BY <1>5, <1>6

LEMMA AckBatchInv ==
  ASSUME Inv, NEW w \in Writers, AckBatch(w)
  PROVE  Inv'
<1> USE DEF Inv
<1>1. PICK x : x = writer[w] /\ WriterOK(x) /\ x.pc = "ack"
  BY DEF WriterInv, AckBatch
<1>2. /\ DOMAIN x = DOMAIN Away /\ x.n \in DOMAIN batches /\ AnswerOK(x.n, x.answer)
      /\ ~Refused(x.answer) /\ CopyOK(x.copy, DOMAIN x.answer.gens)
  BY <1>1 DEF WriterOK
<1>3. Later /\ LogInv' /\ BatchInv' /\ LogTypes
  BY CalmParts DEF AckBatch
<1>4. Ack(x.n, x.copy, x.answer.gens)
  BY <1>1 DEF AckBatch
<1>5. /\ OutboxInv' /\ ReplicaInv' /\ mixed' \subseteq Paths
      /\ session' \in [Paths -> {"none", "idle", "prepared", "confirmed"}]
  <2>1. PICK n, a, c : n \in DOMAIN batches /\ n = x.n /\ a = x.answer /\ c = x.copy
    BY <1>2
  <2>2. AnswerOK(n, a) /\ ~Refused(a) /\ CopyOK(c, DOMAIN a.gens) /\ Ack(n, c, a.gens)
    BY <1>2, <1>4, <2>1
  <2>. QED  BY <2>1, <2>2, AckStep DEF AckBatch
<1>6. PICK r : r = [x EXCEPT !.pc = "again"]
  OBVIOUS
<1>7. writer' = [writer EXCEPT ![w] = r]
  BY <1>1, <1>6 DEF AckBatch, Goto
<1>8. WriterOK(r)
  <2>1. /\ DOMAIN r = DOMAIN Away /\ r.pc = "again" /\ r.reads = x.reads /\ r.writes = x.writes
        /\ r.n = x.n /\ r.answer = x.answer
    BY <1>2, <1>6 DEF Away
  <2>. QED  BY <1>1, <1>2, <2>1 DEF WriterOK
<1>9. WriterOK(r)'
  BY <1>3, <1>8, WriterKept
<1>10. WriterInv' /\ SyncInv' /\ Waits'
  BY <1>1, <1>3, <1>7, <1>9, WriterSet, SyncSame, WaitsKept DEF AckBatch
<1>11. OtherTypes'
  BY <1>5 DEF OtherTypes, AckBatch, Ack
<1>. QED
  BY <1>3, <1>5, <1>10, <1>11

LEMMA LoadAgainInv ==
  ASSUME Inv, NEW w \in Writers, LoadAgain(w)
  PROVE  Inv'
<1> USE DEF Inv
<1>1. PICK x : x = writer[w] /\ WriterOK(x) /\ x.pc = "again"
  BY DEF WriterInv, LoadAgain
<1>2. /\ DOMAIN x = DOMAIN Away /\ x.n \in DOMAIN batches /\ AnswerOK(x.n, x.answer)
      /\ ~Refused(x.answer)
  BY <1>1 DEF WriterOK
<1>3. Later /\ LogTypes
  BY CalmParts DEF LoadAgain
<1>4. PICK c : c = Load(DOMAIN x.answer.gens)
  OBVIOUS
<1>5. PICK r : r = [x EXCEPT !.pc = "apply", !.copy = c]
  OBVIOUS
<1>6. writer' = [writer EXCEPT ![w] = r]
  BY <1>1, <1>4, <1>5 DEF LoadAgain
<1>7. CopyOK(c, DOMAIN x.answer.gens)
  <2>1. DOMAIN x.answer.gens \subseteq Paths
    BY <1>2, <1>3, BatchFacts DEF AnswerOK
  <2>. QED  BY <1>4, <2>1, LoadOK
<1>8. WriterOK(r)
  <2>1. /\ DOMAIN r = DOMAIN Away /\ r.pc = "apply" /\ r.reads = x.reads /\ r.writes = x.writes
        /\ r.n = x.n /\ r.answer = x.answer /\ r.copy = c
    BY <1>2, <1>5 DEF Away
  <2>. QED  BY <1>1, <1>2, <1>7, <2>1 DEF WriterOK
<1>9. WriterOK(r)'
  BY <1>3, <1>8, WriterKept
<1>. QED
  BY <1>1, <1>6, <1>9, WriterMoves DEF LoadAgain, OtherTypes

LEMMA ApplyAgainInv ==
  ASSUME Inv, NEW w \in Writers, ApplyAgain(w)
  PROVE  Inv'
<1> USE DEF Inv
<1>1. PICK x : x = writer[w] /\ WriterOK(x) /\ x.pc = "apply"
  BY DEF WriterInv, ApplyAgain
<1>2. PICK n, a, c : n \in DOMAIN batches /\ n = x.n /\ a = x.answer /\ c = x.copy
  BY <1>1 DEF WriterOK
<1>3. AnswerOK(n, a) /\ ~Refused(a) /\ CopyOK(c, DOMAIN a.gens)
  BY <1>1, <1>2 DEF WriterOK
<1>4. Later /\ LogInv' /\ BatchInv' /\ LogTypes
  BY CalmParts DEF ApplyAgain
<1>5. /\ confirmed' = Over(Over(batches[n].recs, c.recs), confirmed)
      /\ base' = Over(a.gens, base) /\ meta' = meta /\ ready' = ready \cup DOMAIN a.gens
      /\ mixed' = mixed \cup (DOMAIN a.gens \ CopyOf(c, DOMAIN a.gens))
                        \cup {p \in DOMAIN a.gens : base[p] # a.gens[p]}
      /\ writer' = [writer EXCEPT ![w] = Away] /\ lock' = Unlocked(w)
  BY <1>1, <1>2 DEF ApplyAgain, Leave
<1>6. ReplicaInv'
  <2>1. \A p \in Paths \ mixed' :
           /\ p \notin mixed
           /\ p \in DOMAIN a.gens => p \in CopyOf(c, DOMAIN a.gens) /\ a.gens[p] = base[p]
    BY <1>5
  <2>2. meta' \in {meta, Over(a.gens, meta)}
    BY <1>5
  <2>. QED  BY <1>2, <1>3, <1>5, <2>1, <2>2, Merged DEF ApplyAgain
<1>7. OutboxInv'
  BY <1>4, OutboxKept DEF ApplyAgain
<1>8. PICK r : r = Away /\ WriterOK(r)'
  BY AwayOK
<1>9. WriterInv' /\ SyncInv' /\ Waits'
  BY <1>1, <1>4, <1>5, <1>8, WriterSet, SyncSame, WaitsKept DEF ApplyAgain
<1>10. DOMAIN a.gens \subseteq Paths
  BY <1>2, <1>3, <1>4, BatchFacts DEF AnswerOK
<1>11. OtherTypes'
  BY <1>5, <1>10, UnlockedType DEF OtherTypes, ApplyAgain
<1>. QED
  BY <1>4, <1>6, <1>7, <1>9, <1>11

-----------------------------------------------------------------------------
(* The steps of a pass, of the other device and of a restart.              *)

\* The pass goes on and the threads of the foreground stand still.
LEMMA PassGoes ==
  ASSUME LogTypes, BatchInv, WriterInv, Waits, OtherTypes, Later, sync.pc # "idle",
         NEW s, SyncOK(s)', s.by = sync.by, sync' = s, UNCHANGED <<writer, lock, watching>>
  PROVE  /\ WriterInv' /\ SyncInv' /\ Waits' /\ watching' \in BOOLEAN
         /\ lock' \in [Paths -> Writers \cup {Nobody}]
BY WriterSame, SyncSet DEF Waits, OtherTypes

LEMMA CurrentPath ==
  ASSUME SyncInv, sync.pc # "idle"
  PROVE  Path = First(sync.todo) /\ Path \in Paths
BY FirstIn DEF SyncInv, SyncOK, Path, First

LEMMA RemoteWriteInv ==
  ASSUME Inv, NEW k \in Keys, RemoteWrite(k)
  PROVE  Inv'
<1> USE DEF Inv
<1>1. PICK recs : recs = [j \in {k} |-> [seq |-> Current(k).seq + 1, by |-> 0]]
  OBVIOUS
<1>2. DOMAIN recs = {k} /\ recs[k] = [seq |-> Current(k).seq + 1, by |-> 0]
  BY <1>1
<1>3. Current(k).seq \in Nat
  <2>1. Current(k) \in Records
    BY CurrentBy
  <2>. QED  BY <2>1 DEF Records
<1>4. recs[k] \in Records /\ Current(k).seq < recs[k].seq /\ recs[k].by = 0
  BY <1>2, <1>3 DEF Records
<1>5. log' = Grown(recs) /\ UNCHANGED <<applied, batches, outbox, confirmed, base, meta, session, ready,
                                        lock, writer, sync, watching, mixed, faults>>
  BY <1>1 DEF RemoteWrite
<1>6. /\ DOMAIN recs \subseteq Keys /\ applied \subseteq applied'
      /\ \A j \in DOMAIN recs : /\ recs[j] \in Records /\ Current(j).seq < recs[j].seq
                                /\ recs[j].by \in {0} \cup applied'
  BY <1>2, <1>4, <1>5
<1>7. LogInv'
  BY <1>5, <1>6, GrownInv
<1>8. Goes
  BY <1>5, <1>6, GrownLog DEF LogInv
<1>9. Later
  BY <1>5, <1>8 DEF Later
<1>10. BatchInv'
  <2>1. ASSUME NEW m \in DOMAIN batches PROVE BatchOK(batches[m], m)'
    <3>1. PICK c : c = batches[m] /\ BatchOK(c, m)
      BY DEF BatchInv
    <3>2. BatchOK(c, m)'
      BY <3>1, <1>9, BatchKept DEF LogInv
    <3>. QED  BY <3>1, <3>2, <1>5
  <2>2. ASSUME NEW m \in applied PROVE AppliedOK(batches[m])'
    <3>1. PICK c : c = batches[m] /\ BatchOK(c, m) /\ AppliedOK(c)
      BY DEF BatchInv
    <3>2. AppliedOK(c)'
      BY <3>1, <1>9, AppliedKept DEF LogInv
    <3>. QED  BY <3>1, <3>2, <1>5
  <2>. QED  BY <2>1, <2>2, <1>5 DEF BatchInv
<1>11. OutboxInv' /\ ReplicaInv' /\ WriterInv' /\ SyncInv'
  BY <1>5, <1>9, OutboxKept, ReplicaKept, WriterSame, SyncSame DEF LogInv
<1>12. Waits' /\ OtherTypes'
  BY <1>5, BoundAssumption DEF Waits, OtherTypes, RemoteWrite
<1>. QED
  BY <1>7, <1>10, <1>11, <1>12

LEMMA CrashInv ==
  ASSUME Inv, Crash
  PROVE  Inv'
<1> USE DEF Inv
<1>1. Later /\ LogInv' /\ BatchInv' /\ LogTypes
  BY CalmParts DEF Crash
<1>2. OutboxInv' /\ ReplicaInv'
  BY <1>1, OutboxKept, ReplicaKept DEF Crash
<1>3. WriterInv'
  <2>1. PICK r : r = Away /\ WriterOK(r)'
    BY AwayOK
  <2>2. writer' = [w \in Writers |-> r]
    BY <2>1 DEF Crash
  <2>. QED  BY <2>1, <2>2 DEF WriterInv
<1>4. SyncInv' /\ Waits'
  <2>1. PICK s : s = NoPass /\ SyncOK(s)' /\ s.pc = "idle"
    BY IdleOK DEF NoPass
  <2>2. sync' = s
    BY <2>1 DEF Crash
  <2>. QED  BY <2>1, <2>2, SyncSet DEF Waits
<1>5. OtherTypes'
  <2>1. lock' \in [Paths -> Writers \cup {Nobody}]
    BY DEF Crash
  <2>2. faults' \in 0 .. MaxFault
    BY BoundAssumption DEF OtherTypes, Crash, MayFail
  <2>. QED  BY <2>1, <2>2 DEF OtherTypes, Crash
<1>. QED
  BY <1>1, <1>2, <1>3, <1>4, <1>5

LEMMA WatchEndsInv ==
  ASSUME Inv, NEW p \in Paths, WatchEnds(p)
  PROVE  Inv'
<1> USE DEF Inv
<1>1. Later /\ LogInv' /\ BatchInv' /\ LogTypes
  BY CalmParts DEF WatchEnds
<1>2. OutboxInv' /\ ReplicaInv' /\ WriterInv' /\ SyncInv'
  BY <1>1, OutboxKept, ReplicaKept, WriterSame, SyncSame DEF WatchEnds
<1>3. Waits' /\ OtherTypes'
  BY DEF OtherTypes, WatchEnds, Waits
<1>. QED
  BY <1>1, <1>2, <1>3

LEMMA BeginPassInv ==
  ASSUME Inv, BeginPass
  PROVE  Inv'
<1> USE DEF Inv
<1>1. Later /\ LogInv' /\ BatchInv' /\ LogTypes
  BY CalmParts DEF BeginPass
<1>2. OutboxInv' /\ ReplicaInv' /\ WriterInv'
  BY <1>1, OutboxKept, ReplicaKept, WriterSame DEF BeginPass
<1>3. PICK s : s = [NoPass EXCEPT !.by = Worker, !.pc = "meta", !.todo = DOMAIN PathOrder]
  OBVIOUS
<1>4. DOMAIN PathOrder # {}
  <2>1. PathOrder \in Seq(Paths) /\ PathOrder # << >>
    BY PathsAssumption DEF BeginPass
  <2>2. Len(PathOrder) # 0 /\ Len(PathOrder) \in Nat /\ DOMAIN PathOrder = 1 .. Len(PathOrder)
    BY <2>1, EmptySeq, LenProperties
  <2>. QED  BY <2>2
<1>5. SyncOK(s)' /\ s.by = Worker
  BY <1>3, <1>4, StartOK DEF NoPass
<1>6. SyncInv' /\ Waits'
  BY <1>3, <1>5, SyncSet DEF BeginPass, Waits
<1>7. OtherTypes'
  BY DEF OtherTypes, BeginPass
<1>. QED
  BY <1>1, <1>2, <1>6, <1>7

\* A pass that has not touched the store.
LEMMA PassLooks ==
  ASSUME Inv, sync.pc # "idle",
         UNCHANGED <<log, remote, applied, batches, outbox, confirmed, base, meta, session, mixed>>,
         ready' \subseteq Paths, faults' \in 0 .. MaxFault,
         WriterInv' /\ SyncInv' /\ Waits' /\ watching' \in BOOLEAN,
         lock' \in [Paths -> Writers \cup {Nobody}]
  PROVE  Inv'
<1> USE DEF Inv
<1>1. Later /\ LogInv' /\ BatchInv' /\ LogTypes
  BY CalmParts
<1>2. OutboxInv' /\ ReplicaInv'
  BY <1>1, OutboxKept, ReplicaKept
<1>3. OtherTypes'
  BY DEF OtherTypes
<1>. QED
  BY <1>1, <1>2, <1>3

LEMMA SyncMetaInv ==
  ASSUME Inv, SyncMeta
  PROVE  Inv'
<1> USE DEF Inv
<1>1. Later /\ LogTypes
  BY CalmParts DEF SyncMeta
<1>2. ready' \subseteq Paths
  BY DEF SyncMeta, OtherTypes
<1>3. faults' \in 0 .. MaxFault
  <2>1. CASE \E g \in 1 .. Gen(Path) : Serves(Path, g)
    BY <2>1, BoundAssumption DEF Serves, MayFail, OtherTypes
  <2>2. CASE MayFail("offline") /\ faults' = faults + 1
    BY <2>2, BoundAssumption DEF MayFail, OtherTypes
  <2>. QED  BY <2>1, <2>2 DEF SyncMeta
<1>4. CASE EndPass(FALSE)
  BY <1>1, <1>2, <1>3, <1>4, PassEnds, PassLooks DEF SyncMeta
<1>5. CASE ~EndPass(FALSE)
  <2>1. PICK v \in {"overlay", "snapshot"} : sync' = [sync EXCEPT !.pc = v] /\ UNCHANGED <<writer, lock, watching>>
    BY <1>5 DEF SyncMeta, Step
  <2>2. PICK x : x = sync /\ SyncOK(x) /\ x.pc # "idle"
    BY DEF SyncInv, SyncMeta
  <2>3. PICK s : s = [x EXCEPT !.pc = v]
    OBVIOUS
  <2>4. SyncOK(s)' /\ s.by = x.by
    BY <1>1, <2>2, <2>3, StepOK DEF SyncOK, NoPass
  <2>5. /\ WriterInv' /\ SyncInv' /\ Waits' /\ watching' \in BOOLEAN
        /\ lock' \in [Paths -> Writers \cup {Nobody}]
    BY <1>1, <2>1, <2>2, <2>3, <2>4, PassGoes
  <2>. QED
    BY <1>2, <1>3, <2>2, <2>5, PassLooks DEF SyncMeta
<1>. QED
  BY <1>4, <1>5

LEMMA SyncSnapshotInv ==
  ASSUME Inv, SyncSnapshot
  PROVE  Inv'
<1> USE DEF Inv
<1>1. Later /\ LogTypes
  BY CalmParts DEF SyncSnapshot
<1>2. ready' \subseteq Paths
  BY DEF SyncSnapshot, OtherTypes
<1>3. faults' \in 0 .. MaxFault
  BY BoundAssumption DEF SyncSnapshot, OtherTypes, Serves, MayFail
<1>4. CASE EndPass(FALSE)
  BY <1>1, <1>2, <1>3, <1>4, PassEnds, PassLooks DEF SyncSnapshot
<1>5. CASE ~EndPass(FALSE)
  <2>1. PICK g \in 1 .. Gen(Path) : /\ sync' = [sync EXCEPT !.pc = "replace", !.gen = g]
                                    /\ UNCHANGED <<writer, lock, watching>>
    BY <1>5 DEF SyncSnapshot
  <2>2. PICK x : x = sync /\ SyncOK(x) /\ x.pc = "snapshot" /\ Path = First(x.todo)
    BY CurrentPath DEF SyncInv, SyncSnapshot
  <2>3. PICK s : s = [x EXCEPT !.pc = "replace", !.gen = g]
    OBVIOUS
  <2>4. /\ DOMAIN s = DOMAIN NoPass /\ s.by = x.by /\ s.pc = "replace" /\ s.todo = x.todo
        /\ s.queue = x.queue /\ s.gen = g
    <3>1. DOMAIN x = DOMAIN NoPass
      BY <2>2 DEF SyncOK
    <3>. QED  BY <2>3, <3>1 DEF NoPass
  <2>5. SyncOK(s)
    BY <2>1, <2>2, <2>4 DEF SyncOK
  <2>6. SyncOK(s)'
    BY <1>1, <2>5, SyncKept
  <2>7. /\ WriterInv' /\ SyncInv' /\ Waits' /\ watching' \in BOOLEAN
        /\ lock' \in [Paths -> Writers \cup {Nobody}]
    BY <1>1, <2>1, <2>2, <2>3, <2>4, <2>6, PassGoes
  <2>. QED
    BY <1>2, <1>3, <2>2, <2>7, PassLooks DEF SyncSnapshot
<1>. QED
  BY <1>4, <1>5

\* The store has changed and the log has not.
LEMMA PassWrites ==
  ASSUME Inv, UNCHANGED <<log, remote, applied, batches>>, OutboxInv', ReplicaInv',
         WriterInv' /\ SyncInv' /\ Waits' /\ watching' \in BOOLEAN,
         lock' \in [Paths -> Writers \cup {Nobody}],
         session' \in [Paths -> {"none", "idle", "prepared", "confirmed"}],
         ready' \subseteq Paths, mixed' \subseteq Paths, faults' = faults
  PROVE  Inv'
<1>1. LogInv' /\ BatchInv'
  BY CalmParts DEF Inv
<1>2. OtherTypes'
  BY DEF OtherTypes, Inv
<1>. QED
  BY <1>1, <1>2 DEF Inv

\* The records of a generation are put in place.
LEMMA ApplySnapshotInv ==
  ASSUME Inv, ApplySnapshot
  PROVE  Inv'
<1> USE DEF Inv
<1>1. Later /\ LogTypes
  BY CalmParts DEF ApplySnapshot
<1>2. PICK x : x = sync /\ SyncOK(x) /\ x.pc = "replace"
  BY DEF SyncInv, ApplySnapshot
<1>3. PICK q \in Paths : q = Path /\ x.gen \in 1 .. Gen(q)
  BY <1>2, CurrentPath DEF SyncOK
<1>4. PICK g \in 1 .. Gen(q) : g = x.gen
  BY <1>3
<1>5. /\ confirmed' = Over(log[q][g], confirmed) /\ UNCHANGED <<log, outbox, ready, faults>>
      /\ base' = [base EXCEPT ![q] = g] /\ meta' = [meta EXCEPT ![q] = g]
      /\ mixed' = mixed \ {q} /\ session' = [session EXCEPT ![q] = "idle"]
      /\ sync' = [x EXCEPT !.pc = "overlay"] /\ UNCHANGED <<writer, lock, watching>>
  BY <1>2, <1>3, <1>4 DEF ApplySnapshot, TakenUp, Step
<1>6. log[q][g] \in [KeysOf(q) -> Records] /\ g \in Nat /\ g # 0
  BY <1>1, <1>4, LogFacts
<1>7. /\ DOMAIN confirmed' = Keys
      /\ \A k \in Keys : confirmed'[k] = IF PathOf[k] = q THEN log[q][g][k] ELSE confirmed[k]
  BY <1>5, <1>6 DEF Over, ReplicaInv, KeysOf
<1>8. \A k \in Keys : confirmed'[k] \in Served(k)
  <2>1. SUFFICES ASSUME NEW k \in Keys PROVE confirmed'[k] \in Served(k)
    OBVIOUS
  <2>2. CASE PathOf[k] = q
    <3>1. log[q][g][k] \in Served(k)
      BY <1>4, <2>2 DEF Served
    <3>. QED  BY <1>7, <2>2, <3>1
  <2>3. CASE PathOf[k] # q
    BY <1>7, <2>3 DEF ReplicaInv
  <2>. QED  BY <2>2, <2>3
<1>9. /\ DOMAIN base' = Paths /\ DOMAIN meta' = Paths
      /\ \A p \in Paths : /\ base'[p] = IF p = q THEN g ELSE base[p]
                          /\ meta'[p] = IF p = q THEN g ELSE meta[p]
  BY <1>5 DEF ReplicaInv
<1>10. \A p \in Paths : base'[p] \in 0 .. Gen(p) /\ meta'[p] \in 0 .. Gen(p)
  BY <1>4, <1>6, <1>9, LogFacts DEF ReplicaInv
<1>11. ASSUME NEW p \in Paths \ mixed', base'[p] # 0
       PROVE  meta'[p] = base'[p] /\ \A k \in KeysOf(p) : confirmed'[k] = log[PathOf[k]][base'[p]][k]
  <2>1. CASE p = q
    BY <1>7, <1>9, <2>1 DEF KeysOf
  <2>2. CASE p # q
    <3>1. p \in Paths \ mixed /\ base[p] # 0 /\ base'[p] = base[p] /\ meta'[p] = meta[p]
      BY <1>5, <1>9, <1>11, <2>2
    <3>2. meta[p] = base[p] /\ \A k \in KeysOf(p) : confirmed[k] = log[PathOf[k]][base[p]][k]
      BY <3>1 DEF ReplicaInv, AtGeneration
    <3>3. \A k \in KeysOf(p) : k \in Keys /\ PathOf[k] # q
      BY <2>2 DEF KeysOf
    <3>. QED  BY <1>7, <3>1, <3>2, <3>3
  <2>. QED  BY <2>1, <2>2
<1>12. \A k \in Keys : Served(k)' = Served(k)
  BY <1>5 DEF Served, Gen
<1>13. \A p \in Paths : Gen(p)' = Gen(p)
  BY <1>5 DEF Gen
<1>14. ReplicaInv'
  BY <1>5, <1>7, <1>8, <1>9, <1>10, <1>11, <1>12, <1>13 DEF ReplicaInv, KeysOf, AtGeneration
<1>15. PICK s : s = [x EXCEPT !.pc = "overlay"]
  OBVIOUS
<1>16. SyncOK(s)' /\ s.by = x.by
  <2>1. SyncOK(s)'
    BY <1>1, <1>2, <1>15, StepOK
  <2>. QED  BY <2>1, <1>2, <1>15 DEF SyncOK, NoPass
<1>17. /\ WriterInv' /\ SyncInv' /\ Waits' /\ watching' \in BOOLEAN
       /\ lock' \in [Paths -> Writers \cup {Nobody}]
  BY <1>1, <1>2, <1>5, <1>15, <1>16, PassGoes
<1>18. OutboxInv'
  BY <1>1, <1>5, OutboxKept DEF ApplySnapshot
<1>19. /\ session' \in [Paths -> {"none", "idle", "prepared", "confirmed"}]
       /\ ready' \subseteq Paths /\ mixed' \subseteq Paths
  BY <1>5 DEF OtherTypes
<1>. QED
  BY <1>5, <1>14, <1>17, <1>18, <1>19, PassWrites DEF ApplySnapshot

LEMMA LoadOverlayInv ==
  ASSUME Inv, LoadOverlay
  PROVE  Inv'
<1> USE DEF Inv
<1>1. Later /\ LogTypes
  BY CalmParts DEF LoadOverlay
<1>2. PICK x : x = sync /\ SyncOK(x) /\ x.pc = "overlay" /\ Path = First(x.todo) /\ Path \in Paths
  BY CurrentPath DEF SyncInv, LoadOverlay
<1>3. PICK c : c = Load({Path}) /\ CopyOK(c, {Path})
  BY <1>2, LoadOK
<1>4. PICK s : s = [x EXCEPT !.pc = "write", !.copy = c]
  OBVIOUS
<1>5. /\ DOMAIN s = DOMAIN NoPass /\ s.by = x.by /\ s.pc = "write" /\ s.todo = x.todo
      /\ s.queue = x.queue /\ s.copy = c
  <2>1. DOMAIN x = DOMAIN NoPass
    BY <1>2 DEF SyncOK
  <2>. QED  BY <1>4, <2>1 DEF NoPass
<1>6. SyncOK(s)
  BY <1>2, <1>3, <1>5 DEF SyncOK
<1>7. SyncOK(s)'
  BY <1>1, <1>6, SyncKept
<1>8. sync' = s /\ UNCHANGED <<writer, lock, watching>>
  BY <1>2, <1>3, <1>4 DEF LoadOverlay
<1>9. /\ WriterInv' /\ SyncInv' /\ Waits' /\ watching' \in BOOLEAN
      /\ lock' \in [Paths -> Writers \cup {Nobody}]
  BY <1>1, <1>2, <1>5, <1>7, <1>8, PassGoes
<1>. QED
  BY <1>2, <1>9, PassLooks DEF LoadOverlay, OtherTypes

LEMMA NextPathInv ==
  ASSUME Inv, Later, LogTypes, sync.pc # "idle", NextPath
  PROVE  /\ WriterInv' /\ SyncInv' /\ Waits' /\ watching' \in BOOLEAN
         /\ lock' \in [Paths -> Writers \cup {Nobody}]
<1> USE DEF Inv
<1>1. CASE EndPass(TRUE)
  BY <1>1, PassEnds
<1>2. CASE ~EndPass(TRUE)
  <2>1. PICK T : T = sync.todo \ {Min(sync.todo)}
    OBVIOUS
  <2>2. T \subseteq DOMAIN PathOrder /\ T # {} /\ sync.by \in Writers \cup {Worker, Nobody}
    <3>1. /\ sync.todo \subseteq DOMAIN PathOrder /\ sync.todo # {}
          /\ sync.by \in Writers \cup {Worker, Nobody}
      BY DEF SyncInv, SyncOK
    <3>2. Min(sync.todo) \in sync.todo /\ sync.todo # {Min(sync.todo)}
      BY <1>2, <3>1, FirstIn DEF NextPath
    <3>. QED  BY <2>1, <3>1, <3>2
  <2>3. PICK s : s = [NoPass EXCEPT !.by = sync.by, !.pc = "meta", !.todo = T]
    OBVIOUS
  <2>4. PICK b \in Writers \cup {Worker, Nobody} : b = sync.by
    BY <2>2
  <2>5. SyncOK(s)' /\ s.by = b
    BY <2>2, <2>3, <2>4, StartOK DEF NoPass
  <2>6. sync' = s /\ UNCHANGED <<writer, lock, watching>>
    BY <1>2, <2>1, <2>3 DEF NextPath
  <2>. QED  BY <2>4, <2>5, <2>6, PassGoes
<1>. QED
  BY <1>1, <1>2

\* The overlay of a stale copy marks the directory.
LEMMA WriteOverlayInv ==
  ASSUME Inv, WriteOverlay
  PROVE  Inv'
<1> USE DEF Inv
<1>1. Later /\ LogTypes
  BY CalmParts DEF WriteOverlay
<1>2. PICK x : x = sync /\ SyncOK(x) /\ x.pc = "write" /\ Path = First(x.todo)
  BY CurrentPath DEF SyncInv, WriteOverlay
<1>3. PICK q, c : q \in Paths /\ q = Path /\ c = x.copy /\ CopyOK(c, {q})
  BY <1>2, CurrentPath DEF SyncOK
<1>4. /\ confirmed' = Over(c.recs, confirmed) /\ meta' = Over(c.meta, meta) /\ base' = base
      /\ mixed' = mixed \cup ({q} \ CopyOf(c, {q})) /\ UNCHANGED <<log, outbox, faults>>
      /\ session' = [session EXCEPT ![q] = "idle"] /\ ready' = ready \cup {q}
  BY <1>2, <1>3 DEF WriteOverlay
<1>5. /\ DOMAIN confirmed' = Keys
      /\ \A k \in Keys : confirmed'[k] = IF PathOf[k] = q THEN c.recs[k] ELSE confirmed[k]
      /\ DOMAIN meta' = Paths
      /\ \A p \in Paths : meta'[p] = IF p = q THEN c.meta[p] ELSE meta[p]
  BY <1>3, <1>4 DEF Over, ReplicaInv, CopyOK
<1>6. \A k \in Keys : confirmed'[k] \in Served(k)
  BY <1>3, <1>5 DEF CopyOK, ReplicaInv
<1>7. \A p \in Paths : base'[p] \in 0 .. Gen(p) /\ meta'[p] \in 0 .. Gen(p)
  BY <1>3, <1>4, <1>5 DEF ReplicaInv, CopyOK
<1>8. ASSUME NEW p \in Paths \ mixed', base'[p] # 0
      PROVE  meta'[p] = base'[p] /\ \A k \in KeysOf(p) : confirmed'[k] = log[PathOf[k]][base'[p]][k]
  <2>1. p \in Paths \ mixed /\ base[p] # 0
    BY <1>4, <1>8
  <2>2. meta[p] = base[p] /\ \A k \in KeysOf(p) : confirmed[k] = log[PathOf[k]][base[p]][k]
    BY <2>1 DEF ReplicaInv, AtGeneration
  <2>3. p = q => c.meta[p] = meta[p] /\ \A k \in KeysOf(p) : c.recs[k] = confirmed[k]
    BY <1>4, <1>8 DEF CopyOf
  <2>. QED  BY <1>4, <1>5, <2>2, <2>3 DEF KeysOf
<1>9. \A k \in Keys : Served(k)' = Served(k)
  BY <1>4 DEF Served, Gen
<1>10. \A p \in Paths : Gen(p)' = Gen(p)
  BY <1>4 DEF Gen
<1>11. ReplicaInv'
  <2>1. /\ \A k \in Keys : confirmed'[k] \in Served(k)'
        /\ \A p \in Paths : base'[p] \in 0 .. Gen(p)' /\ meta'[p] \in 0 .. Gen(p)'
    BY <1>6, <1>7, <1>9, <1>10
  <2>2. \A p \in Paths \ mixed' :
          base'[p] # 0 => /\ meta'[p] = base'[p]
                          /\ \A k \in KeysOf(p) : confirmed'[k] = log'[PathOf[k]][base'[p]][k]
    BY <1>4, <1>8
  <2>3. DOMAIN confirmed' = Keys /\ DOMAIN meta' = Paths /\ DOMAIN base' = Paths
    BY <1>4, <1>5 DEF ReplicaInv
  <2>. QED
    BY <2>1, <2>2, <2>3 DEF ReplicaInv, KeysOf, AtGeneration
<1>12. OutboxInv'
  BY <1>1, OutboxKept DEF WriteOverlay
<1>13. /\ WriterInv' /\ SyncInv' /\ Waits' /\ watching' \in BOOLEAN
       /\ lock' \in [Paths -> Writers \cup {Nobody}]
  <2>1. CASE sync.by = Worker
    <3>1. PICK s : s = [x EXCEPT !.pc = "outbox"]
      OBVIOUS
    <3>2. SyncOK(s)'
      BY <1>1, <1>2, <3>1, StepOK
    <3>3. s.by = x.by
      BY <1>2, <3>1 DEF SyncOK, NoPass
    <3>4. sync' = s /\ UNCHANGED <<writer, lock, watching>>
      BY <1>2, <2>1, <3>1 DEF WriteOverlay, Step
    <3>. QED  BY <1>1, <1>2, <3>2, <3>3, <3>4, PassGoes
  <2>2. CASE sync.by # Worker
    BY <1>1, <1>2, <2>2, NextPathInv DEF WriteOverlay
  <2>. QED  BY <2>1, <2>2
<1>14. /\ session' \in [Paths -> {"none", "idle", "prepared", "confirmed"}]
       /\ ready' \subseteq Paths /\ mixed' \subseteq Paths
  BY <1>3, <1>4 DEF OtherTypes
<1>. QED
  BY <1>4, <1>11, <1>12, <1>13, <1>14, PassWrites DEF WriteOverlay

\* The outbox is read, the conflicts in it as well.
LEMMA LoadOutboxInv ==
  ASSUME Inv, LoadOutbox
  PROVE  Inv'
<1> USE DEF Inv
<1>1. Later /\ LogTypes
  BY CalmParts DEF LoadOutbox
<1>2. PICK x : x = sync /\ SyncOK(x) /\ x.pc = "outbox"
  BY DEF SyncInv, LoadOutbox
<1>3. PICK c, u : c = NoCopy /\ u = outbox
  OBVIOUS
<1>4. PICK s : s = [x EXCEPT !.pc = "replay", !.copy = c, !.queue = u]
  OBVIOUS
<1>5. /\ DOMAIN s = DOMAIN NoPass /\ s.by = x.by /\ s.pc = "replay" /\ s.todo = x.todo /\ s.queue = u
  <2>1. DOMAIN x = DOMAIN NoPass
    BY <1>2 DEF SyncOK
  <2>. QED  BY <1>4, <2>1 DEF NoPass
<1>6. SyncOK(s)
  BY <1>2, <1>3, <1>5 DEF SyncOK, OutboxInv
<1>7. SyncOK(s)'
  BY <1>1, <1>6, SyncKept
<1>8. sync' = s /\ UNCHANGED <<writer, lock, watching>>
  BY <1>2, <1>3, <1>4 DEF LoadOutbox
<1>9. /\ WriterInv' /\ SyncInv' /\ Waits' /\ watching' \in BOOLEAN
      /\ lock' \in [Paths -> Writers \cup {Nobody}]
  BY <1>1, <1>2, <1>5, <1>7, <1>8, PassGoes
<1>. QED
  BY <1>2, <1>9, PassLooks DEF LoadOutbox, OtherTypes

LEMMA OldestIn ==
  ASSUME BatchInv, SyncInv, Queued # {}
  PROVE  Oldest \in Queued /\ Oldest \in DOMAIN batches
<1>1. DOMAIN batches \subseteq Nat /\ Queued \subseteq DOMAIN batches
  BY LenProperties DEF BatchInv, SyncInv, SyncOK, Queued
<1>. QED
  BY <1>1, MinIn DEF Oldest

\* An entry is submitted again, whether or not the first answer was lost.
LEMMA ReplayInv ==
  ASSUME Inv, Replay
  PROVE  Inv'
<1> USE DEF Inv
<1>1. PICK x : x = sync /\ SyncOK(x) /\ x.pc = "replay" /\ DOMAIN x.queue # {}
  BY DEF SyncInv, Replay, Queued
<1>2. PICK n \in DOMAIN batches : n = Oldest /\ n = Min(DOMAIN x.queue)
  BY <1>1, OldestIn DEF Oldest, Queued
<1>3. PICK a : Submits(n, a) /\ sync' = [sync EXCEPT !.pc = "answer", !.answer = a]
  BY <1>2 DEF Replay
<1>4. Later /\ LogInv' /\ BatchInv' /\ AnswerOK(n, a)' /\ remote' = remote
  BY <1>3, SubmitStep DEF Replay
<1>5. OutboxInv'
  <2>1. PICK s \in States : s = "inflight"
    BY DEF States
  <2>2. outbox' = SetState(n, s)
    BY <1>2, <2>1 DEF Replay
  <2>. QED  BY <1>4, <2>1, <2>2, StateSet DEF Replay
<1>6. ReplicaInv'
  BY <1>4, ReplicaKept DEF Replay
<1>7. PICK s : s = [x EXCEPT !.pc = "answer", !.answer = a]
  OBVIOUS
<1>8. /\ DOMAIN s = DOMAIN NoPass /\ s.by = x.by /\ s.pc = "answer" /\ s.todo = x.todo
      /\ s.queue = x.queue /\ s.answer = a
  <2>1. DOMAIN x = DOMAIN NoPass
    BY <1>1 DEF SyncOK
  <2>. QED  BY <1>7, <2>1 DEF NoPass
<1>9. SyncOK(s)'
  BY <1>1, <1>2, <1>4, <1>8 DEF SyncOK, Replay
<1>10. sync' = s /\ UNCHANGED <<writer, lock, watching>>
  BY <1>1, <1>3, <1>7 DEF Replay
<1>11. /\ WriterInv' /\ SyncInv' /\ Waits' /\ watching' \in BOOLEAN
       /\ lock' \in [Paths -> Writers \cup {Nobody}]
  BY <1>1, <1>4, <1>8, <1>9, <1>10, PassGoes DEF LogInv
<1>12. OtherTypes'
  <2>1. faults' \in 0 .. MaxFault
    BY <1>3, BoundAssumption DEF OtherTypes, Submits, MayFail
  <2>. QED  BY <1>4, <1>11, <2>1 DEF OtherTypes, Replay
<1>. QED
  BY <1>4, <1>5, <1>6, <1>11, <1>12

LEMMA ReplayEndsInv ==
  ASSUME Inv, ReplayEnds
  PROVE  Inv'
<1> USE DEF Inv
<1>1. Later /\ LogTypes /\ sync.pc # "idle"
  BY CalmParts DEF ReplayEnds
<1>2. CASE NextPath
  BY <1>1, <1>2, NextPathInv, PassLooks DEF ReplayEnds, OtherTypes
<1>3. CASE EndPass(FALSE)
  BY <1>1, <1>3, PassEnds, PassLooks DEF ReplayEnds, OtherTypes
<1>. QED
  BY <1>2, <1>3 DEF ReplayEnds

LEMMA ReplayReceiveInv ==
  ASSUME Inv, ReplayReceive
  PROVE  Inv'
<1> USE DEF Inv
<1>1. PICK x : x = sync /\ SyncOK(x) /\ x.pc = "answer"
  BY DEF SyncInv, ReplayReceive
<1>2. PICK n \in DOMAIN batches : n = Oldest /\ n = Min(DOMAIN x.queue) /\ AnswerOK(n, x.answer)
  BY <1>1, OldestIn DEF Oldest, Queued, SyncOK
<1>3. Later /\ LogTypes
  BY CalmParts DEF ReplayReceive
<1>4. ReplicaInv'
  BY <1>3, ReplicaKept DEF ReplayReceive
<1>5. CASE Refused(x.answer)
  <2>1. outbox' = FailureState(n, x.answer.kind) /\ EndPass(FALSE)
    BY <1>1, <1>2, <1>5 DEF ReplayReceive
  <2>2. OutboxInv'
    BY <1>2, <2>1, FailureNoted DEF ReplayReceive
  <2>3. /\ WriterInv' /\ SyncInv' /\ Waits' /\ watching' \in BOOLEAN
        /\ lock' \in [Paths -> Writers \cup {Nobody}]
    BY <1>1, <1>3, <2>1, PassEnds
  <2>. QED
    BY <1>4, <2>2, <2>3, PassWrites DEF ReplayReceive, OtherTypes
<1>6. CASE ~Refused(x.answer)
  <2>1. PICK c : c = Load(DOMAIN x.answer.gens)
    OBVIOUS
  <2>2. PICK s : s = [x EXCEPT !.pc = "ack", !.copy = c]
    OBVIOUS
  <2>3. /\ DOMAIN s = DOMAIN NoPass /\ s.by = x.by /\ s.pc = "ack" /\ s.todo = x.todo
        /\ s.queue = x.queue /\ s.answer = x.answer /\ s.copy = c
    <3>1. DOMAIN x = DOMAIN NoPass
      BY <1>1 DEF SyncOK
    <3>. QED  BY <2>2, <3>1 DEF NoPass
  <2>4. DOMAIN x.answer.gens \subseteq Paths
    BY <1>2, <1>3, <1>6, BatchFacts DEF AnswerOK
  <2>5. CopyOK(c, DOMAIN x.answer.gens)
    BY <2>1, <2>4, LoadOK
  <2>6. SyncOK(s)
    BY <1>1, <1>6, <2>3, <2>5 DEF SyncOK
  <2>7. SyncOK(s)'
    BY <1>3, <2>6, SyncKept
  <2>8. sync' = s /\ UNCHANGED <<writer, lock, watching, outbox>>
    BY <1>1, <1>6, <2>1, <2>2 DEF ReplayReceive
  <2>9. /\ WriterInv' /\ SyncInv' /\ Waits' /\ watching' \in BOOLEAN
        /\ lock' \in [Paths -> Writers \cup {Nobody}]
    BY <1>1, <1>3, <2>3, <2>7, <2>8, PassGoes
  <2>. QED
    BY <1>1, <2>8, <2>9, PassLooks DEF ReplayReceive, OtherTypes
<1>. QED
  BY <1>5, <1>6

LEMMA ReplayAckInv ==
  ASSUME Inv, ReplayAck
  PROVE  Inv'
<1> USE DEF Inv
<1>1. PICK x : x = sync /\ SyncOK(x) /\ x.pc = "ack"
  BY DEF SyncInv, ReplayAck
<1>2. PICK n, a, c :
         /\ n \in DOMAIN batches
         /\ n = Oldest /\ n = Min(DOMAIN x.queue) /\ a = x.answer /\ c = x.copy
  BY <1>1, OldestIn DEF Oldest, Queued, SyncOK
<1>3. AnswerOK(n, a) /\ ~Refused(a) /\ CopyOK(c, DOMAIN a.gens) /\ Ack(n, c, a.gens)
  BY <1>1, <1>2 DEF SyncOK, ReplayAck
<1>4. Later /\ LogTypes
  BY CalmParts DEF ReplayAck
<1>5. /\ OutboxInv' /\ ReplicaInv' /\ mixed' \subseteq Paths
      /\ session' \in [Paths -> {"none", "idle", "prepared", "confirmed"}]
  BY <1>2, <1>3, AckStep DEF ReplayAck
<1>6. PICK d, e, u : d = NoCopy /\ e = NoAnswer /\ u = [m \in Queued \ {Oldest} |-> sync.queue[m]]
  OBVIOUS
<1>7. PICK s : s = [x EXCEPT !.pc = "replay", !.copy = d, !.answer = e, !.queue = u]
  OBVIOUS
<1>8. /\ DOMAIN s = DOMAIN NoPass /\ s.by = x.by /\ s.pc = "replay" /\ s.todo = x.todo
      /\ s.queue = u
  <2>1. DOMAIN x = DOMAIN NoPass
    BY <1>1 DEF SyncOK
  <2>. QED  BY <1>7, <2>1 DEF NoPass
<1>9. DOMAIN u \subseteq DOMAIN x.queue
  BY <1>1, <1>6 DEF Queued
<1>10. SyncOK(s)
  BY <1>1, <1>8, <1>9 DEF SyncOK
<1>11. SyncOK(s)'
  BY <1>4, <1>10, SyncKept
<1>12. sync' = s /\ UNCHANGED <<writer, lock, watching, faults>>
  BY <1>1, <1>6, <1>7 DEF ReplayAck
<1>13. /\ WriterInv' /\ SyncInv' /\ Waits' /\ watching' \in BOOLEAN
       /\ lock' \in [Paths -> Writers \cup {Nobody}]
  BY <1>1, <1>4, <1>8, <1>11, <1>12, PassGoes
<1>14. ready' \subseteq Paths
  <2>1. DOMAIN a.gens \subseteq Paths
    BY <1>2, <1>3, <1>4, BatchFacts DEF AnswerOK
  <2>. QED  BY <1>1, <1>2, <2>1 DEF ReplayAck, OtherTypes
<1>. QED
  BY <1>5, <1>12, <1>13, <1>14, PassWrites DEF ReplayAck

-----------------------------------------------------------------------------
(* The specification.                                                      *)

LEMMA InitInv == Init => Inv
<1> SUFFICES ASSUME Init PROVE Inv
  OBVIOUS
<1>1. PICK one : one = [p \in Paths |-> <<[k \in KeysOf(p) |-> Absent]>>] /\ log = one
  BY DEF Init
<1>2. Absent \in Records /\ Absent.by = 0
  BY DEF Absent, Records
<1>3. ASSUME NEW p \in Paths
      PROVE  /\ log[p] = <<[k \in KeysOf(p) |-> Absent]>> /\ Gen(p) = 1
             /\ log[p] \in Seq([KeysOf(p) -> Records])
             /\ log[p][1] = [k \in KeysOf(p) |-> Absent]
  <2>1. PICK e : e = [k \in KeysOf(p) |-> Absent]
    OBVIOUS
  <2>2. e \in [KeysOf(p) -> Records]
    BY <1>2, <2>1
  <2>3. log[p] = <<e>>
    BY <1>1, <2>1
  <2>. QED  BY <2>1, <2>2, <2>3 DEF Gen
<1>4. \A p \in Paths : \A k \in KeysOf(p) : log[p][1][k] = Absent
  BY <1>3
<1>5. LogInv
  <2>1. \A p \in Paths : \A g \in 1 .. Gen(p) : g = 1
    <3>1. \A g \in 1 .. 1 : g = 1
      OBVIOUS
    <3>. QED  BY <1>3, <3>1
  <2>2. LogTypes
    BY <1>1, <1>3 DEF LogTypes
  <2>3. \A p \in Paths : \A g \in 1 .. Gen(p) : \A k \in KeysOf(p) : log[p][g][k] = Absent
    BY <1>4, <2>1
  <2>. QED  BY <2>2, <2>3, <1>2 DEF LogInv
<1>6. BatchInv
  BY EmptySeq DEF Init, BatchInv
<1>7. OutboxInv
  BY DEF Init, OutboxInv
<1>8. ReplicaInv
  <2>1. ASSUME NEW k \in Keys PROVE Absent \in Served(k)
    <3>1. PathOf[k] \in Paths /\ k \in KeysOf(PathOf[k])
      BY PathIn DEF KeysOf
    <3>2. log[PathOf[k]][1][k] = Absent /\ 1 \in 1 .. Gen(PathOf[k])
      <4>1. Gen(PathOf[k]) = 1
        <5>1. \A p \in Paths : Gen(p) = 1
          BY <1>3
        <5>. QED  BY <3>1, <5>1
      <4>2. log[PathOf[k]][1][k] = Absent
        BY <1>4, <3>1
      <4>. QED  BY <4>1, <4>2
    <3>. QED  BY <3>2 DEF Served
  <2>. QED  BY <1>3, <2>1 DEF Init, ReplicaInv
<1>9. WriterInv
  <2>1. PICK r : r = Away /\ WriterOK(r)
    BY AwayOK
  <2>2. writer = [w \in Writers |-> r]
    BY <2>1 DEF Init
  <2>. QED  BY <2>1, <2>2 DEF WriterInv
<1>10. SyncInv /\ Waits
  BY IdleOK DEF Init, SyncInv, Waits, NoPass
<1>11. OtherTypes
  <2>1. lock \in [Paths -> Writers \cup {Nobody}]
    BY DEF Init
  <2>2. session \in [Paths -> {"none", "idle", "prepared", "confirmed"}]
    BY DEF Init
  <2>3. remote \in 0 .. MaxRemote /\ faults \in 0 .. MaxFault
    BY BoundAssumption DEF Init
  <2>4. ready \subseteq Paths /\ mixed \subseteq Paths /\ watching \in BOOLEAN
    BY DEF Init
  <2>. QED  BY <2>1, <2>2, <2>3, <2>4 DEF OtherTypes
<1>. QED
  BY <1>5, <1>6, <1>7, <1>8, <1>9, <1>10, <1>11 DEF Inv

LEMMA StutterInv ==
  ASSUME Inv, UNCHANGED vars
  PROVE  Inv'
<1> USE DEF Inv, vars
<1>1. Later /\ LogInv' /\ BatchInv' /\ LogTypes
  BY CalmParts
<1>2. OutboxInv' /\ ReplicaInv' /\ WriterInv' /\ SyncInv'
  BY <1>1, OutboxKept, ReplicaKept, WriterSame, SyncSame
<1>3. Waits' /\ OtherTypes'
  BY DEF OtherTypes, Waits
<1>. QED
  BY <1>1, <1>2, <1>3

\* The invariant of the replica, of the outbox and of everybody at work on them.
THEOREM ReplicaInvariant == Spec => []Inv
<1>1. Inv /\ [Next]_vars => Inv'
  <2>1. SUFFICES ASSUME Inv, [Next]_vars PROVE Inv'
    OBVIOUS
  <2>2. CASE UNCHANGED vars
    BY <2>1, <2>2, StutterInv
  <2>3. ASSUME NEW k \in Keys, RemoteWrite(k) PROVE Inv'
    BY <2>1, <2>3, RemoteWriteInv
  <2>4. ASSUME NEW w \in Writers, Update(w) PROVE Inv'
    BY <2>1, <2>4, WaitReadyInv, SyncHereInv, LockPathsInv, ReadRecordsInv, QueueInv, SubmitInv,
       ReceiveInv, AckBatchInv, LoadAgainInv, ApplyAgainInv DEF Update
  <2>5. ASSUME NEW w \in Writers, NEW u \in Updates, Call(w, u) PROVE Inv'
    BY <2>1, <2>5, CallInv
  <2>6. CASE Pass
    BY <2>1, <2>6, SyncMetaInv, SyncSnapshotInv, ApplySnapshotInv, LoadOverlayInv, WriteOverlayInv,
       LoadOutboxInv, ReplayInv, ReplayEndsInv, ReplayReceiveInv, ReplayAckInv DEF Pass
  <2>7. CASE BeginPass
    BY <2>1, <2>7, BeginPassInv
  <2>8. CASE Crash
    BY <2>1, <2>8, CrashInv
  <2>9. ASSUME NEW p \in Paths, WatchEnds(p) PROVE Inv'
    BY <2>1, <2>9, WatchEndsInv
  <2>. QED
    BY <2>1, <2>2, <2>3, <2>4, <2>5, <2>6, <2>7, <2>8, <2>9 DEF Next
<1>. QED
  BY InitInv, <1>1, PTL DEF Spec

\* Every variable keeps its kind of value.
THEOREM TypeCorrect == Spec => []TypeOK
<1>1. Inv => TypeOK
  <2>1. SUFFICES ASSUME Inv PROVE TypeOK
    OBVIOUS
  <2>2. DOMAIN log = Paths /\ \A p \in Paths : log[p] \in Seq([KeysOf(p) -> Records]) /\ Gen(p) > 0
    BY <2>1 DEF Inv, LogInv, LogTypes
  <2>3. \A k \in Keys : \A r \in Served(k) : r \in Records
    <3>1. SUFFICES ASSUME NEW k \in Keys, NEW g \in 1 .. Gen(PathOf[k])
                   PROVE  log[PathOf[k]][g][k] \in Records
      BY DEF Served
    <3>2. PathOf[k] \in Paths /\ k \in KeysOf(PathOf[k])
      BY PathIn DEF KeysOf
    <3>3. log[PathOf[k]][g] \in [KeysOf(PathOf[k]) -> Records]
      BY <2>1, <3>2, LogFacts DEF Inv, LogInv
    <3>. QED  BY <3>2, <3>3
  <2>4. DOMAIN confirmed = Keys /\ \A k \in Keys : confirmed[k] \in Records
    BY <2>1, <2>3 DEF Inv, ReplicaInv
  <2>5. /\ DOMAIN base = Paths /\ DOMAIN meta = Paths
        /\ \A p \in Paths : base[p] \in 0 .. Gen(p) /\ meta[p] \in 0 .. Gen(p)
    BY <2>1 DEF Inv, ReplicaInv
  <2>7. applied \subseteq DOMAIN batches /\ DOMAIN outbox \subseteq DOMAIN batches
        /\ \A n \in DOMAIN outbox : outbox[n] \in States
    BY <2>1 DEF Inv, BatchInv, OutboxInv
  <2>8. DOMAIN writer = Writers /\ sync.by \in Writers \cup {Worker, Nobody}
    BY <2>1 DEF Inv, WriterInv, SyncInv, SyncOK
  <2>. QED
    BY <2>1, <2>2, <2>4, <2>5, <2>7, <2>8 DEF TypeOK, Inv, OtherTypes
<1>. QED
  BY ReplicaInvariant, <1>1, PTL

\* A batch that was signed waits in the outbox or was applied, through lost
\* answers, refusals, replays beside the foreground and restarts.
THEOREM BatchesSurvive == Spec => []Durable
<1>1. Inv => Durable
  BY DEF Inv, OutboxInv, Durable
<1>. QED
  BY ReplicaInvariant, <1>1, PTL

\* The confirmed replica is the state of its generation unless a stale copy was
\* written back, and a batch replaces records of the generation it names.
THEOREM ReplicaIsGeneration == Spec => []ReplicaIsBaseline
<1>1. Inv => ReplicaIsBaseline
  <2>1. SUFFICES ASSUME Inv PROVE ReplicaIsBaseline
    OBVIOUS
  <2>2. \A n \in DOMAIN batches : BatchOK(batches[n], n)
    BY <2>1 DEF Inv, BatchInv
  <2>. QED  BY <2>1, <2>2 DEF Inv, ReplicaInv, BatchOK, ReplicaIsBaseline
<1>. QED
  BY ReplicaInvariant, <1>1, PTL

\* Without somebody else's write no batch ends in conflict, however often it is
\* submitted.
THEOREM ConflictsHaveRivals == Spec => []ConflictHasRival
<1>1. Inv => ConflictHasRival
  BY DEF Inv, OutboxInv, Rival, ConflictHasRival
<1>. QED
  BY ReplicaInvariant, <1>1, PTL
=============================================================================
