----------------------- MODULE ChannelSplicingProofs ------------------------
(***************************************************************************)
(* What is proved of splicing, for any calls in any number, any faults and *)
(* any number of restarts.                                                 *)
(***************************************************************************)
EXTENDS ChannelSplicing, FiniteSetTheorems, SequenceTheorems, TLAPS

USE DEF calls, channel, reservations

-----------------------------------------------------------------------------
(* The shape of the state.                                                 *)

CallSteps == {"idle", "fetched", "locked", "asked", "signed", "acked", "recorded",
              "handling", "failing", "wait", "done"}

\* A call between its two ends has an object.
Holding == \A s \in Splices : call[s] \notin {"idle", "done"} => hold[s] \in Objects

\* A handler has a splice, and the one a call starts has that of the call; a
\* splicing-in waits for it.
Busy ==
  /\ \A t \in Threads : run[t].at # "idle" => run[t].s \in Splices
  /\ \A t \in Threads : run[t].at = "lock" => run[t].o \in Objects
  /\ \A t \in Threads : run[t].at = "splice" => Kind(run[t].s) = "in"
  /\ \A s \in Splices : run[s].at # "idle" =>
       run[s].s = s /\ (Kind(s) = "in" => call[s] = "handling")

\* There is one object more than calls that have failed.
Over == {s \in Splices : call[s] = "done"}
Counted == cur <= Cardinality(Over) + 1

Shape == TypeOK /\ Holding /\ Busy /\ Counted

LEMMA Constants ==
  ASSUME NEW c \in Courses
  PROVE  /\ Len(c) \in Nat
         /\ \A s \in 1 .. Len(c) : c[s].kind \in Kinds /\ c[s].all \in BOOLEAN
<1>1. c \in Seq([kind : Kinds, all : BOOLEAN])
  BY CoursesAssumption
<1>2. Len(c) \in Nat
  BY <1>1, LenProperties
<1>3. \A s \in 1 .. Len(c) : c[s] \in [kind : Kinds, all : BOOLEAN]
  BY <1>1, ElementOfSeq
<1>. QED
  BY <1>2, <1>3

LEMMA Splitting ==
  ASSUME TypeOK
  PROVE  /\ Len(course) \in Nat /\ Splices \subseteq Nat /\ Objects \subseteq Nat
         /\ \A s \in Splices : Kind(s) \in Kinds /\ s \notin Ticks
         /\ Splices \subseteq Threads /\ Ticks \subseteq Threads
         /\ 0 \notin Splices /\ 0 \notin Objects
BY Constants, TicksAssumption DEF TypeOK, Splices, Objects, Threads, Ticks, Kind

LEMMA InitShape == Init => Shape
<1>. SUFFICES ASSUME Init PROVE Shape
  OBVIOUS
<1>1. Len(course) \in Nat /\ NoSplice \in Channel
  BY Constants DEF Init, NoSplice, Channel
<1>2. IdleThread \in [at : Places, s : Splices \cup {0}, o : Objects \cup {0}]
  BY DEF IdleThread, Places
<1>3. 1 \in Objects
  BY <1>1 DEF Objects
<1>4. tx \in [Splices -> [{"splice", "anchor"} -> {None, "pool", "confirmed"}]]
  BY DEF Init
<1>5. restarts \in 0 .. MaxRestart
  BY RestartAssumption DEF Init
<1>6. TypeOK
  BY <1>1, <1>2, <1>3, <1>4, <1>5 DEF Init, TypeOK, Statuses, None
<1>7. Holding /\ Busy
  BY <1>6, Splitting DEF Init, Holding, Busy, IdleThread
<1>8. Counted
  <2>1. Over = {}
    BY DEF Init, Over
  <2>. QED
    BY <2>1, FS_EmptySet DEF Init, Counted
<1>. QED
  BY <1>6, <1>7, <1>8 DEF Shape

\* As long as the calls that are over stay so, the object in channelMap is one
\* of the first.
LEMMA OverFinite ==
  ASSUME TypeOK
  PROVE  IsFiniteSet(Over) /\ Cardinality(Over) \in 0 .. Len(course)
<1>1. IsFiniteSet(Splices) /\ Cardinality(Splices) = Len(course)
  <2>1. Len(course) \in Nat
    BY Splitting
  <2>2. /\ IsFiniteSet(1 .. Len(course))
        /\ Cardinality(1 .. Len(course)) = IF 1 > Len(course) THEN 0 ELSE Len(course) - 1 + 1
    BY <2>1, FS_Interval
  <2>. QED
    BY <2>1, <2>2 DEF Splices
<1>2. IsFiniteSet(Over) /\ Cardinality(Over) <= Cardinality(Splices)
  BY <1>1, FS_Subset DEF Over
<1>. QED
  BY <1>1, <1>2, FS_CardinalityType, Splitting

LEMMA CountKept ==
  ASSUME Shape, UNCHANGED <<course, cur>>, TypeOK',
         \A s \in Splices : call[s] = "done" => call'[s] = "done"
  PROVE  Counted'
<1>. USE DEF Shape
<1>1. Splices' = Splices
  BY DEF Splices
<1>2. Over \in SUBSET (Over')
  BY <1>1 DEF Over
<1>3. IsFiniteSet(Over') /\ Cardinality(Over') \in Nat
  <2>1. IsFiniteSet(Splices)
    BY Splitting, FS_Interval DEF Splices
  <2>2. Over' \in SUBSET Splices
    BY <1>1 DEF Over
  <2>3. IsFiniteSet(Over')
    BY <2>1, <2>2, FS_Subset
  <2>. QED
    BY <2>3, FS_CardinalityType
<1>4. Cardinality(Over) <= Cardinality(Over')
  BY <1>2, <1>3, FS_Subset
<1>. QED
  BY <1>3, <1>4, OverFinite, Splitting DEF Counted, TypeOK

-----------------------------------------------------------------------------
(* The calls keep the shape.                                               *)

\* A step of a call that starts and ends no handler.
LEMMA CallStep ==
  ASSUME Shape, TypeOK', UNCHANGED <<course, cur, run>>, Holding',
         NEW s \in Splices, \A r \in Splices : r # s => call'[r] = call[r],
         call[s] # "done",
         call[s] = "handling" => run[s].at = "idle" \/ Out(s)
  PROVE  Shape'
<1>1. Splices' = Splices /\ Objects' = Objects /\ Threads' = Threads /\ Splices \subseteq Threads
  BY Splitting DEF Splices, Objects, Threads, Shape
<1>2. Busy'
  BY <1>1 DEF Busy, Shape, Kind, Out
<1>3. Counted'
  BY CountKept DEF Shape
<1>. QED
  BY <1>2, <1>3 DEF Shape

LEMMA FetchShape == ASSUME Shape, NEW s \in Splices, Fetch(s) PROVE Shape'
<1>. USE DEF Shape, Fetch, At, CallTo
<1>1. Splices' = Splices /\ Objects' = Objects /\ Threads' = Threads
  BY DEF Splices, Objects, Threads
<1>2. TypeOK'
  BY <1>1 DEF TypeOK, Channel
<1>3. Holding'
  BY <1>1 DEF TypeOK, Holding
<1>. QED
  BY <1>1, <1>2, <1>3, CallStep DEF TypeOK

LEMMA AcquireShape == ASSUME Shape, NEW s \in Splices, Acquire(s) PROVE Shape'
<1>. USE DEF Shape, Acquire, At, CallTo
<1>1. Splices' = Splices /\ Objects' = Objects /\ Threads' = Threads
  BY DEF Splices, Objects, Threads
<1>2. TypeOK'
  BY <1>1 DEF TypeOK, Channel
<1>3. Holding'
  BY <1>1 DEF TypeOK, Holding
<1>. QED
  BY <1>1, <1>2, <1>3, CallStep DEF TypeOK

LEMMA NotAllowedShape == ASSUME Shape, NEW s \in Splices, NotAllowed(s) PROVE Shape'
<1>. USE DEF Shape, NotAllowed, At, CallTo, Release
<1>1. Splices' = Splices /\ Objects' = Objects /\ Threads' = Threads
  BY DEF Splices, Objects, Threads
<1>2. TypeOK'
  BY <1>1 DEF TypeOK, Channel
<1>3. Holding'
  BY <1>1 DEF TypeOK, Holding
<1>. QED
  BY <1>1, <1>2, <1>3, CallStep DEF TypeOK

LEMMA AskShape == ASSUME Shape, NEW s \in Splices, Ask(s) PROVE Shape'
<1>. USE DEF Shape, Ask, At, CallTo
<1>1. Splices' = Splices /\ Objects' = Objects /\ Threads' = Threads
  BY DEF Splices, Objects, Threads
<1>2. hold[s] \in Objects /\ obj[hold[s]] \in Channel
  BY DEF Holding, TypeOK
<1>3. [has |-> obj[hold[s]].has \cup {s},
       pending |-> obj[hold[s]].pending \cup (IF NeedSendSplicingTx(s) THEN {s} ELSE {})]
        \in Channel
  BY <1>2 DEF Channel
<1>4. obj' \in [Objects -> Channel]
  BY <1>3 DEF TypeOK
<1>5. TypeOK'
  BY <1>1, <1>4 DEF TypeOK, Channel
<1>6. Holding'
  BY <1>1 DEF TypeOK, Holding
<1>. QED
  BY <1>1, <1>5, <1>6, CallStep DEF TypeOK

LEMMA SignShape == ASSUME Shape, NEW s \in Splices, Sign(s) PROVE Shape'
<1>. USE DEF Shape, Sign, At, CallTo
<1>1. Splices' = Splices /\ Objects' = Objects /\ Threads' = Threads
  BY DEF Splices, Objects, Threads
<1>2. TypeOK'
  BY <1>1 DEF TypeOK, Channel
<1>3. Holding'
  BY <1>1 DEF TypeOK, Holding
<1>. QED
  BY <1>1, <1>2, <1>3, CallStep DEF TypeOK

LEMMA AckShape == ASSUME Shape, NEW s \in Splices, Ack(s) PROVE Shape'
<1>. USE DEF Shape, Ack, At, CallTo
<1>1. Splices' = Splices /\ Objects' = Objects /\ Threads' = Threads
  BY DEF Splices, Objects, Threads
<1>2. TypeOK'
  BY <1>1 DEF TypeOK, Channel
<1>3. Holding'
  BY <1>1 DEF TypeOK, Holding
<1>. QED
  BY <1>1, <1>2, <1>3, CallStep DEF TypeOK

LEMMA SetType ==
  ASSUME TypeOK, NEW s \in Splices, NEW st \in Statuses, NEW ok \in BOOLEAN, Set(s, st, ok)
  PROVE  /\ status' \in [Splices -> Statuses] /\ saved' \in [Splices -> Statuses]
         /\ upset' \in BOOLEAN
         /\ \A r \in Splices : /\ status'[r] = IF r = s THEN st ELSE status[r]
                               /\ saved'[r] \in (IF r = s THEN {st, saved[r]} ELSE {saved[r]})
BY DEF Set, Result, TypeOK

LEMMA SetFrame ==
  ASSUME TypeOK, NEW s \in Splices, NEW st \in Statuses, NEW ok \in BOOLEAN, Set(s, st, ok)
  PROVE  /\ status'[s] = st /\ (saved'[s] = st \/ saved'[s] = saved[s])
         /\ \A r \in Splices \ {s} : status'[r] = status[r] /\ saved'[r] = saved[r]
<1>1. /\ DOMAIN status = Splices /\ DOMAIN saved = Splices
      /\ status' = [status EXCEPT ![s] = st]
      /\ saved' = [saved EXCEPT ![s] = st] \/ saved' = saved
  BY DEF Set, TypeOK
<1>. QED
  BY <1>1

LEMMA SaveStartedShape == ASSUME Shape, NEW s \in Splices, SaveStarted(s) PROVE Shape'
<1>. USE DEF Shape, SaveStarted, At, CallTo
<1>1. Splices' = Splices /\ Objects' = Objects /\ Threads' = Threads
  BY DEF Splices, Objects, Threads
<1>2. PICK ok \in BOOLEAN : Set(s, "STARTED", ok) /\ CallTo(s, IF ok THEN "recorded" ELSE "failing")
  OBVIOUS
<1>3. /\ status' \in [Splices -> Statuses] /\ saved' \in [Splices -> Statuses]
      /\ upset' \in BOOLEAN
  BY <1>2, SetType DEF Statuses
<1>4. TypeOK'
  BY <1>1, <1>2, <1>3 DEF TypeOK, Channel
<1>5. Holding'
  BY <1>1, <1>2 DEF TypeOK, Holding
<1>. QED
  BY <1>1, <1>2, <1>4, <1>5, CallStep DEF TypeOK

LEMMA ReturnShape == ASSUME Shape, NEW s \in Splices, Return(s) PROVE Shape'
<1>. USE DEF Shape, Return, At, CallTo, Release
<1>1. Splices' = Splices /\ Objects' = Objects /\ Threads' = Threads
  BY DEF Splices, Objects, Threads
<1>2. TypeOK'
  BY <1>1 DEF TypeOK, Channel
<1>3. Holding'
  BY <1>1 DEF TypeOK, Holding
<1>. QED
  BY <1>1, <1>2, <1>3, CallStep DEF TypeOK

LEMMA WaitOverShape == ASSUME Shape, NEW s \in Splices, WaitOver(s) PROVE Shape'
<1>. USE DEF Shape, WaitOver, At, CallTo, Release
<1>1. Splices' = Splices /\ Objects' = Objects /\ Threads' = Threads
  BY DEF Splices, Objects, Threads
<1>2. TypeOK'
  BY <1>1 DEF TypeOK, Channel
<1>3. Holding'
  BY <1>1 DEF TypeOK, Holding
<1>. QED
  BY <1>1, <1>2, <1>3, CallStep DEF TypeOK

LEMMA SaveChannelShape == ASSUME Shape, NEW s \in Splices, SaveChannel(s) PROVE Shape'
<1>. USE DEF Shape, SaveChannel, At
<1>1. Splices' = Splices /\ Objects' = Objects /\ Threads' = Threads
  BY DEF Splices, Objects, Threads
<1>2. PICK ok \in BOOLEAN :
        /\ disk' \in (IF ok THEN {obj[hold[s]]} ELSE {disk, obj[hold[s]]})
        /\ Result(ok)
        /\ resv' = IF ok THEN resv \cup {s} ELSE resv
        /\ run' = IF ok THEN [run EXCEPT ![s] = [at |-> "start", s |-> s, o |-> 0]] ELSE run
        /\ CallTo(s, IF ok THEN "handling" ELSE "failing")
  OBVIOUS
<1>3. disk' \in Channel
  BY <1>2 DEF Holding, TypeOK
<1>4. upset' \in BOOLEAN
  BY <1>2 DEF Result, TypeOK
<1>5. run' \in [Threads -> [at : Places, s : Splices \cup {0}, o : Objects \cup {0}]]
  <2>1. [at |-> "start", s |-> s, o |-> 0] \in [at : Places, s : Splices \cup {0}, o : Objects \cup {0}]
    BY DEF Places
  <2>. QED
    BY <1>2, <2>1 DEF TypeOK
<1>6. TypeOK'
  BY <1>1, <1>2, <1>3, <1>4, <1>5 DEF TypeOK, CallTo, Channel
<1>7. Holding'
  BY <1>1, <1>2 DEF TypeOK, Holding, CallTo
<1>8. Busy'
  <2>1. \A r \in Splices : r # s => call'[r] = call[r] /\ run'[r] = run[r]
    BY <1>2, Splitting DEF TypeOK, CallTo
  <2>2. \A t \in Threads : t # s => run'[t] = run[t]
    BY <1>2 DEF TypeOK
  <2>3. CASE ok
    <3>1. run'[s] = [at |-> "start", s |-> s, o |-> 0] /\ call'[s] = "handling"
      BY <2>3, <1>2, Splitting DEF TypeOK, CallTo
    <3>. QED
      BY <1>1, <2>1, <2>2, <3>1 DEF Busy, Kind
  <2>4. CASE ~ok
    <3>1. run' = run
      BY <2>4, <1>2
    <3>. QED
      BY <1>1, <2>1, <3>1 DEF Busy, Kind
  <2>. QED
    BY <2>3, <2>4
<1>9. Counted'
  BY <1>2, <1>6, CountKept DEF TypeOK, CallTo
<1>. QED
  BY <1>6, <1>7, <1>8, <1>9

LEMMA FailShape == ASSUME Shape, NEW s \in Splices, Fail(s) PROVE Shape'
<1>. USE DEF Shape, Fail, At, CallTo, Release
<1>1. Splices' = Splices /\ Objects' = Objects /\ Threads' = Threads
  BY DEF Splices, Objects, Threads
<1>2. s \notin Over /\ Over' = Over \cup {s}
  BY <1>1 DEF Over, TypeOK
<1>3. IsFiniteSet(Over') /\ Cardinality(Over') = Cardinality(Over) + 1
  BY <1>2, OverFinite, FS_AddElement
<1>4. Cardinality(Over') <= Len(course)
  <2>1. Over' \in SUBSET Splices /\ IsFiniteSet(Splices)
    BY <1>1, Splitting, FS_Interval DEF Over, Splices
  <2>2. Cardinality(Over') <= Cardinality(Splices)
    BY <2>1, FS_Subset
  <2>3. Cardinality(Splices) = IF 1 > Len(course) THEN 0 ELSE Len(course) - 1 + 1
    BY Splitting, FS_Interval DEF Splices
  <2>4. Cardinality(Over') \in Nat /\ Len(course) \in Nat
    BY <1>3, FS_CardinalityType, Splitting
  <2>. QED
    BY <2>2, <2>3, <2>4
<1>5. cur + 1 \in Objects /\ Counted'
  <2>1. cur \in Nat /\ cur >= 1 /\ Len(course) \in Nat /\ Cardinality(Over) \in Nat
    BY OverFinite, Splitting DEF TypeOK, Objects
  <2>. QED
    BY <2>1, <1>3, <1>4 DEF Counted, Objects, TypeOK
<1>6. PICK ok \in BOOLEAN : disk' = (IF ok THEN old[s] ELSE disk) /\ Result(ok)
  OBVIOUS
<1>7. disk' \in Channel /\ upset' \in BOOLEAN
  BY <1>6 DEF Result, TypeOK
<1>8. obj' \in [Objects -> Channel]
  BY DEF TypeOK
<1>9. TypeOK'
  BY <1>1, <1>5, <1>7, <1>8 DEF TypeOK, Channel
<1>10. Holding'
  BY <1>1 DEF TypeOK, Holding
<1>11. Busy'
  BY <1>1, Splitting DEF Busy, TypeOK, Kind
<1>. QED
  BY <1>5, <1>9, <1>10, <1>11

-----------------------------------------------------------------------------
(* The handlers keep the shape.                                            *)

\* What becomes of the thread of a handler.
RunsOn(t) ==
  /\ run' \in [Threads -> [at : Places, s : Splices \cup {0}, o : Objects \cup {0}]]
  /\ \A r \in Threads : r # t => run'[r] = run[r]
  /\ run'[t].at # "idle" => run'[t].s = run[t].s /\ run[t].at # "idle"
  /\ run'[t].at = "lock" => run'[t].o \in Objects
  /\ run'[t].at = "splice" => Kind(run[t].s) = "in"

LEMMA GotoRuns ==
  ASSUME Shape, NEW t \in Threads, run[t].at # "idle", NEW at \in Places \ {"lock"}, Goto(t, at),
         at = "splice" => Kind(run[t].s) = "in"
  PROVE  RunsOn(t) /\ run'[t].at = at /\ run'[t].s = run[t].s
<1>1. [at |-> at, s |-> run[t].s, o |-> run[t].o]
        \in [at : Places, s : Splices \cup {0}, o : Objects \cup {0}]
  BY DEF Shape, TypeOK
<1>2. run' = [run EXCEPT ![t] = [at |-> at, s |-> run[t].s, o |-> run[t].o]]
  BY DEF Goto
<1>3. run' \in [Threads -> [at : Places, s : Splices \cup {0}, o : Objects \cup {0}]]
  BY <1>1, <1>2 DEF Shape, TypeOK
<1>4. run'[t] = [at |-> at, s |-> run[t].s, o |-> run[t].o]
  BY <1>2 DEF Shape, TypeOK
<1>5. \A r \in Threads : r # t => run'[r] = run[r]
  BY <1>2 DEF Shape, TypeOK
<1>. QED
  BY <1>3, <1>4, <1>5 DEF RunsOn

LEMMA LeaveRuns ==
  ASSUME Shape, NEW t \in Threads, Leave(t)
  PROVE  RunsOn(t) /\ run'[t].at = "idle"
<1>1. IdleThread \in [at : Places, s : Splices \cup {0}, o : Objects \cup {0}]
  BY DEF IdleThread, Places
<1>2. run' = [run EXCEPT ![t] = IdleThread]
  BY DEF Leave
<1>3. run' \in [Threads -> [at : Places, s : Splices \cup {0}, o : Objects \cup {0}]]
  BY <1>1, <1>2 DEF Shape, TypeOK
<1>4. run'[t] = IdleThread
  BY <1>2 DEF Shape, TypeOK
<1>5. \A r \in Threads : r # t => run'[r] = run[r]
  BY <1>2 DEF Shape, TypeOK
<1>. QED
  BY <1>3, <1>4, <1>5 DEF RunsOn, IdleThread

\* A step of a handler, which at most makes its own call fail as it ends.
LEMMA HandlerStep ==
  ASSUME Shape, TypeOK', UNCHANGED <<course, cur, hold>>, NEW t \in Threads, RunsOn(t),
         \/ call' = call
         \/ /\ t \in Splices /\ run[t].at # "idle" /\ Kind(t) = "in" /\ run'[t].at = "idle"
            /\ call' = [call EXCEPT ![t] = "failing"]
  PROVE  Shape'
<1>. USE DEF Shape
<1>1. Splices' = Splices /\ Objects' = Objects /\ Threads' = Threads /\ Splices \subseteq Threads
  BY Splitting DEF Splices, Objects, Threads
<1>2. \A s \in Splices : s # t => call'[s] = call[s]
  BY DEF TypeOK
<1>3. \A s \in Splices : call'[s] # call[s] => /\ call[s] = "handling" /\ call'[s] = "failing"
                                               /\ s = t /\ run'[t].at = "idle"
  BY <1>1, <1>2 DEF TypeOK, Busy
<1>4. Holding'
  BY <1>1, <1>3 DEF Holding
<1>5. Busy'
  BY <1>1, <1>3 DEF Busy, RunsOn, Kind
<1>6. Counted'
  BY <1>3, CountKept
<1>. QED
  BY <1>4, <1>5, <1>6

LEMMA LookAtShape == ASSUME Shape, NEW t \in Ticks, NEW s \in Splices, LookAt(t, s) PROVE Shape'
<1>. USE DEF Shape, LookAt
<1>1. Splices' = Splices /\ Objects' = Objects /\ Threads' = Threads /\ t \in Threads
      /\ Splices \subseteq Threads
  BY Splitting DEF Splices, Objects, Threads
<1>2. Entry(t, s) \in {"idle", "start", "seen", "confirm", "anchored"}
  BY DEF Entry
<1>3. [at |-> Entry(t, s), s |-> s, o |-> 0]
        \in [at : Places, s : Splices \cup {0}, o : Objects \cup {0}]
  BY <1>2 DEF Places, Network
<1>4. TypeOK'
  BY <1>1, <1>3 DEF TypeOK, Channel
<1>5. Holding'
  BY <1>1 DEF Holding
<1>6. Busy'
  <2>1. run'[t] = [at |-> Entry(t, s), s |-> s, o |-> 0] /\ \A r \in Threads : r # t => run'[r] = run[r]
    BY <1>1 DEF TypeOK
  <2>. QED
    BY <1>1, <1>2, <2>1, Splitting DEF Busy, Kind
<1>7. Counted'
  BY <1>4, CountKept
<1>. QED
  BY <1>4, <1>5, <1>6, <1>7

\* A handler that saves a status and goes on, or ends.
LEMMA SetShape ==
  ASSUME Shape, NEW t \in Threads, run[t].at # "idle", NEW ok \in BOOLEAN, NEW st \in Statuses,
         NEW at \in Places \ {"lock", "splice"},
         Set(Of(t), st, ok), IF ok THEN Goto(t, at) ELSE Leave(t),
         UNCHANGED <<course, calls, channel, resv, tx, committed, torn, restarts>>
  PROVE  Shape'
<1>. USE DEF Shape
<1>1. Splices' = Splices /\ Objects' = Objects /\ Threads' = Threads
  BY DEF Splices, Objects, Threads
<1>2. RunsOn(t)
  BY GotoRuns, LeaveRuns
<1>3. Of(t) \in Splices
  BY DEF Busy, Of
<1>4. /\ status' \in [Splices -> Statuses] /\ saved' \in [Splices -> Statuses]
      /\ upset' \in BOOLEAN
  BY <1>3, SetType
<1>5. TypeOK'
  BY <1>1, <1>2, <1>4 DEF TypeOK, Channel, RunsOn
<1>. QED
  BY <1>2, <1>5, HandlerStep

\* One that only goes on, or ends.
LEMMA GoShape ==
  ASSUME Shape, NEW t \in Threads, RunsOn(t),
         UNCHANGED <<course, calls, channel, reservations, tx, committed, torn, upset, restarts>>
  PROVE  Shape'
<1>. USE DEF Shape
<1>1. Splices' = Splices /\ Objects' = Objects /\ Threads' = Threads
  BY DEF Splices, Objects, Threads
<1>2. TypeOK'
  BY <1>1 DEF TypeOK, Channel, RunsOn
<1>. QED
  BY <1>2, HandlerStep

LEMMA StartShape == ASSUME Shape, NEW t \in Threads, Start(t) PROVE Shape'
<1>. USE DEF Start, Is, Of
<1>1. CASE NeedSendSplicingTx(run[t].s)
  <2>1. Kind(run[t].s) = "in" \/ Out(run[t].s)
    BY <1>1 DEF NeedSendSplicingTx, Out
  <2>2. CASE Out(run[t].s)
    BY <1>1, <2>2, GotoRuns, GoShape DEF Places, Network
  <2>3. CASE ~Out(run[t].s)
    BY <1>1, <2>1, <2>3, GotoRuns, GoShape DEF Places, Network
  <2>. QED
    BY <2>2, <2>3
<1>2. CASE ~NeedSendSplicingTx(run[t].s)
  <2>1. PICK ok \in BOOLEAN :
          /\ Set(run[t].s, IF Kind(run[t].s) = "recover" THEN "ANCHOR_CONFIRMED" ELSE "CONFIRMED", ok)
          /\ IF ok THEN Goto(t, IF Kind(run[t].s) = "recover" THEN "close" ELSE "anchor now")
             ELSE Leave(t)
    BY <1>2
  <2>2. CASE Kind(run[t].s) = "recover"
    BY <2>1, <2>2, SetShape DEF Places, Network, Statuses
  <2>3. CASE Kind(run[t].s) # "recover"
    BY <2>1, <2>3, SetShape DEF Places, Network, Statuses
  <2>. QED
    BY <2>2, <2>3
<1>. QED
  BY <1>1, <1>2

LEMMA ConfirmedShape == ASSUME Shape, NEW t \in Threads, Confirmed(t) PROVE Shape'
<1>. USE DEF Confirmed, Is, Of
<1>1. PICK ok \in BOOLEAN :
        /\ Set(run[t].s, IF Kind(run[t].s) = "recover" THEN "ANCHOR_CONFIRMED" ELSE "CONFIRMED", ok)
        /\ IF ok THEN Goto(t, IF Kind(run[t].s) = "recover" THEN "close" ELSE "anchor")
           ELSE Leave(t)
  OBVIOUS
<1>2. CASE Kind(run[t].s) = "recover"
  BY <1>1, <1>2, SetShape DEF Places, Network, Statuses
<1>3. CASE Kind(run[t].s) # "recover"
  BY <1>1, <1>3, SetShape DEF Places, Network, Statuses
<1>. QED
  BY <1>2, <1>3

LEMMA DeAnchorConfirmedShape ==
  ASSUME Shape, NEW t \in Threads, DeAnchorConfirmed(t) PROVE Shape'
<1>1. PICK ok \in BOOLEAN :
        Set(Of(t), "ANCHOR_CONFIRMED", ok) /\ IF ok THEN Goto(t, "pay") ELSE Leave(t)
  BY DEF DeAnchorConfirmed
<1>. QED
  BY <1>1, SetShape DEF DeAnchorConfirmed, Is, Places, Network, Statuses

LEMMA QueriedShape == ASSUME Shape, NEW t \in Threads, Queried(t) PROVE Shape'
<1>1. PICK at \in {"close", "confirm"} : Goto(t, at) /\ run[t].at # "idle"
  BY DEF Queried, Is
<1>2. RunsOn(t)
  BY <1>1, GotoRuns DEF Places
<1>. QED
  BY <1>2, GoShape DEF Queried

LEMMA SentShape == ASSUME Shape, NEW t \in Threads, Sent(t) PROVE Shape'
<1>. USE DEF Sent, Is, Of, Shape
<1>1. Splices' = Splices /\ Objects' = Objects /\ Threads' = Threads
  BY DEF Splices, Objects, Threads
<1>2. CASE run[t].at = "anchor" /\ Goto(t, "enable") /\ UNCHANGED <<status, saved, upset, call>>
  BY <1>2, GotoRuns, GoShape DEF Places
<1>3. CASE /\ run[t].at \in {"splice", "pay", "anchor now"}
           /\ \E ok \in BOOLEAN :
             /\ Set(run[t].s, IF run[t].at = "anchor now" THEN "ANCHOR_BROADCASTED" ELSE "BROADCASTED", ok)
             /\ call' = IF ok \/ t # run[t].s \/ Kind(run[t].s) # "in" THEN call
                        ELSE [call EXCEPT ![run[t].s] = "failing"]
           /\ Leave(t)
  <2>1. run[t].s \in Splices
    BY <1>3 DEF Busy
  <2>2. PICK ok \in BOOLEAN, st \in {"ANCHOR_BROADCASTED", "BROADCASTED"} :
          /\ Set(run[t].s, st, ok)
          /\ call' = IF ok \/ t # run[t].s \/ Kind(run[t].s) # "in" THEN call
                     ELSE [call EXCEPT ![run[t].s] = "failing"]
    BY <1>3
  <2>3. /\ status' \in [Splices -> Statuses] /\ saved' \in [Splices -> Statuses]
        /\ upset' \in BOOLEAN
    BY <2>1, <2>2, SetType DEF Statuses
  <2>4. RunsOn(t) /\ run'[t].at = "idle"
    BY <1>3, LeaveRuns
  <2>5. TypeOK'
    BY <1>1, <2>1, <2>2, <2>3, <2>4 DEF TypeOK, Channel, RunsOn
  <2>6. \/ call' = call
        \/ /\ t \in Splices /\ run[t].at # "idle" /\ Kind(t) = "in"
           /\ call' = [call EXCEPT ![t] = "failing"]
    BY <1>3, <2>1, <2>2
  <2>. QED
    BY <2>4, <2>5, <2>6, HandlerStep
<1>. QED
  BY <1>2, <1>3

LEMMA GiveUpShape == ASSUME Shape, NEW t \in Threads, GiveUp(t) PROVE Shape'
BY LeaveRuns, GoShape DEF GiveUp

LEMMA RefusedShape == ASSUME Shape, NEW t \in Threads, Refused(t) PROVE Shape'
<1>. USE DEF Refused, Is, Of, Shape
<1>1. Splices' = Splices /\ Objects' = Objects /\ Threads' = Threads
  BY DEF Splices, Objects, Threads
<1>2. t \in Splices /\ run[t].s = t /\ Kind(t) = "in"
  BY DEF Threads, Busy
<1>3. RunsOn(t) /\ run'[t].at = "idle"
  BY LeaveRuns
<1>4. TypeOK'
  BY <1>1, <1>2, <1>3 DEF TypeOK, Channel, RunsOn, CallTo
<1>. QED
  BY <1>2, <1>3, <1>4, HandlerStep DEF CallTo

LEMMA EnableUtxosShape == ASSUME Shape, NEW t \in Threads, EnableUtxos(t) PROVE Shape'
<1>. USE DEF EnableUtxos, Is, Of, Shape
<1>1. [at |-> "lock", s |-> run[t].s, o |-> cur]
        \in [at : Places, s : Splices \cup {0}, o : Objects \cup {0}] /\ cur \in Objects
  BY DEF TypeOK, Places
<1>2. RunsOn(t)
  BY <1>1 DEF RunsOn, TypeOK
<1>. QED
  BY <1>2, GoShape

LEMMA EnableUtxoShape == ASSUME Shape, NEW t \in Threads, EnableUtxo_SatsNet(t) PROVE Shape'
<1>. USE DEF EnableUtxo_SatsNet, Is, Of, Shape
<1>1. Splices' = Splices /\ Objects' = Objects /\ Threads' = Threads
  BY DEF Splices, Objects, Threads
<1>. Channel' = Channel
  BY <1>1 DEF Channel
<1>2. run[t].o \in Objects /\ obj[run[t].o] \in Channel
  BY DEF Busy, TypeOK
<1>3. [has |-> obj[run[t].o].has, pending |-> obj[run[t].o].pending \ {run[t].s}] \in Channel
  BY <1>2 DEF Channel
<1>4. obj' \in [Objects -> Channel] /\ disk' \in Channel /\ upset' \in BOOLEAN
  BY <1>3 DEF TypeOK
<1>5. RunsOn(t)
  BY GotoRuns DEF Places
<1>6. TypeOK'
  BY <1>1, <1>4, <1>5 DEF TypeOK, RunsOn
<1>. QED
  BY <1>5, <1>6, HandlerStep

LEMMA RecordAnchorShape == ASSUME Shape, NEW t \in Threads, RecordAnchor(t) PROVE Shape'
<1>. USE DEF RecordAnchor, Is, Of, Shape
<1>1. Splices' = Splices /\ Objects' = Objects /\ Threads' = Threads
  BY DEF Splices, Objects, Threads
<1>2. run[t].s \in Splices
  BY DEF Busy
<1>3. /\ status' \in [Splices -> Statuses] /\ saved' \in [Splices -> Statuses]
      /\ upset' \in BOOLEAN
  BY <1>2, SetType DEF Statuses
<1>4. RunsOn(t)
  BY LeaveRuns
<1>5. TypeOK'
  BY <1>1, <1>3, <1>4 DEF TypeOK, Channel, RunsOn
<1>. QED
  BY <1>4, <1>5, HandlerStep

LEMMA ChannelReadyShape == ASSUME Shape, NEW t \in Threads, ChannelReady(t) PROVE Shape'
<1>. USE DEF ChannelReady, Is, Of, Shape
<1>1. Splices' = Splices /\ Objects' = Objects /\ Threads' = Threads
  BY DEF Splices, Objects, Threads
<1>2. run[t].s \in Splices
  BY DEF Busy
<1>3. /\ status' \in [Splices -> Statuses] /\ saved' \in [Splices -> Statuses]
      /\ upset' \in BOOLEAN
  BY <1>2, SetType DEF Statuses
<1>4. RunsOn(t)
  BY LeaveRuns
<1>5. TypeOK'
  BY <1>1, <1>3, <1>4 DEF TypeOK, Channel, RunsOn
<1>. QED
  BY <1>4, <1>5, HandlerStep

-----------------------------------------------------------------------------
(* The chains, a restart, and every step.                                  *)

LEMMA TxShape ==
  ASSUME Shape, NEW s \in Splices, NEW x \in {"splice", "anchor"},
         NEW st \in {None, "pool", "confirmed"},
         tx' = [tx EXCEPT ![s] = [tx[s] EXCEPT ![x] = st]],
         UNCHANGED <<course, calls, channel, reservations, run, committed, torn, upset, restarts>>
  PROVE  Shape'
<1>. USE DEF Shape
<1>1. Splices' = Splices /\ Objects' = Objects /\ Threads' = Threads
  BY DEF Splices, Objects, Threads
<1>2. [tx[s] EXCEPT ![x] = st] \in [{"splice", "anchor"} -> {None, "pool", "confirmed"}]
  BY DEF TypeOK
<1>3. tx' \in [Splices -> [{"splice", "anchor"} -> {None, "pool", "confirmed"}]]
  BY <1>2 DEF TypeOK
<1>4. TypeOK'
  BY <1>1, <1>3 DEF TypeOK, Channel
<1>5. Holding' /\ Busy'
  BY <1>1 DEF Holding, Busy, Kind
<1>6. Counted'
  BY <1>4, CountKept
<1>. QED
  BY <1>4, <1>5, <1>6

LEMMA DeliverShape == ASSUME Shape, NEW t \in Threads, Deliver(t) PROVE Shape'
<1>1. PICK x \in Target(t) : Reaches(Of(t), x)
  BY DEF Deliver
<1>2. x \in {"splice", "anchor"} /\ run[t].at # "idle"
  BY <1>1 DEF Target
<1>3. Of(t) \in Splices
  BY <1>2 DEF Of, Shape, Busy
<1>. QED
  BY <1>1, <1>2, <1>3, TxShape DEF Reaches, Deliver

LEMMA PeerSendsShape == ASSUME Shape, NEW s \in Splices, PeerSends(s) PROVE Shape'
<1>1. PICK x \in {"splice", "anchor"} : Reaches(s, x)
  BY DEF PeerSends
<1>. QED
  BY <1>1, TxShape DEF Reaches, PeerSends

LEMMA RestartShape == ASSUME Shape, Restart PROVE Shape'
<1>. USE DEF Restart, Shape, At
<1>1. Splices' = Splices /\ Objects' = Objects /\ Threads' = Threads
  BY DEF Splices, Objects, Threads
<1>2. IdleThread \in [at : Places, s : Splices \cup {0}, o : Objects \cup {0}]
  BY DEF IdleThread, Places
<1>3. restarts' \in 0 .. MaxRestart
  BY RestartAssumption DEF TypeOK
<1>4. 1 \in Objects
  BY Splitting DEF Objects
<1>5. TypeOK'
  BY <1>1, <1>2, <1>3, <1>4 DEF TypeOK, Channel
<1>6. Holding'
  BY <1>1 DEF Holding
<1>7. Busy'
  BY <1>1, Splitting DEF Busy, IdleThread
<1>8. Counted'
  <2>1. IsFiniteSet(Splices) /\ Over' \in SUBSET Splices
    BY <1>1, Splitting, FS_Interval DEF Over, Splices
  <2>2. Cardinality(Over') \in Nat
    BY <2>1, FS_Subset, FS_CardinalityType
  <2>. QED
    BY <2>2 DEF Counted
<1>. QED
  BY <1>5, <1>6, <1>7, <1>8

LEMMA StutterShape == ASSUME Shape, UNCHANGED vars PROVE Shape'
<1>. USE DEF Shape, vars
<1>1. Splices' = Splices /\ Objects' = Objects /\ Threads' = Threads
  BY DEF Splices, Objects, Threads
<1>2. TypeOK'
  BY <1>1 DEF TypeOK, Channel
<1>3. Holding' /\ Busy' /\ Counted'
  BY <1>1 DEF Holding, Busy, Kind, Counted, Over
<1>. QED
  BY <1>2, <1>3

LEMMA NextShape == Shape /\ [Next]_vars => Shape'
<1>. SUFFICES ASSUME Shape, [Next]_vars PROVE Shape'
  OBVIOUS
<1>1. ASSUME NEW s \in Splices, Call(s) PROVE Shape'
  BY <1>1, FetchShape, AcquireShape, NotAllowedShape, AskShape, SignShape, AckShape,
     SaveStartedShape, SaveChannelShape, FailShape, ReturnShape, WaitOverShape DEF Call
<1>2. CASE Monitor
  BY <1>2, LookAtShape DEF Monitor
<1>3. ASSUME NEW t \in Threads, Local(t) \/ Remote(t) \/ Errors(t) PROVE Shape'
  <2>1. CASE Local(t)
    BY <2>1, StartShape, ConfirmedShape, EnableUtxosShape, EnableUtxoShape, RecordAnchorShape,
       ChannelReadyShape DEF Local
  <2>2. CASE Remote(t)
    BY <2>2, DeAnchorConfirmedShape, QueriedShape, DeliverShape, SentShape
       DEF Remote, Query, Broadcast
  <2>3. CASE Errors(t)
    BY <2>3, GiveUpShape, RefusedShape DEF Errors
  <2>. QED
    BY <1>3, <2>1, <2>2, <2>3
<1>4. CASE Chains
  <2>1. ASSUME NEW s \in Splices, NEW x \in {"splice", "anchor"}, Confirm(s, x) PROVE Shape'
    BY <2>1, TxShape DEF Confirm
  <2>. QED
    BY <1>4, <2>1, PeerSendsShape DEF Chains
<1>5. CASE UNCHANGED vars
  BY <1>5, StutterShape
<1>. QED
  BY <1>1, <1>2, <1>3, <1>4, <1>5, RestartShape DEF Next, Handlers

\* The types of all state.
THEOREM TypesHold == Spec => []TypeOK
<1>1. Shape => TypeOK
  BY DEF Shape
<1>. QED
  BY InitShape, NextShape, <1>1, PTL DEF Spec

-----------------------------------------------------------------------------
(* The order of the chains.                                                *)

\* The layer 1 side of a splice that is not out is confirmed.
Funded(s) == Out(s) \/ IsTxConfirmed(s, "splice")

\* What a status, and where a handler is, say of the chains.
AfterFunding == {"CONFIRMED", "ANCHOR_BROADCASTED", "ANCHOR_CONFIRMED"}
StatusSays == \A s \in Splices : status[s] \in AfterFunding \/ saved[s] \in AfterFunding => Funded(s)
Beyond == {"confirm", "anchor now", "anchor", "anchored", "enable", "lock", "record"}
HandlerSays == \A t \in Threads :
  /\ run[t].at \in Beyond => Funded(run[t].s)
  /\ run[t].at = "pay" => Out(run[t].s) /\ IsTxConfirmed(run[t].s, "anchor")
Expanded == \A s \in Splices : NeedSendSplicingTx(s) \/ IsTxConfirmed(s, "splice")

Ordered == ChainsInOrder /\ StatusSays /\ HandlerSays /\ Expanded

LEMMA InitOrdered == Init => Ordered
<1>. SUFFICES ASSUME Init PROVE Ordered
  OBVIOUS
<1>1. \A s \in Splices : /\ Kind(s) \in {"in", "out"} => tx[s] = [x \in {"splice", "anchor"} |-> None]
                         /\ Kind(s) \notin {"in", "out"} => tx[s]["splice"] = "confirmed"
  <2>1. \A s \in Splices : tx[s] = [x \in {"splice", "anchor"} |->
          IF Kind(s) = "recover" \/ (Kind(s) = "expand" /\ x = "splice") THEN "confirmed" ELSE None]
    BY DEF Init
  <2>2. \A s \in Splices : Kind(s) \in Kinds
    BY InitShape, Splitting DEF Shape
  <2>. QED
    BY <2>1, <2>2 DEF Kinds
<1>2. ChainsInOrder
  BY <1>1 DEF ChainsInOrder, Out, IsTxConfirmed
<1>3. StatusSays /\ HandlerSays
  BY DEF Init, StatusSays, HandlerSays, AfterFunding, Beyond, IdleThread, None
<1>4. Expanded
  BY <1>1 DEF Expanded, NeedSendSplicingTx, IsTxConfirmed
<1>. QED
  BY <1>2, <1>3, <1>4 DEF Ordered

\* As long as the chains stay, what has been said of them is true.
LEMMA OrderKept ==
  ASSUME Shape, Ordered, UNCHANGED <<course, tx>>,
         \A s \in Splices : status'[s] \in AfterFunding \/ saved'[s] \in AfterFunding => Funded(s),
         \A t \in Threads : run'[t] # run[t] =>
           /\ run'[t].at \in Beyond => Funded(run'[t].s)
           /\ run'[t].at = "pay" => Out(run'[t].s) /\ IsTxConfirmed(run'[t].s, "anchor")
  PROVE  Ordered'
<1>1. Splices' = Splices /\ Threads' = Threads
  BY DEF Splices, Threads
<1>2. \A s : /\ Kind(s)' = Kind(s) /\ Out(s)' = Out(s) /\ Funded(s)' = Funded(s)
             /\ NeedSendSplicingTx(s)' = NeedSendSplicingTx(s)
             /\ \A x : IsTxConfirmed(s, x)' = IsTxConfirmed(s, x)
  BY DEF Kind, Out, Funded, NeedSendSplicingTx, IsTxConfirmed
<1>3. ChainsInOrder'
  BY <1>1, <1>2 DEF Ordered, ChainsInOrder
<1>4. StatusSays'
  BY <1>1, <1>2 DEF StatusSays
<1>5. HandlerSays'
  BY <1>1, <1>2 DEF Ordered, HandlerSays, Funded, Kind, Out, IsTxConfirmed
<1>6. Expanded'
  BY <1>1, <1>2 DEF Ordered, Expanded
<1>. QED
  BY <1>3, <1>4, <1>5, <1>6 DEF Ordered

\* A transaction enters a chain, or is confirmed.
LEMMA TxOrder ==
  ASSUME Shape, Ordered, NEW s \in Splices, NEW x \in {"splice", "anchor"},
         NEW st \in {"pool", "confirmed"},
         tx' = [tx EXCEPT ![s] = [tx[s] EXCEPT ![x] = st]],
         st = "confirmed" => tx[s][x] # None, tx[s][x] # "confirmed",
         Out(s) /\ x = "splice" => IsTxConfirmed(s, "anchor"),
         ~Out(s) /\ x = "anchor" => IsTxConfirmed(s, "splice"),
         UNCHANGED <<course, status, saved, run>>
  PROVE  Ordered'
<1>1. Splices' = Splices /\ Threads' = Threads
  BY DEF Splices, Threads
<1>2. \A r \in Splices, y \in {"splice", "anchor"} :
        tx'[r][y] = IF r = s /\ y = x THEN st ELSE tx[r][y]
  BY DEF Shape, TypeOK
<1>3. \A r \in Splices : \A y \in {"splice", "anchor"} :
        IsTxConfirmed(r, y) => IsTxConfirmed(r, y)'
  BY <1>2 DEF IsTxConfirmed
<1>4. \A r : /\ Out(r)' = Out(r) /\ NeedSendSplicingTx(r)' = NeedSendSplicingTx(r)
  BY DEF Kind, Out, NeedSendSplicingTx
<1>5. \A r \in Splices : Funded(r) => Funded(r)'
  BY <1>3, <1>4 DEF Funded
<1>6. ChainsInOrder'
  <2>1. ASSUME NEW r \in Splices, Out(r), tx'[r]["splice"] # None PROVE IsTxConfirmed(r, "anchor")'
    <3>1. IsTxConfirmed(r, "anchor")
      BY <1>2, <2>1 DEF Ordered, ChainsInOrder
    <3>. QED
      BY <3>1, <1>3
  <2>2. ASSUME NEW r \in Splices, ~Out(r), tx'[r]["anchor"] # None PROVE IsTxConfirmed(r, "splice")'
    <3>1. IsTxConfirmed(r, "splice")
      BY <1>2, <2>2 DEF Ordered, ChainsInOrder
    <3>. QED
      BY <3>1, <1>3
  <2>. QED
    BY <1>1, <1>4, <2>1, <2>2 DEF ChainsInOrder
<1>7. StatusSays'
  BY <1>1, <1>5 DEF Ordered, StatusSays
<1>8. HandlerSays'
  <2>1. \A t \in Threads : run[t].at \in Beyond \cup {"pay"} => run[t].s \in Splices
    BY DEF Shape, Busy, Beyond
  <2>. QED
    BY <1>1, <1>3, <1>4, <1>5, <2>1 DEF Ordered, HandlerSays
<1>9. Expanded'
  BY <1>1, <1>3, <1>4 DEF Ordered, Expanded
<1>. QED
  BY <1>6, <1>7, <1>8, <1>9 DEF Ordered

LEMMA ConfirmOrder ==
  ASSUME Shape, Ordered, NEW s \in Splices, NEW x \in {"splice", "anchor"}, Confirm(s, x)
  PROVE  Ordered'
<1>1. tx[s][x] = "pool" /\ "pool" # None
  BY DEF Confirm, None
<1>. QED
  BY <1>1, TxOrder DEF Confirm, Ordered, ChainsInOrder

LEMMA PeerSendsOrder ==
  ASSUME Shape, Ordered, NEW s \in Splices, PeerSends(s) PROVE Ordered'
<1>1. PICK x \in {"splice", "anchor"} :
        /\ Reaches(s, x)
        /\ Out(s) /\ x = "splice" => IsTxConfirmed(s, "anchor")
        /\ ~Out(s) /\ x = "anchor" => IsTxConfirmed(s, "splice")
  BY DEF PeerSends
<1>. QED
  BY <1>1, TxOrder DEF Reaches, PeerSends, None

LEMMA DeliverOrder == ASSUME Shape, Ordered, NEW t \in Threads, Deliver(t) PROVE Ordered'
<1>1. PICK x \in Target(t) : Reaches(Of(t), x)
  BY DEF Deliver
<1>2. Of(t) \in Splices
  BY <1>1 DEF Target, Of, Shape, Busy
<1>3. x \in {"splice", "anchor"}
  BY <1>1 DEF Target
<1>4. Out(Of(t)) /\ x = "splice" => IsTxConfirmed(Of(t), "anchor")
  BY <1>1 DEF Target, Shape, Busy, Ordered, HandlerSays, Out, Of
<1>5. ~Out(Of(t)) /\ x = "anchor" => IsTxConfirmed(Of(t), "splice")
  BY <1>1 DEF Target, Ordered, HandlerSays, Funded, Beyond, Of
<1>. QED
  BY <1>1, <1>2, <1>3, <1>4, <1>5, TxOrder DEF Reaches, Deliver, None

-----------------------------------------------------------------------------
(* The calls and the handlers say nothing false.                           *)

LEMMA CallOrder ==
  ASSUME Shape, Ordered, NEW s \in Splices, Call(s)
  PROVE  Ordered'
<1>1. UNCHANGED <<course, tx>>
  BY DEF Call, Fetch, Acquire, NotAllowed, Ask, Sign, Ack, SaveStarted, SaveChannel, Fail, Return, WaitOver
<1>2. \A r \in Splices : status'[r] \in AfterFunding \/ saved'[r] \in AfterFunding => Funded(r)
  <2>1. CASE SaveStarted(s)
    <3>1. PICK ok \in BOOLEAN : Set(s, "STARTED", ok)
      BY <2>1 DEF SaveStarted
    <3>2. \A r \in Splices :
            /\ status'[r] = IF r = s THEN "STARTED" ELSE status[r]
            /\ saved'[r] \in (IF r = s THEN {"STARTED", saved[r]} ELSE {saved[r]})
      BY <3>1, SetType DEF Statuses, Shape
    <3>. QED
      BY <3>2 DEF AfterFunding, Ordered, StatusSays
  <2>2. CASE ~SaveStarted(s)
    <3>1. UNCHANGED <<status, saved>>
      BY <2>2 DEF Call, Fetch, Acquire, NotAllowed, Ask, Sign, Ack, SaveChannel, Fail, Return, WaitOver
    <3>. QED
      BY <3>1 DEF Ordered, StatusSays
  <2>. QED
    BY <2>1, <2>2
<1>3. \A t \in Threads : run'[t] # run[t] => run'[t].at = "start"
  <2>1. CASE SaveChannel(s)
    BY <2>1 DEF SaveChannel, Shape, TypeOK
  <2>2. CASE ~SaveChannel(s)
    BY <2>2 DEF Call, Fetch, Acquire, NotAllowed, Ask, Sign, Ack, SaveStarted, Fail, Return, WaitOver
  <2>. QED
    BY <2>1, <2>2
<1>. QED
  BY <1>1, <1>2, <1>3, OrderKept DEF Beyond

LEMMA LookAtOrder ==
  ASSUME Shape, Ordered, NEW t \in Ticks, NEW s \in Splices, LookAt(t, s) PROVE Ordered'
<1>1. run'[t] = [at |-> Entry(t, s), s |-> s, o |-> 0] /\ \A r \in Threads : r # t => run'[r] = run[r]
  BY Splitting DEF LookAt, Shape, TypeOK
<1>2. Entry(t, s) \in Beyond => Funded(s)
  <2>1. CASE Entry(t, s) = "confirm"
    BY <2>1 DEF Entry, Ordered, Expanded, Funded
  <2>2. CASE Entry(t, s) = "anchored"
    BY <2>2 DEF Entry, Ordered, StatusSays, AfterFunding
  <2>. QED
    BY <2>1, <2>2 DEF Entry, Beyond
<1>3. Entry(t, s) # "pay"
  BY DEF Entry
<1>. QED
  BY <1>1, <1>2, <1>3, OrderKept DEF LookAt, Ordered, StatusSays

\* A handler that saves what is so.
LEMMA SetOrder ==
  ASSUME Shape, Ordered, NEW t \in Threads, NEW s \in Splices, NEW st \in Statuses,
         NEW ok \in BOOLEAN, Set(s, st, ok), st \in AfterFunding => Funded(s),
         RunsOn(t), run'[t].at # "idle" => run[t].s = s,
         run'[t].at \in Beyond => Funded(s),
         run'[t].at = "pay" => Out(s) /\ IsTxConfirmed(s, "anchor"),
         UNCHANGED <<course, tx>>
  PROVE  Ordered'
<1>1. \A r \in Splices : status'[r] \in AfterFunding \/ saved'[r] \in AfterFunding => Funded(r)
  <2>1. \A r \in Splices : status[r] \in AfterFunding \/ saved[r] \in AfterFunding => Funded(r)
    BY DEF Ordered, StatusSays
  <2>2. TypeOK
    BY DEF Shape
  <2>. QED
    BY <2>1, <2>2, SetFrame
<1>2. \A r \in Threads : run'[r] # run[r] =>
           /\ run'[r].at \in Beyond => Funded(run'[r].s)
           /\ run'[r].at = "pay" => Out(run'[r].s) /\ IsTxConfirmed(run'[r].s, "anchor")
  <2>1. \A r \in Threads : r # t => run'[r] = run[r]
    BY DEF RunsOn
  <2>2. run'[t].at # "idle" => run'[t].s = s
    BY DEF RunsOn
  <2>3. "idle" \notin Beyond
    BY DEF Beyond
  <2>. QED
    BY <2>1, <2>2, <2>3
<1>. QED
  BY <1>1, <1>2, OrderKept

LEMMA GoOrder ==
  ASSUME Shape, Ordered, NEW t \in Threads, RunsOn(t),
         run'[t].at \in Beyond => Funded(run[t].s),
         run'[t].at # "pay",
         UNCHANGED <<course, tx, status, saved>>
  PROVE  Ordered'
<1>1. \A r \in Threads : run'[r] # run[r] =>
           /\ run'[r].at \in Beyond => Funded(run'[r].s)
           /\ run'[r].at = "pay" => Out(run'[r].s) /\ IsTxConfirmed(run'[r].s, "anchor")
  BY DEF RunsOn, Beyond
<1>. QED
  BY <1>1, OrderKept DEF Ordered, StatusSays

LEMMA StartOrder == ASSUME Shape, Ordered, NEW t \in Threads, Start(t) PROVE Ordered'
<1>. USE DEF Start, Is, Of
<1>. DEFINE s == run[t].s
<1>1. s \in Splices
  BY DEF Shape, Busy
<1>2. CASE Out(s)
  <2>1. Goto(t, "anchor") /\ UNCHANGED <<status, saved, upset>>
    BY <1>2 DEF Out, NeedSendSplicingTx
  <2>2. RunsOn(t) /\ run'[t].at = "anchor"
    BY <2>1, GotoRuns DEF Places, Network
  <2>. QED
    BY <1>2, <2>1, <2>2, GoOrder DEF Funded
<1>3. CASE NeedSendSplicingTx(s) /\ ~Out(s)
  <2>1. Goto(t, "splice") /\ UNCHANGED <<status, saved, upset>>
    BY <1>3
  <2>2. Kind(s) = "in"
    BY <1>3 DEF Out, NeedSendSplicingTx
  <2>3. RunsOn(t) /\ run'[t].at = "splice"
    BY <2>1, <2>2, GotoRuns DEF Places, Network
  <2>. QED
    BY <2>1, <2>3, GoOrder DEF Beyond
<1>4. CASE ~NeedSendSplicingTx(s)
  <2>1. Funded(s)
    BY <1>1, <1>4 DEF Ordered, Expanded, Funded
  <2>2. PICK ok \in BOOLEAN :
          /\ Set(s, IF Kind(s) = "recover" THEN "ANCHOR_CONFIRMED" ELSE "CONFIRMED", ok)
          /\ IF ok THEN Goto(t, IF Kind(s) = "recover" THEN "close" ELSE "anchor now")
             ELSE Leave(t)
    BY <1>4
  <2>3. PICK at \in {"close", "anchor now"} : IF ok THEN Goto(t, at) ELSE Leave(t)
    BY <2>2
  <2>4. RunsOn(t) /\ run'[t].at # "pay" /\ (run'[t].at # "idle" => run'[t].s = s)
    BY <2>3, GotoRuns, LeaveRuns DEF Places, Network
  <2>5. PICK st \in {"ANCHOR_CONFIRMED", "CONFIRMED"} : Set(s, st, ok)
    BY <2>2
  <2>. QED
    BY <1>1, <2>1, <2>4, <2>5, SetOrder DEF Statuses
<1>. QED
  BY <1>2, <1>3, <1>4

LEMMA ConfirmedOrder == ASSUME Shape, Ordered, NEW t \in Threads, Confirmed(t) PROVE Ordered'
<1>. USE DEF Confirmed, Is, Of
<1>. DEFINE s == run[t].s
<1>1. s \in Splices /\ Funded(s)
  BY DEF Shape, Busy, Ordered, HandlerSays, Beyond
<1>2. PICK ok \in BOOLEAN, st \in {"ANCHOR_CONFIRMED", "CONFIRMED"}, at \in {"close", "anchor"} :
        Set(s, st, ok) /\ IF ok THEN Goto(t, at) ELSE Leave(t)
  <2>1. CASE Kind(s) = "recover"
    BY <2>1
  <2>2. CASE Kind(s) # "recover"
    BY <2>2
  <2>. QED
    BY <2>1, <2>2
<1>3. RunsOn(t) /\ run'[t].at # "pay"
  BY <1>2, GotoRuns, LeaveRuns DEF Places, Network
<1>. QED
  BY <1>1, <1>2, <1>3, SetOrder DEF Statuses

LEMMA DeAnchorConfirmedOrder ==
  ASSUME Shape, Ordered, NEW t \in Threads, DeAnchorConfirmed(t) PROVE Ordered'
<1>. USE DEF DeAnchorConfirmed, Is, Of
<1>. DEFINE s == run[t].s
<1>1. s \in Splices /\ Out(s) /\ IsTxConfirmed(s, "anchor")
  BY DEF Shape, Busy
<1>2. PICK ok \in BOOLEAN : Set(s, "ANCHOR_CONFIRMED", ok) /\ IF ok THEN Goto(t, "pay") ELSE Leave(t)
  OBVIOUS
<1>3. RunsOn(t) /\ run'[t].at \in {"pay", "idle"}
  BY <1>2, GotoRuns, LeaveRuns DEF Places, Network
<1>. QED
  BY <1>1, <1>2, <1>3, SetOrder DEF Statuses, Funded, Beyond

LEMMA QueriedOrder == ASSUME Shape, Ordered, NEW t \in Threads, Queried(t) PROVE Ordered'
<1>. USE DEF Queried, Is, Of
<1>. DEFINE s == run[t].s
<1>1. PICK at \in {"close", "confirm"} : Goto(t, at) /\ (at = "confirm" => Funded(s))
  BY DEF Funded
<1>2. RunsOn(t) /\ run'[t].at = at
  BY <1>1, GotoRuns DEF Places
<1>. QED
  BY <1>1, <1>2, GoOrder DEF Beyond

LEMMA SentOrder == ASSUME Shape, Ordered, NEW t \in Threads, Sent(t) PROVE Ordered'
<1>. USE DEF Sent, Is, Of
<1>. DEFINE s == run[t].s
<1>1. CASE run[t].at = "anchor" /\ Goto(t, "enable") /\ UNCHANGED <<status, saved, upset, call>>
  <2>1. RunsOn(t) /\ run'[t].at = "enable"
    BY <1>1, GotoRuns DEF Places
  <2>2. Funded(s)
    BY <1>1 DEF Ordered, HandlerSays, Beyond
  <2>. QED
    BY <1>1, <2>1, <2>2, GoOrder
<1>2. CASE /\ run[t].at \in {"splice", "pay", "anchor now"}
           /\ \E ok \in BOOLEAN :
                Set(s, IF run[t].at = "anchor now" THEN "ANCHOR_BROADCASTED" ELSE "BROADCASTED", ok)
           /\ Leave(t)
  <2>1. PICK ok \in BOOLEAN, st \in {"ANCHOR_BROADCASTED", "BROADCASTED"} :
          Set(s, st, ok) /\ (st = "ANCHOR_BROADCASTED" => run[t].at = "anchor now")
    BY <1>2
  <2>2. RunsOn(t) /\ run'[t].at = "idle"
    BY <1>2, LeaveRuns
  <2>3. s \in Splices /\ (st \in AfterFunding => Funded(s))
    BY <1>2, <2>1 DEF Shape, Busy, Ordered, HandlerSays, Beyond, AfterFunding
  <2>. QED
    BY <2>1, <2>2, <2>3, SetOrder DEF Statuses, Beyond
<1>. QED
  BY <1>1, <1>2

LEMMA EnableUtxosOrder == ASSUME Shape, Ordered, NEW t \in Threads, EnableUtxos(t) PROVE Ordered'
<1>. USE DEF EnableUtxos, Is, Of
<1>1. run'[t] = [at |-> "lock", s |-> run[t].s, o |-> cur] /\ \A r \in Threads : r # t => run'[r] = run[r]
  BY DEF Shape, TypeOK
<1>2. Funded(run[t].s)
  BY DEF Ordered, HandlerSays, Beyond
<1>. QED
  BY <1>1, <1>2, OrderKept DEF Ordered, StatusSays

LEMMA EnableUtxoOrder ==
  ASSUME Shape, Ordered, NEW t \in Threads, EnableUtxo_SatsNet(t) PROVE Ordered'
<1>. USE DEF EnableUtxo_SatsNet, Is, Of
<1>1. RunsOn(t) /\ run'[t].at = "record"
  BY GotoRuns DEF Places
<1>2. Funded(run[t].s)
  BY DEF Ordered, HandlerSays, Beyond
<1>. QED
  BY <1>1, <1>2, GoOrder

LEMMA RecordAnchorOrder ==
  ASSUME Shape, Ordered, NEW t \in Threads, RecordAnchor(t) PROVE Ordered'
<1>. USE DEF RecordAnchor, Is, Of
<1>1. run[t].s \in Splices /\ Funded(run[t].s)
  BY DEF Shape, Busy, Ordered, HandlerSays, Beyond
<1>2. RunsOn(t) /\ run'[t].at = "idle"
  BY LeaveRuns
<1>. QED
  BY <1>1, <1>2, SetOrder DEF Statuses, Beyond

LEMMA ChannelReadyOrder ==
  ASSUME Shape, Ordered, NEW t \in Threads, ChannelReady(t) PROVE Ordered'
<1>. USE DEF ChannelReady, Is, Of
<1>1. run[t].s \in Splices
  BY DEF Shape, Busy
<1>2. RunsOn(t) /\ run'[t].at = "idle"
  BY LeaveRuns
<1>. QED
  BY <1>1, <1>2, SetOrder DEF Statuses, Beyond, AfterFunding

LEMMA ErrorOrder == ASSUME Shape, Ordered, NEW t \in Threads, Errors(t) PROVE Ordered'
<1>1. RunsOn(t) /\ run'[t].at = "idle"
  BY LeaveRuns DEF Errors, GiveUp, Refused
<1>2. UNCHANGED <<course, tx, status, saved>>
  BY DEF Errors, GiveUp, Refused
<1>. QED
  BY <1>1, <1>2, GoOrder DEF Beyond

LEMMA RestartOrder == ASSUME Shape, Ordered, Restart PROVE Ordered'
<1>1. \A t \in Threads : run'[t] = IdleThread
  BY DEF Restart
<1>2. \A s \in Splices : status'[s] \in AfterFunding \/ saved'[s] \in AfterFunding => Funded(s)
  BY DEF Restart, Ordered, StatusSays
<1>. QED
  BY <1>1, <1>2, OrderKept DEF Restart, IdleThread, Beyond

LEMMA NextOrdered == Shape /\ Ordered /\ [Next]_vars => Ordered'
<1>. SUFFICES ASSUME Shape, Ordered, [Next]_vars PROVE Ordered'
  OBVIOUS
<1>1. ASSUME NEW t \in Threads, Local(t) \/ Remote(t) \/ Errors(t) PROVE Ordered'
  <2>1. CASE Local(t)
    BY <2>1, StartOrder, ConfirmedOrder, EnableUtxosOrder, EnableUtxoOrder, RecordAnchorOrder,
       ChannelReadyOrder DEF Local
  <2>2. CASE Remote(t)
    BY <2>2, DeAnchorConfirmedOrder, QueriedOrder, DeliverOrder, SentOrder
       DEF Remote, Query, Broadcast
  <2>3. CASE Errors(t)
    BY <2>3, ErrorOrder
  <2>. QED
    BY <1>1, <2>1, <2>2, <2>3
<1>2. CASE Monitor
  BY <1>2, LookAtOrder DEF Monitor
<1>3. CASE Chains
  BY <1>3, PeerSendsOrder, ConfirmOrder DEF Chains
<1>4. CASE UNCHANGED vars
  BY <1>4, OrderKept DEF vars, Ordered, StatusSays
<1>. QED
  BY <1>1, <1>2, <1>3, <1>4, CallOrder, RestartOrder DEF Next, Handlers

\* Layer 2 gets nothing that layer 1 does not hold, and layer 1 pays nothing out
\* that layer 2 has not given back.
THEOREM InOrder == Spec => []ChainsInOrder
<1>1. Ordered => ChainsInOrder
  BY DEF Ordered
<1>. QED
  BY InitShape, NextShape, InitOrdered, NextOrdered, <1>1, PTL DEF Spec

-----------------------------------------------------------------------------
(* The channel of the wallet and that of the peer, as long as every save   *)
(* succeeds and no call works on an object that has been replaced.         *)

Inside(s) == call[s] \in {"locked", "asked", "signed", "acked", "recorded", "handling",
                          "failing", "wait"}
Changing == {"asked", "signed", "acked", "recorded"}
Early == {"idle", "fetched", "locked", "asked", "signed", "acked"}

Mutual == \A s \in Splices : Inside(s) => mutex[hold[s]] = s

\* Before a call has handed its splice over, nobody else knows of it.
Unseen(s) == s \notin resv /\ \A t \in Threads : run[t].at # "idle" => run[t].s # s
Untouched == \A s \in Splices :
  /\ call[s] \in Early => status[s] = None /\ saved[s] = None
  /\ call[s] = "recorded" => status[s] = "STARTED" /\ saved[s] = "STARTED"
  /\ call[s] \in Early \cup {"recorded"} => Unseen(s)
  /\ call[s] \in Early \ {"acked"} => s \notin committed
  /\ call[s] \in {"acked", "recorded"} => s \in committed

With(c, s) == [has |-> c.has \cup {s},
               pending |-> c.pending \cup (IF NeedSendSplicingTx(s) THEN {s} ELSE {})]

Current ==
  /\ \A s \in Splices : Inside(s) => hold[s] = cur
  /\ (\A s \in Splices : call[s] \notin Changing) => obj[cur] = disk
  /\ \A s \in Splices : call[s] \in Changing \cup {"locked"} => old[s] = disk /\ s \notin disk.has
  /\ \A s \in Splices : call[s] \in Changing => obj[cur] = With(disk, s)
  /\ \A s \in Splices : call[s] \in {"handling", "failing"} =>
       /\ disk.has = old[s].has \cup {s} /\ s \notin old[s].has
       /\ old[s].pending \subseteq disk.pending
  /\ disk.has \subseteq committed
  /\ \A s \in committed \ torn : s \in disk.has \/ call[s] \in {"acked", "recorded"}

Agreed == Mutual /\ Untouched /\ (~upset => Current)

LEMMA InitAgreed == Init => Agreed
<1>. SUFFICES ASSUME Init PROVE Agreed
  OBVIOUS
<1>1. obj[cur] = disk
  BY InitShape DEF Init, Shape, TypeOK
<1>2. \A s \in Splices : call[s] = "idle"
  BY DEF Init
<1>3. Mutual
  BY <1>2 DEF Mutual, Inside
<1>4. Untouched
  BY <1>2 DEF Init, Untouched, Unseen, Early, IdleThread
<1>5. Current
  BY <1>1, <1>2 DEF Init, Current, Inside, Changing, NoSplice
<1>. QED
  BY <1>3, <1>4, <1>5 DEF Agreed

\* Two calls are never inside at once: both would hold the mutex of the object
\* in channelMap.
LEMMA OneInside ==
  ASSUME Shape, Agreed, ~upset, NEW s \in Splices, NEW r \in Splices, Inside(s), Inside(r)
  PROVE  s = r
BY DEF Agreed, Current, Mutual

\* A step of one call that takes or gives no mutex keeps exclusion.
LEMMA MutualKept ==
  ASSUME Shape, Agreed, NEW s \in Splices, UNCHANGED <<course, hold, mutex>>,
         call[s] # "done", Inside(s),
         \E c \in CallSteps : call' = [call EXCEPT ![s] = c]
  PROVE  Mutual'
<1>1. Splices' = Splices
  BY DEF Splices
<1>2. \A r \in Splices : Inside(r)' => Inside(r)
  BY DEF Shape, TypeOK, Inside
<1>. QED
  BY <1>1, <1>2 DEF Agreed, Mutual

LEMMA MutualLost ==
  ASSUME Shape, Agreed, NEW s \in Splices, UNCHANGED <<course, hold>>, Inside(s),
         mutex' = [mutex EXCEPT ![hold[s]] = 0], call' = [call EXCEPT ![s] = "done"]
  PROVE  Mutual'
<1>1. Splices' = Splices
  BY DEF Splices
<1>2. \A r \in Splices : Inside(r)' => Inside(r) /\ r # s
  BY DEF Shape, TypeOK, Inside
<1>3. \A r \in Splices : Inside(r)' => hold[r] # hold[s] /\ hold[r] \in Objects
  BY <1>2 DEF Agreed, Mutual, Inside, Shape, Holding
<1>. QED
  BY <1>1, <1>2, <1>3 DEF Agreed, Mutual, Shape, TypeOK

\* A call that goes on without changing the channel.
LEMMA CurrentKept ==
  ASSUME Current, UNCHANGED <<course, hold, old, obj, cur, disk, committed, torn>>,
         \A r \in Splices :
           /\ Inside(r)' => Inside(r)
           /\ call'[r] \in Changing <=> call[r] \in Changing
           /\ call'[r] = "locked" => call[r] = "locked"
           /\ call'[r] \in {"handling", "failing"} => call[r] \in {"handling", "failing"}
           /\ call[r] \in {"acked", "recorded"} => call'[r] \in {"acked", "recorded"},
         torn \cup committed \subseteq Splices
  PROVE  Current'
<1>1. Splices' = Splices
  BY DEF Splices
<1>2. \A r \in Splices : With(disk, r)' = With(disk, r)
  BY DEF With, NeedSendSplicingTx, Kind
<1>3. (\A r \in Splices : Inside(r) => hold[r] = cur)'
  BY <1>1 DEF Current
<1>4. ((\A r \in Splices : call[r] \notin Changing) => obj[cur] = disk)'
  BY <1>1 DEF Current, Changing
<1>5. (\A r \in Splices : call[r] \in Changing \cup {"locked"} => old[r] = disk /\ r \notin disk.has)'
  BY <1>1 DEF Current, Changing
<1>6. (\A r \in Splices : call[r] \in Changing => obj[cur] = With(disk, r))'
  BY <1>1, <1>2 DEF Current, Changing
<1>7. (\A r \in Splices : call[r] \in {"handling", "failing"} =>
       /\ disk.has = old[r].has \cup {r} /\ r \notin old[r].has
       /\ old[r].pending \subseteq disk.pending)'
  BY <1>1 DEF Current
<1>8. (disk.has \subseteq committed)'
  BY DEF Current
<1>9. (\A r \in committed \ torn : r \in disk.has \/ call[r] \in {"acked", "recorded"})'
  BY DEF Current
<1>. QED
  BY <1>3, <1>4, <1>5, <1>6, <1>7, <1>8, <1>9 DEF Current

LEMMA FetchAgreed == ASSUME Shape, Agreed, NEW s \in Splices, Fetch(s) PROVE Agreed'
<1>. USE DEF Fetch, At, CallTo
<1>1. Splices' = Splices /\ Threads' = Threads
  BY DEF Splices, Threads
<1>2. \A r \in Splices : call'[r] = IF r = s THEN "fetched" ELSE call[r]
  BY DEF Shape, TypeOK
<1>3. \A r \in Splices : hold'[r] = IF r = s THEN cur ELSE hold[r]
  BY DEF Shape, TypeOK
<1>4. Mutual'
  BY <1>1, <1>2, <1>3 DEF Agreed, Mutual, Inside
<1>5. Untouched'
  BY <1>1, <1>2 DEF Agreed, Untouched, Unseen, Early
<1>6. ~upset => Current'
  <2>. SUFFICES ASSUME ~upset PROVE Current'
    OBVIOUS
  <2>1. \A r \in Splices : call'[r] \in Changing => call[r] \in Changing
    BY <1>2 DEF Changing
  <2>2. \A r \in Splices : With(disk, r)' = With(disk, r)
    BY DEF With, NeedSendSplicingTx, Kind
  <2>. QED
    BY <1>1, <1>2, <1>3, <2>1, <2>2 DEF Agreed, Current, Inside, Changing
<1>. QED
  BY <1>4, <1>5, <1>6 DEF Agreed

LEMMA AcquireAgreed == ASSUME Shape, Agreed, NEW s \in Splices, Acquire(s) PROVE Agreed'
<1>. USE DEF Acquire, At, CallTo
<1>1. Splices' = Splices /\ Threads' = Threads
  BY DEF Splices, Threads
<1>2. \A r \in Splices : call'[r] = IF r = s THEN "locked" ELSE call[r]
  BY DEF Shape, TypeOK
<1>3. \A o \in Objects : mutex'[o] = IF o = hold[s] THEN s ELSE mutex[o]
  BY DEF Shape, TypeOK
<1>4. \A r \in Splices : Inside(r) => hold[r] \in Objects /\ hold[r] # hold[s]
  <2>1. ASSUME NEW r \in Splices, Inside(r), hold[r] = hold[s] PROVE FALSE
    <3>1. mutex[hold[s]] = r
      BY <2>1 DEF Agreed, Mutual
    <3>. QED
      BY <3>1, Splitting DEF Shape
  <2>. QED
    BY <2>1 DEF Inside, Shape, Holding
<1>5. Mutual'
  <2>1. hold[s] \in Objects
    BY DEF Shape, Holding
  <2>. QED
    BY <1>1, <1>2, <1>3, <1>4, <2>1 DEF Agreed, Mutual, Inside
<1>6. Untouched'
  BY <1>1, <1>2 DEF Agreed, Untouched, Unseen, Early
<1>7. ~upset' => Current'
  <2>. SUFFICES ASSUME ~upset' PROVE Current'
    OBVIOUS
  <2>1. ~upset /\ hold[s] = cur /\ Current
    BY DEF Agreed
  <2>2. \A r \in Splices : ~Inside(r)
    BY <2>1, <1>4 DEF Current
  <2>3. obj[cur] = disk /\ \A r \in Splices : call'[r] \notin Changing
    BY <1>2, <2>1, <2>2 DEF Current, Changing, Inside
  <2>4. s \notin disk.has
    BY <2>1 DEF Agreed, Untouched, Early, Current
  <2>5. old'[s] = disk
    BY DEF Shape, TypeOK
  <2>6. \A r \in Splices : Inside(r)' => r = s
    BY <1>2, <2>2 DEF Inside
  <2>7. \A r \in committed \ torn : r \in disk.has \/ call'[r] \in {"acked", "recorded"}
    BY <1>2, <2>1 DEF Current, Agreed, Untouched, Early, Shape, TypeOK
  <2>. QED
    BY <1>1, <1>2, <2>1, <2>3, <2>4, <2>5, <2>6, <2>7 DEF Current, Inside, Changing
<1>. QED
  BY <1>5, <1>6, <1>7 DEF Agreed

LEMMA NotAllowedAgreed == ASSUME Shape, Agreed, NEW s \in Splices, NotAllowed(s) PROVE Agreed'
<1>. USE DEF NotAllowed, At, CallTo, Release
<1>1. Splices' = Splices /\ Threads' = Threads
  BY DEF Splices, Threads
<1>2. \A r \in Splices : call'[r] = IF r = s THEN "done" ELSE call[r]
  BY DEF Shape, TypeOK
<1>3. Mutual'
  BY MutualLost DEF Inside
<1>4. Untouched'
  BY <1>1, <1>2 DEF Agreed, Untouched, Unseen, Early
<1>5. ~upset => Current'
  <2>. SUFFICES ASSUME ~upset PROVE Current'
    OBVIOUS
  <2>1. torn \cup committed \subseteq Splices
    BY DEF Shape, TypeOK
  <2>. QED
    BY <1>2, <2>1, CurrentKept DEF Agreed, Inside, Changing
<1>. QED
  BY <1>3, <1>4, <1>5 DEF Agreed

LEMMA AskAgreed == ASSUME Shape, Agreed, NEW s \in Splices, Ask(s) PROVE Agreed'
<1>. USE DEF Ask, At, CallTo
<1>1. Splices' = Splices /\ Threads' = Threads
  BY DEF Splices, Threads
<1>2. \A r \in Splices : call'[r] = IF r = s THEN "asked" ELSE call[r]
  BY DEF Shape, TypeOK
<1>3. Mutual'
  BY MutualKept DEF Inside, CallSteps
<1>4. Untouched'
  BY <1>1, <1>2 DEF Agreed, Untouched, Unseen, Early
<1>5. ~upset => Current'
  <2>. SUFFICES ASSUME ~upset PROVE Current'
    OBVIOUS
  <2>1. Inside(s) /\ Current /\ hold[s] = cur
    BY DEF Agreed, Current, Inside
  <2>2. \A r \in Splices : Inside(r) => r = s
    BY <2>1, OneInside
  <2>3. obj[cur] = disk
    BY <2>1, <2>2 DEF Current, Changing, Inside
  <2>4. obj'[cur] = With(disk, s)
    BY <2>1, <2>3 DEF With, Shape, TypeOK
  <2>5. \A r \in Splices : Inside(r)' => r = s
    BY <1>2, <2>2 DEF Inside
  <2>6. With(disk, s)' = With(disk, s)
    BY DEF With, NeedSendSplicingTx, Kind
  <2>7. call'[s] \in Changing
    BY <1>2 DEF Changing
  <2>8. \A r \in committed \ torn : r \in disk.has \/ call'[r] \in {"acked", "recorded"}
    BY <1>2, <2>1 DEF Current, Shape, TypeOK
  <2>. QED
    BY <1>1, <1>2, <2>1, <2>4, <2>5, <2>6, <2>7, <2>8 DEF Current, Inside, Changing
<1>. QED
  BY <1>3, <1>4, <1>5 DEF Agreed

LEMMA SignAgreed == ASSUME Shape, Agreed, NEW s \in Splices, Sign(s) PROVE Agreed'
<1>. USE DEF Sign, At, CallTo
<1>1. Splices' = Splices /\ Threads' = Threads
  BY DEF Splices, Threads
<1>2. \A r \in Splices : call'[r] = IF r = s THEN "signed" ELSE call[r]
  BY DEF Shape, TypeOK
<1>3. Mutual'
  BY MutualKept DEF Inside, CallSteps
<1>4. Untouched'
  BY <1>1, <1>2 DEF Agreed, Untouched, Unseen, Early
<1>5. ~upset => Current'
  <2>. SUFFICES ASSUME ~upset PROVE Current'
    OBVIOUS
  <2>1. torn \cup committed \subseteq Splices
    BY DEF Shape, TypeOK
  <2>. QED
    BY <1>2, <2>1, CurrentKept DEF Agreed, Inside, Changing
<1>. QED
  BY <1>3, <1>4, <1>5 DEF Agreed

LEMMA AckAgreed == ASSUME Shape, Agreed, NEW s \in Splices, Ack(s) PROVE Agreed'
<1>. USE DEF Ack, At, CallTo
<1>1. Splices' = Splices /\ Threads' = Threads
  BY DEF Splices, Threads
<1>2. \A r \in Splices : call'[r] = IF r = s THEN "acked" ELSE call[r]
  BY DEF Shape, TypeOK
<1>3. Mutual'
  BY MutualKept DEF Inside, CallSteps
<1>4. Untouched'
  BY <1>1, <1>2 DEF Agreed, Untouched, Unseen, Early
<1>5. ~upset => Current'
  <2>. SUFFICES ASSUME ~upset PROVE Current'
    OBVIOUS
  <2>1. \A r \in Splices : With(disk, r)' = With(disk, r)
    BY DEF With, NeedSendSplicingTx, Kind
  <2>2. \A r \in Splices : call'[r] \in Changing <=> call[r] \in Changing
    BY <1>2 DEF Changing
  <2>. QED
    BY <1>1, <1>2, <2>1, <2>2 DEF Agreed, Current, Inside, Changing
<1>. QED
  BY <1>3, <1>4, <1>5 DEF Agreed

LEMMA SaveStartedAgreed == ASSUME Shape, Agreed, NEW s \in Splices, SaveStarted(s) PROVE Agreed'
<1>. USE DEF SaveStarted, At
<1>1. Splices' = Splices /\ Threads' = Threads
  BY DEF Splices, Threads
<1>2. PICK ok \in BOOLEAN : Set(s, "STARTED", ok) /\ CallTo(s, IF ok THEN "recorded" ELSE "failing")
  OBVIOUS
<1>3. \A r \in Splices : call'[r] = IF r = s THEN (IF ok THEN "recorded" ELSE "failing") ELSE call[r]
  BY <1>2 DEF CallTo, Shape, TypeOK
<1>4. /\ \A r \in Splices : r # s => status'[r] = status[r] /\ saved'[r] = saved[r]
      /\ status'[s] = "STARTED" /\ (ok => saved'[s] = "STARTED")
  BY <1>2 DEF Set, Shape, TypeOK
<1>5. Mutual'
  <2>1. \E c \in CallSteps : call' = [call EXCEPT ![s] = c]
    BY <1>2 DEF CallTo, CallSteps
  <2>. QED
    BY <2>1, MutualKept DEF Inside
<1>6. Untouched'
  BY <1>1, <1>3, <1>4 DEF Agreed, Untouched, Unseen, Early
<1>7. ~upset' => Current'
  <2>. SUFFICES ASSUME ~upset' PROVE Current'
    OBVIOUS
  <2>1. ~upset /\ ok
    BY <1>2 DEF Set, Result
  <2>2. torn \cup committed \subseteq Splices
    BY DEF Shape, TypeOK
  <2>. QED
    BY <1>3, <2>1, <2>2, CurrentKept DEF Agreed, Inside, Changing
<1>. QED
  BY <1>5, <1>6, <1>7 DEF Agreed

LEMMA SaveChannelAgreed == ASSUME Shape, Agreed, NEW s \in Splices, SaveChannel(s) PROVE Agreed'
<1>. USE DEF SaveChannel, At
<1>1. Splices' = Splices /\ Threads' = Threads
  BY DEF Splices, Threads
<1>2. PICK ok \in BOOLEAN :
        /\ disk' \in (IF ok THEN {obj[hold[s]]} ELSE {disk, obj[hold[s]]})
        /\ Result(ok)
        /\ resv' = IF ok THEN resv \cup {s} ELSE resv
        /\ run' = IF ok THEN [run EXCEPT ![s] = [at |-> "start", s |-> s, o |-> 0]] ELSE run
        /\ CallTo(s, IF ok THEN "handling" ELSE "failing")
  OBVIOUS
<1>3. \A r \in Splices : call'[r] = IF r = s THEN (IF ok THEN "handling" ELSE "failing") ELSE call[r]
  BY <1>2 DEF CallTo, Shape, TypeOK
<1>4. Mutual'
  <2>1. \E c \in CallSteps : call' = [call EXCEPT ![s] = c]
    BY <1>2 DEF CallTo, CallSteps
  <2>. QED
    BY <2>1, MutualKept DEF Inside
<1>5. Untouched'
  <2>1. \A r \in Splices : r # s /\ Unseen(r) => Unseen(r)'
    <3>1. \A t \in Threads : run'[t] # run[t] => run'[t].s = s
      BY <1>2 DEF Shape, TypeOK
    <3>. QED
      BY <1>1, <1>2, <3>1 DEF Unseen
  <2>. QED
    BY <1>1, <1>3, <2>1 DEF Agreed, Untouched, Early
<1>6. ~upset' => Current'
  <2>. SUFFICES ASSUME ~upset' PROVE Current'
    OBVIOUS
  <2>1. ~upset /\ ok /\ Current /\ Inside(s) /\ hold[s] = cur
    BY <1>2 DEF Result, Agreed, Current, Inside
  <2>2. \A r \in Splices : Inside(r) => r = s
    BY <2>1, OneInside
  <2>3. old[s] = disk /\ s \notin disk.has /\ disk' = With(disk, s) /\ obj[cur] = With(disk, s)
    BY <1>2, <2>1 DEF Current, Changing
  <2>4. disk'.has = old[s].has \cup {s} /\ s \notin old[s].has /\ old[s].pending \subseteq disk'.pending
    BY <2>3 DEF With
  <2>5. \A r \in Splices : Inside(r)' => r = s
    BY <1>3, <2>2 DEF Inside
  <2>6. call'[s] = "handling"
    BY <1>3, <2>1
  <2>7. disk'.has \subseteq committed
    BY <2>1, <2>3, <2>4 DEF Agreed, Untouched, Current
  <2>8. \A r \in committed \ torn : r \in disk'.has \/ call'[r] \in {"acked", "recorded"}
    BY <1>3, <2>1, <2>3, <2>4 DEF Current, Shape, TypeOK
  <2>. QED
    BY <1>1, <2>1, <2>3, <2>4, <2>5, <2>6, <2>7, <2>8 DEF Current, Inside, Changing
<1>. QED
  BY <1>4, <1>5, <1>6 DEF Agreed

LEMMA FailAgreed == ASSUME Shape, Agreed, NEW s \in Splices, Fail(s) PROVE Agreed'
<1>. USE DEF Fail, At, CallTo, Release
<1>1. Splices' = Splices /\ Threads' = Threads
  BY DEF Splices, Threads
<1>2. \A r \in Splices : call'[r] = IF r = s THEN "done" ELSE call[r]
  BY DEF Shape, TypeOK
<1>3. Inside(s) /\ Mutual'
  BY MutualLost DEF Inside
<1>4. Untouched'
  BY <1>1, <1>2 DEF Agreed, Untouched, Unseen, Early
<1>5. ~upset' => Current'
  <2>. SUFFICES ASSUME ~upset' PROVE Current'
    OBVIOUS
  <2>1. ~upset /\ disk' = old[s] /\ Current
    BY DEF Result, Agreed
  <2>2. \A r \in Splices : Inside(r) => r = s
    BY <1>3, <2>1, OneInside
  <2>3. \A r \in Splices : ~Inside(r)'
    BY <1>2, <2>2 DEF Inside
  <2>4. obj'[cur'] = disk'
    BY <2>1, FailShape DEF Shape, TypeOK
  <2>5. disk'.has = disk.has \ {s}
    BY <2>1 DEF Current, Changing
  <2>6. disk'.has \subseteq committed'
    BY <2>1, <2>5 DEF Current
  <2>7. \A r \in committed \ torn' : r \in disk'.has
    <3>1. \A r \in Splices : r # s => call[r] \notin {"acked", "recorded"}
      BY <2>2 DEF Inside
    <3>. QED
      BY <2>1, <2>5, <3>1 DEF Current, Shape, TypeOK
  <2>. QED
    BY <1>1, <2>3, <2>4, <2>6, <2>7 DEF Current, Inside, Changing
<1>. QED
  BY <1>3, <1>4, <1>5 DEF Agreed

LEMMA ReturnAgreed == ASSUME Shape, Agreed, NEW s \in Splices, Return(s) PROVE Agreed'
<1>. USE DEF Return, At, CallTo, Release
<1>1. Splices' = Splices /\ Threads' = Threads
  BY DEF Splices, Threads
<1>2. PICK c \in {"wait", "done"} : \A r \in Splices : call'[r] = IF r = s THEN c ELSE call[r]
  BY DEF Shape, TypeOK
<1>3. Mutual'
  <2>1. CASE course[s].all
    BY <2>1, MutualKept DEF Inside, CallSteps
  <2>2. CASE ~course[s].all
    BY <2>2, MutualLost DEF Inside
  <2>. QED
    BY <2>1, <2>2
<1>4. Untouched'
  BY <1>1, <1>2 DEF Agreed, Untouched, Unseen, Early
<1>5. ~upset => Current'
  <2>. SUFFICES ASSUME ~upset PROVE Current'
    OBVIOUS
  <2>1. torn \cup committed \subseteq Splices
    BY DEF Shape, TypeOK
  <2>. QED
    BY <1>2, <2>1, CurrentKept DEF Agreed, Inside, Changing
<1>. QED
  BY <1>3, <1>4, <1>5 DEF Agreed

LEMMA WaitOverAgreed == ASSUME Shape, Agreed, NEW s \in Splices, WaitOver(s) PROVE Agreed'
<1>. USE DEF WaitOver, At, CallTo, Release
<1>1. Splices' = Splices /\ Threads' = Threads
  BY DEF Splices, Threads
<1>2. \A r \in Splices : call'[r] = IF r = s THEN "done" ELSE call[r]
  BY DEF Shape, TypeOK
<1>3. Mutual'
  BY MutualLost DEF Inside
<1>4. Untouched'
  BY <1>1, <1>2 DEF Agreed, Untouched, Unseen, Early
<1>5. ~upset => Current'
  <2>. SUFFICES ASSUME ~upset PROVE Current'
    OBVIOUS
  <2>1. torn \cup committed \subseteq Splices
    BY DEF Shape, TypeOK
  <2>. QED
    BY <1>2, <2>1, CurrentKept DEF Agreed, Inside, Changing
<1>. QED
  BY <1>3, <1>4, <1>5 DEF Agreed

\* A handler only deals with a splice that has been handed over.
LEMMA HandedOver ==
  ASSUME Shape, Agreed, NEW s \in Splices, s \in resv \/ \E t \in Threads : run[t].at # "idle" /\ run[t].s = s
  PROVE  call[s] \notin Early \cup {"recorded"}
BY DEF Agreed, Untouched, Unseen

LEMMA HandlerAgreed ==
  ASSUME Shape, Agreed, NEW s \in Splices, call[s] \notin Early \cup {"recorded"},
         UNCHANGED <<course, hold, old, mutex, channel, committed, torn>>,
         \A r \in Splices : r # s => status'[r] = status[r] /\ saved'[r] = saved[r],
         \A r \in Splices : r # s /\ Unseen(r) => Unseen(r)',
         upset => upset',
         \A r \in Splices : call'[r] = call[r]
                         \/ (r = s /\ call[r] = "handling" /\ call'[r] = "failing")
  PROVE  Agreed'
<1>1. Splices' = Splices
  BY DEF Splices
<1>2. Mutual'
  <2>1. \A r \in Splices : Inside(r)' => Inside(r)
    BY DEF Inside
  <2>. QED
    BY <1>1, <2>1 DEF Agreed, Mutual
<1>3. Untouched'
  <2>1. \A r \in Splices : call'[r] \in Early \cup {"recorded"} => r # s /\ call'[r] = call[r]
    BY DEF Early
  <2>. QED
    BY <1>1, <2>1 DEF Agreed, Untouched, Early
<1>4. ~upset' => Current'
  <2>. SUFFICES ASSUME ~upset' PROVE Current'
    OBVIOUS
  <2>1. torn \cup committed \subseteq Splices /\ Current
    BY DEF Shape, TypeOK, Agreed
  <2>. QED
    BY <2>1, CurrentKept DEF Inside, Changing, channel
<1>. QED
  BY <1>2, <1>3, <1>4 DEF Agreed

\* The same for a thread that goes on or ends.
LEMMA RunsAgreed ==
  ASSUME Shape, Agreed, NEW t \in Threads, run[t].at # "idle", RunsOn(t),
         UNCHANGED <<course, hold, old, mutex, channel, committed, torn>>,
         \A r \in Splices : r # run[t].s => status'[r] = status[r] /\ saved'[r] = saved[r],
         resv' \subseteq resv, upset => upset',
         call' = call \/ (call[run[t].s] = "handling"
                          /\ call' = [call EXCEPT ![run[t].s] = "failing"])
  PROVE  Agreed'
<1>1. run[t].s \in Splices /\ Threads' = Threads
  BY DEF Shape, Busy, Threads, Splices
<1>2. call[run[t].s] \notin Early \cup {"recorded"}
  BY <1>1, HandedOver
<1>3. \A r \in Splices : r # run[t].s /\ Unseen(r) => Unseen(r)'
  BY <1>1 DEF Unseen, RunsOn
<1>4. \A r \in Splices : call'[r] = call[r]
                      \/ (r = run[t].s /\ call[r] = "handling" /\ call'[r] = "failing")
  BY DEF Shape, TypeOK
<1>. QED
  BY <1>1, <1>2, <1>3, <1>4, HandlerAgreed

LEMMA LookAtAgreed ==
  ASSUME Shape, Agreed, NEW t \in Ticks, NEW s \in Splices, LookAt(t, s) PROVE Agreed'
<1>. USE DEF LookAt
<1>1. call[s] \notin Early \cup {"recorded"}
  BY HandedOver
<1>2. Threads' = Threads /\ t \in Threads
  BY DEF Threads, Splices
<1>3. run'[t].s = s /\ \A r \in Threads : r # t => run'[r] = run[r]
  BY <1>2 DEF Shape, TypeOK
<1>4. \A r \in Splices : r # s /\ Unseen(r) => Unseen(r)'
  BY <1>2, <1>3 DEF Unseen, reservations
<1>. QED
  BY <1>1, <1>4, HandlerAgreed DEF calls, reservations

\* A handler that saves a status and goes on, or ends.
LEMMA SetAgreed ==
  ASSUME Shape, Agreed, NEW t \in Threads, run[t].at # "idle", NEW ok \in BOOLEAN,
         NEW st \in Statuses, Set(Of(t), st, ok), RunsOn(t), resv' \subseteq resv,
         UNCHANGED <<course, calls, channel, tx, committed, torn, restarts>>
  PROVE  Agreed'
<1>1. \A r \in Splices : r # run[t].s => status'[r] = status[r] /\ saved'[r] = saved[r]
  BY DEF Set, Of, Shape, TypeOK
<1>2. upset => upset'
  BY DEF Set, Result
<1>. QED
  BY <1>1, <1>2, RunsAgreed DEF calls

LEMMA GoAgreed ==
  ASSUME Shape, Agreed, NEW t \in Threads, run[t].at # "idle", RunsOn(t),
         UNCHANGED <<course, calls, channel, reservations, tx, committed, torn, upset, restarts>>
  PROVE  Agreed'
BY RunsAgreed DEF calls, reservations

LEMMA SetStepAgreed ==
  ASSUME Shape, Agreed, NEW t \in Threads, run[t].at # "idle", NEW ok \in BOOLEAN,
         NEW st \in Statuses, NEW at \in Places \ {"lock", "splice"}, Set(Of(t), st, ok),
         IF ok THEN Goto(t, at) ELSE Leave(t), resv' \subseteq resv,
         UNCHANGED <<course, calls, channel, tx, committed, torn, restarts>>
  PROVE  Agreed'
<1>1. RunsOn(t)
  BY GotoRuns, LeaveRuns
<1>. QED
  BY <1>1, SetAgreed

LEMMA StartAgreed == ASSUME Shape, Agreed, NEW t \in Threads, Start(t) PROVE Agreed'
<1>. USE DEF Start, Is, Of
<1>1. CASE NeedSendSplicingTx(run[t].s)
  <2>1. Kind(run[t].s) = "in" \/ Out(run[t].s)
    BY <1>1 DEF NeedSendSplicingTx, Out
  <2>2. RunsOn(t)
    BY <1>1, <2>1, GotoRuns DEF Places, Network
  <2>. QED
    BY <1>1, <2>2, GoAgreed DEF reservations
<1>2. CASE ~NeedSendSplicingTx(run[t].s)
  <2>1. PICK ok \in BOOLEAN :
          /\ Set(run[t].s, IF Kind(run[t].s) = "recover" THEN "ANCHOR_CONFIRMED" ELSE "CONFIRMED", ok)
          /\ IF ok THEN Goto(t, IF Kind(run[t].s) = "recover" THEN "close" ELSE "anchor now")
             ELSE Leave(t)
    BY <1>2
  <2>2. CASE Kind(run[t].s) = "recover"
    BY <2>1, <2>2, SetStepAgreed DEF Places, Network, Statuses
  <2>3. CASE Kind(run[t].s) # "recover"
    BY <2>1, <2>3, SetStepAgreed DEF Places, Network, Statuses
  <2>. QED
    BY <2>2, <2>3
<1>. QED
  BY <1>1, <1>2

LEMMA ConfirmedAgreed == ASSUME Shape, Agreed, NEW t \in Threads, Confirmed(t) PROVE Agreed'
<1>. USE DEF Confirmed, Is, Of
<1>1. PICK ok \in BOOLEAN :
        /\ Set(run[t].s, IF Kind(run[t].s) = "recover" THEN "ANCHOR_CONFIRMED" ELSE "CONFIRMED", ok)
        /\ IF ok THEN Goto(t, IF Kind(run[t].s) = "recover" THEN "close" ELSE "anchor")
           ELSE Leave(t)
  OBVIOUS
<1>2. CASE Kind(run[t].s) = "recover"
  BY <1>1, <1>2, SetStepAgreed DEF Places, Network, Statuses
<1>3. CASE Kind(run[t].s) # "recover"
  BY <1>1, <1>3, SetStepAgreed DEF Places, Network, Statuses
<1>. QED
  BY <1>2, <1>3

LEMMA DeAnchorConfirmedAgreed ==
  ASSUME Shape, Agreed, NEW t \in Threads, DeAnchorConfirmed(t) PROVE Agreed'
<1>1. PICK ok \in BOOLEAN : /\ Set(Of(t), "ANCHOR_CONFIRMED", ok)
                            /\ IF ok THEN Goto(t, "pay") ELSE Leave(t)
  BY DEF DeAnchorConfirmed
<1>. QED
  BY <1>1, SetStepAgreed DEF DeAnchorConfirmed, Is, Places, Network, Statuses

LEMMA QueriedAgreed == ASSUME Shape, Agreed, NEW t \in Threads, Queried(t) PROVE Agreed'
<1>1. RunsOn(t) /\ run[t].at # "idle"
  BY GotoRuns DEF Queried, Is, Places, Network
<1>. QED
  BY <1>1, GoAgreed DEF Queried

LEMMA SentAgreed == ASSUME Shape, Agreed, NEW t \in Threads, Sent(t) PROVE Agreed'
<1>. USE DEF Sent, Is
<1>1. CASE Is(t, "anchor")
  <2>1. RunsOn(t)
    BY <1>1, GotoRuns DEF Places
  <2>. QED
    BY <1>1, <2>1, GoAgreed DEF calls, reservations
<1>2. CASE ~Is(t, "anchor")
  <2>1. RunsOn(t) /\ run[t].at # "idle"
    BY <1>2, LeaveRuns
  <2>2. PICK ok \in BOOLEAN :
          /\ Set(Of(t), IF Is(t, "anchor now") THEN "ANCHOR_BROADCASTED" ELSE "BROADCASTED", ok)
          /\ call' = IF ok \/ t # Of(t) \/ Kind(Of(t)) # "in" THEN call
                     ELSE [call EXCEPT ![Of(t)] = "failing"]
    BY <1>2
  <2>3. call' = call \/ (call[run[t].s] = "handling"
                         /\ call' = [call EXCEPT ![run[t].s] = "failing"])
    BY <2>1, <2>2 DEF Of, Shape, Busy
  <2>4. \A r \in Splices : r # run[t].s => status'[r] = status[r] /\ saved'[r] = saved[r]
    BY <2>2 DEF Set, Of, Shape, TypeOK
  <2>5. upset => upset'
    BY <2>2 DEF Set, Result
  <2>. QED
    BY <2>1, <2>3, <2>4, <2>5, RunsAgreed
<1>. QED
  BY <1>1, <1>2

LEMMA GiveUpAgreed == ASSUME Shape, Agreed, NEW t \in Threads, GiveUp(t) PROVE Agreed'
BY LeaveRuns, GoAgreed DEF GiveUp, Network

LEMMA RefusedAgreed == ASSUME Shape, Agreed, NEW t \in Threads, Refused(t) PROVE Agreed'
<1>. USE DEF Refused, Is
<1>1. RunsOn(t) /\ run[t].at # "idle"
  BY LeaveRuns
<1>2. run[t].s = t /\ call[t] = "handling"
  BY DEF Shape, Busy, Threads
<1>. QED
  BY <1>1, <1>2, RunsAgreed DEF CallTo, reservations

LEMMA EnableUtxosAgreed == ASSUME Shape, Agreed, NEW t \in Threads, EnableUtxos(t) PROVE Agreed'
<1>. USE DEF EnableUtxos, Is, Of
<1>1. [at |-> "lock", s |-> run[t].s, o |-> cur]
        \in [at : Places, s : Splices \cup {0}, o : Objects \cup {0}] /\ cur \in Objects
  BY DEF Shape, TypeOK, Places
<1>2. RunsOn(t)
  BY <1>1 DEF RunsOn, Shape, TypeOK
<1>. QED
  BY <1>2, GoAgreed

\* The mutex of the object in channelMap is free: no call is between its steps.
LEMMA EnableUtxoAgreed ==
  ASSUME Shape, Agreed, NEW t \in Threads, EnableUtxo_SatsNet(t) PROVE Agreed'
<1>. USE DEF EnableUtxo_SatsNet, Is, Of
<1>1. Splices' = Splices /\ Threads' = Threads /\ RunsOn(t)
  BY GotoRuns DEF Splices, Threads, Places
<1>2. run[t].s \in Splices /\ run[t].o \in Objects
  BY DEF Shape, Busy
<1>3. Mutual'
  BY <1>1 DEF Agreed, Mutual, Inside
<1>4. Untouched'
  <2>1. call[run[t].s] \notin Early \cup {"recorded"}
    BY <1>2, HandedOver
  <2>2. \A r \in Splices : r # run[t].s /\ Unseen(r) => Unseen(r)'
    BY <1>1 DEF Unseen, RunsOn
  <2>. QED
    BY <1>1, <2>1, <2>2 DEF Agreed, Untouched
<1>5. ~upset' => Current'
  <2>. SUFFICES ASSUME ~upset' PROVE Current'
    OBVIOUS
  <2>. DEFINE c == [has |-> obj[run[t].o].has, pending |-> obj[run[t].o].pending \ {run[t].s}]
  <2>1. ~upset /\ Current /\ run[t].o = cur /\ disk' = c
    BY DEF Agreed
  <2>2. \A r \in Splices : ~Inside(r)
    <3>1. mutex[cur] = 0 /\ \A r \in Splices : r # 0
      BY <2>1, Splitting DEF Shape
    <3>. QED
      BY <2>1, <3>1 DEF Agreed, Mutual, Current
  <2>3. obj[cur] = disk
    BY <2>1, <2>2 DEF Current, Inside, Changing
  <2>4. obj'[cur] = c /\ disk'.has = disk.has
    BY <1>2, <2>1, <2>3 DEF Shape, TypeOK
  <2>5. \A r \in Splices : ~Inside(r)'
    BY <2>2 DEF Inside
  <2>6. disk'.has \subseteq committed
    BY <2>1, <2>4 DEF Current
  <2>7. \A r \in committed \ torn : r \in disk'.has
    BY <2>1, <2>2, <2>4 DEF Current, Inside, Shape, TypeOK
  <2>. QED
    BY <1>1, <2>1, <2>4, <2>5, <2>6, <2>7 DEF Current, Inside, Changing
<1>. QED
  BY <1>3, <1>4, <1>5 DEF Agreed

LEMMA RecordAnchorAgreed ==
  ASSUME Shape, Agreed, NEW t \in Threads, RecordAnchor(t) PROVE Agreed'
<1>. USE DEF RecordAnchor, Is
<1>1. RunsOn(t)
  BY LeaveRuns
<1>. QED
  BY <1>1, SetAgreed DEF Statuses

LEMMA ChannelReadyAgreed ==
  ASSUME Shape, Agreed, NEW t \in Threads, ChannelReady(t) PROVE Agreed'
<1>. USE DEF ChannelReady, Is
<1>1. RunsOn(t)
  BY LeaveRuns
<1>. QED
  BY <1>1, SetAgreed DEF Statuses

\* What the chains do shows nowhere in the wallet.
LEMMA SameAgreed ==
  ASSUME Shape, Agreed, UNCHANGED <<course, calls, channel, reservations, run, committed, torn, upset>>
  PROVE  Agreed'
<1>1. Splices' = Splices /\ Threads' = Threads
  BY DEF Splices, Threads
<1>2. Mutual' /\ Untouched'
  BY <1>1 DEF Agreed, Mutual, Inside, Untouched, Unseen
<1>3. ~upset => Current'
  <2>1. torn \cup committed \subseteq Splices
    BY DEF Shape, TypeOK
  <2>. QED
    BY <2>1, CurrentKept DEF Agreed, Inside, Changing
<1>. QED
  BY <1>2, <1>3 DEF Agreed

LEMMA RestartAgreed == ASSUME Shape, Agreed, Restart PROVE Agreed'
<1>. USE DEF Restart, At
<1>1. Splices' = Splices /\ Threads' = Threads
  BY DEF Splices, Threads
<1>2. \A r \in Splices : (call'[r] = "idle" /\ call[r] = "idle") \/ call'[r] = "done"
  OBVIOUS
<1>3. \A r \in Splices : ~Inside(r)'
  BY <1>2 DEF Inside
<1>4. Mutual'
  BY <1>1, <1>3 DEF Mutual
<1>5. Untouched'
  BY <1>1, <1>2 DEF Agreed, Untouched, Unseen, Early, IdleThread
<1>6. ~upset => Current'
  <2>. SUFFICES ASSUME ~upset PROVE Current'
    OBVIOUS
  <2>1. obj'[cur'] = disk'
    BY Splitting DEF Shape, TypeOK, Objects
  <2>2. disk'.has \subseteq committed'
    BY DEF Agreed, Current
  <2>3. \A r \in committed' \ torn' : r \in disk'.has
    OBVIOUS
  <2>. QED
    BY <1>1, <1>2, <1>3, <2>1, <2>2, <2>3 DEF Current, Inside, Changing
<1>. QED
  BY <1>4, <1>5, <1>6 DEF Agreed

LEMMA NextAgreed == Shape /\ Agreed /\ [Next]_vars => Agreed'
<1>. SUFFICES ASSUME Shape, Agreed, [Next]_vars PROVE Agreed'
  OBVIOUS
<1>1. ASSUME NEW s \in Splices, Call(s) PROVE Agreed'
  BY <1>1, FetchAgreed, AcquireAgreed, NotAllowedAgreed, AskAgreed, SignAgreed, AckAgreed,
     SaveStartedAgreed, SaveChannelAgreed, FailAgreed, ReturnAgreed, WaitOverAgreed DEF Call
<1>2. CASE Monitor
  BY <1>2, LookAtAgreed DEF Monitor
<1>3. ASSUME NEW t \in Threads, Local(t) \/ Remote(t) \/ Errors(t) PROVE Agreed'
  <2>1. CASE Local(t)
    BY <2>1, StartAgreed, ConfirmedAgreed, EnableUtxosAgreed, EnableUtxoAgreed,
       RecordAnchorAgreed, ChannelReadyAgreed DEF Local
  <2>2. CASE DeAnchorConfirmed(t) \/ Queried(t) \/ Sent(t)
    BY <2>2, DeAnchorConfirmedAgreed, QueriedAgreed, SentAgreed
  <2>3. CASE Deliver(t)
    BY <2>3, SameAgreed DEF Deliver
  <2>4. CASE Errors(t)
    BY <2>4, GiveUpAgreed, RefusedAgreed DEF Errors
  <2>. QED
    BY <1>3, <2>1, <2>2, <2>3, <2>4 DEF Remote, Query, Broadcast
<1>4. CASE Chains
  BY <1>4, SameAgreed DEF Chains, PeerSends, Confirm
<1>5. CASE UNCHANGED vars
  BY <1>5, SameAgreed DEF vars
<1>. QED
  BY <1>1, <1>2, <1>3, <1>4, <1>5, RestartAgreed DEF Next, Handlers

\* The channel on disk is the one the peer has, apart from the splices that a
\* call gave up after its last message.
THEOREM Agree == Spec => []AgreesWithPeer
<1>1. Shape /\ Agreed => AgreesWithPeer
  BY DEF Agreed, Current, AgreesWithPeer, Shape, TypeOK
<1>. QED
  BY InitShape, NextShape, InitAgreed, NextAgreed, <1>1, PTL DEF Spec

-----------------------------------------------------------------------------
(* What carries a splice until both chains have it.                        *)

CloseSays ==
  /\ \A t \in Threads : run[t].at = "close" => Settled(run[t].s)
  /\ \A s \in Splices : Kind(s) = "recover" => Settled(s)
Held(s) == s \in resv /\ saved[s] \notin {None, "CLOSED"}
Carrying == CloseSays /\ (~upset => \A s \in disk.has : Settled(s) \/ Held(s))

LEMMA InitCarrying == Init => Carrying
<1>. SUFFICES ASSUME Init PROVE Carrying
  OBVIOUS
<1>1. CloseSays
  BY DEF Init, CloseSays, IdleThread, Settled, IsTxConfirmed
<1>. QED
  BY <1>1 DEF Init, Carrying, NoSplice

\* A step that leaves the chains alone.
LEMMA CarryKept ==
  ASSUME Shape, Carrying, UNCHANGED <<course, tx>>,
         \A t \in Threads : run'[t].at = "close" => run'[t] = run[t] \/ Settled(run'[t].s),
         ~upset' => /\ ~upset
                    /\ \A s \in disk'.has : \/ Settled(s) \/ Held(s)'
                                            \/ s \in disk.has /\ (Held(s) => Held(s)')
  PROVE  Carrying'
<1>1. Splices' = Splices /\ Threads' = Threads
  BY DEF Splices, Threads
<1>2. \A s : Settled(s)' = Settled(s) /\ Kind(s)' = Kind(s)
  BY DEF Settled, IsTxConfirmed, Kind
<1>3. CloseSays'
  BY <1>1, <1>2 DEF Carrying, CloseSays, Settled, IsTxConfirmed
<1>4. ~upset' => (\A s \in disk.has : Settled(s) \/ Held(s))'
  BY <1>2 DEF Carrying
<1>. QED
  BY <1>3, <1>4 DEF Carrying

\* A transaction that enters a chain or is confirmed only helps.
LEMMA TxCarry ==
  ASSUME Shape, Carrying, NEW s \in Splices, NEW x \in {"splice", "anchor"},
         NEW st \in {"pool", "confirmed"}, tx[s][x] # "confirmed",
         tx' = [tx EXCEPT ![s] = [tx[s] EXCEPT ![x] = st]],
         UNCHANGED <<course, channel, reservations, run, upset>>
  PROVE  Carrying'
<1>1. Splices' = Splices /\ Threads' = Threads /\ \A r : Kind(r)' = Kind(r)
  BY DEF Splices, Threads, Kind
<1>2. \A r \in Splices, y \in {"splice", "anchor"} :
        tx'[r][y] = IF r = s /\ y = x THEN st ELSE tx[r][y]
  BY DEF Shape, TypeOK
<1>3. \A r \in Splices : Settled(r) => Settled(r)'
  BY <1>2 DEF Settled, IsTxConfirmed
<1>4. CloseSays'
  <2>1. \A t \in Threads : run[t].at = "close" => run[t].s \in Splices
    BY DEF Shape, Busy
  <2>. QED
    BY <1>1, <1>3, <2>1 DEF Carrying, CloseSays
<1>5. \A r : Held(r)' = Held(r)
  BY DEF Held
<1>6. disk.has \subseteq Splices
  BY DEF Shape, TypeOK, Channel
<1>. QED
  BY <1>3, <1>4, <1>5, <1>6 DEF Carrying

LEMMA ChainsCarry == ASSUME Shape, Carrying, Chains PROVE Carrying'
<1>1. ASSUME NEW s \in Splices, PeerSends(s) PROVE Carrying'
  <2>1. PICK x \in {"splice", "anchor"} : Reaches(s, x)
    BY <1>1 DEF PeerSends
  <2>. QED
    BY <1>1, <2>1, TxCarry DEF Reaches, PeerSends, None
<1>2. ASSUME NEW s \in Splices, NEW x \in {"splice", "anchor"}, Confirm(s, x) PROVE Carrying'
  BY <1>2, TxCarry DEF Confirm
<1>. QED
  BY <1>1, <1>2 DEF Chains

LEMMA DeliverCarry == ASSUME Shape, Carrying, NEW t \in Threads, Deliver(t) PROVE Carrying'
<1>1. PICK x \in Target(t) : Reaches(Of(t), x)
  BY DEF Deliver
<1>2. x \in {"splice", "anchor"} /\ Of(t) \in Splices
  BY <1>1 DEF Target, Of, Shape, Busy
<1>. QED
  BY <1>1, <1>2, TxCarry DEF Reaches, Deliver, None

\* The calls: the reservation is saved before the channel is.
LEMMA QuietCarry ==
  ASSUME Shape, Carrying, UNCHANGED <<course, tx, run, disk, resv, saved>>, upset => upset'
  PROVE  Carrying'
BY CarryKept DEF Held

LEMMA SaveStartedCarry ==
  ASSUME Shape, Carrying, NEW s \in Splices, SaveStarted(s) PROVE Carrying'
<1>1. PICK ok \in BOOLEAN : Set(s, "STARTED", ok)
  BY DEF SaveStarted
<1>2. \A r \in disk.has : Held(r) => Held(r)'
  BY <1>1 DEF SaveStarted, Set, Held, Shape, TypeOK, Channel, None
<1>. QED
  BY <1>1, <1>2, CarryKept DEF SaveStarted, Set, Result

LEMMA SaveChannelCarry ==
  ASSUME Shape, Agreed, Carrying, NEW s \in Splices, SaveChannel(s) PROVE Carrying'
<1>. USE DEF SaveChannel, At
<1>1. PICK ok \in BOOLEAN :
        /\ disk' \in (IF ok THEN {obj[hold[s]]} ELSE {disk, obj[hold[s]]})
        /\ Result(ok)
        /\ resv' = IF ok THEN resv \cup {s} ELSE resv
        /\ run' = IF ok THEN [run EXCEPT ![s] = [at |-> "start", s |-> s, o |-> 0]] ELSE run
  OBVIOUS
<1>2. \A t \in Threads : run'[t].at = "close" => run'[t] = run[t]
  BY <1>1 DEF Shape, TypeOK
<1>3. ~upset' => ~upset /\ \A r \in disk'.has : Held(r)' \/ (r \in disk.has /\ (Held(r) => Held(r)'))
  <2>. SUFFICES ASSUME ~upset'
                PROVE  ~upset /\ \A r \in disk'.has : Held(r)' \/ (r \in disk.has /\ (Held(r) => Held(r)'))
    OBVIOUS
  <2>1. ~upset /\ ok /\ Current /\ hold[s] = cur
    BY <1>1 DEF Result, Agreed, Current, Inside
  <2>2. disk' = With(disk, s)
    BY <1>1, <2>1 DEF Current, Changing
  <2>3. Held(s)'
    BY <1>1, <2>1 DEF Agreed, Untouched, Held, None
  <2>4. \A r : Held(r) => Held(r)'
    BY <1>1, <2>1 DEF Held
  <2>. QED
    BY <2>1, <2>2, <2>3, <2>4 DEF With
<1>. QED
  BY <1>2, <1>3, CarryKept

LEMMA FailCarry == ASSUME Shape, Agreed, Carrying, NEW s \in Splices, Fail(s) PROVE Carrying'
<1>. USE DEF Fail, At
<1>1. PICK ok \in BOOLEAN : disk' = (IF ok THEN old[s] ELSE disk) /\ Result(ok)
  OBVIOUS
<1>2. \A r : r # s /\ Held(r) => Held(r)'
  BY DEF Held
<1>3. ~upset' => ~upset /\ \A r \in disk'.has : r \in disk.has /\ r # s
  BY <1>1 DEF Result, Agreed, Current, Changing
<1>. QED
  BY <1>2, <1>3, CarryKept

LEMMA CallCarry == ASSUME Shape, Agreed, Carrying, NEW s \in Splices, Call(s) PROVE Carrying'
<1>1. CASE SaveStarted(s) \/ SaveChannel(s) \/ Fail(s)
  BY <1>1, SaveStartedCarry, SaveChannelCarry, FailCarry
<1>2. CASE ~SaveStarted(s) /\ ~SaveChannel(s) /\ ~Fail(s)
  <2>1. UNCHANGED <<course, tx, run, disk, resv, saved>>
    BY <1>2 DEF Call, Fetch, Acquire, NotAllowed, Ask, Sign, Ack, Return, WaitOver
  <2>2. upset => upset'
    BY <1>2 DEF Call, Fetch, Acquire, NotAllowed, Ask, Sign, Ack, Return, WaitOver
  <2>. QED
    BY <2>1, <2>2, QuietCarry
<1>. QED
  BY <1>1, <1>2

\* The handlers: only the last takes the reservation out of the map.
LEMMA SetCarry ==
  ASSUME Shape, Carrying, NEW t \in Threads, NEW ok \in BOOLEAN, NEW st \in Statuses \ {None, "CLOSED"},
         NEW s \in Splices, Set(s, st, ok), RunsOn(t), run'[t].at = "close" => Settled(run[t].s),
         UNCHANGED <<course, tx, disk, resv>>
  PROVE  Carrying'
<1>1. \A r \in disk.has : Held(r) => Held(r)'
  BY DEF Set, Held, Shape, TypeOK, Channel
<1>2. \A r \in Threads : run'[r].at = "close" => run'[r] = run[r] \/ Settled(run'[r].s)
  BY DEF RunsOn
<1>. QED
  BY <1>1, <1>2, CarryKept DEF Set, Result

LEMMA GoCarry ==
  ASSUME Shape, Carrying, UNCHANGED <<course, tx, disk, resv, saved>>, upset => upset',
         \A t \in Threads : run'[t].at = "close" => run'[t] = run[t] \/ Settled(run'[t].s)
  PROVE  Carrying'
BY CarryKept DEF Held

LEMMA SavedRuns ==
  ASSUME Shape, NEW t \in Threads, run[t].at # "idle", NEW ok \in BOOLEAN,
         NEW at \in Places \ {"lock", "splice"}, IF ok THEN Goto(t, at) ELSE Leave(t)
  PROVE  RunsOn(t) /\ run'[t].at \in {"idle", at}
BY GotoRuns, LeaveRuns

LEMMA LookAtCarry ==
  ASSUME Shape, Carrying, NEW t \in Ticks, NEW s \in Splices, LookAt(t, s) PROVE Carrying'
<1>1. \A r \in Threads : run'[r].at = "close" => run'[r] = run[r]
  BY DEF LookAt, Entry, Shape, TypeOK
<1>. QED
  BY <1>1, GoCarry DEF LookAt

LEMMA StartCarry == ASSUME Shape, Carrying, NEW t \in Threads, Start(t) PROVE Carrying'
<1>. USE DEF Start, Is, Of
<1>. DEFINE s == run[t].s
<1>1. s \in Splices
  BY DEF Shape, Busy
<1>2. CASE NeedSendSplicingTx(s)
  <2>1. \A r \in Threads : run'[r].at = "close" => run'[r] = run[r]
    BY <1>2 DEF Goto, Shape, TypeOK
  <2>. QED
    BY <1>2, <2>1, GoCarry
<1>3. CASE ~NeedSendSplicingTx(s)
  <2>1. PICK ok \in BOOLEAN :
          /\ Set(s, IF Kind(s) = "recover" THEN "ANCHOR_CONFIRMED" ELSE "CONFIRMED", ok)
          /\ IF ok THEN Goto(t, IF Kind(s) = "recover" THEN "close" ELSE "anchor now")
             ELSE Leave(t)
    BY <1>3
  <2>2. PICK st \in {"ANCHOR_CONFIRMED", "CONFIRMED"} : Set(s, st, ok)
    BY <2>1
  <2>3. RunsOn(t) /\ (run'[t].at = "close" => Kind(s) = "recover")
    <3>1. PICK at \in {"close", "anchor now"} : /\ IF ok THEN Goto(t, at) ELSE Leave(t)
                                                /\ at = "close" => Kind(s) = "recover"
      BY <2>1
    <3>. QED
      BY <3>1, SavedRuns DEF Places, Network
  <2>4. run'[t].at = "close" => Settled(s)
    BY <1>1, <2>3 DEF Carrying, CloseSays
  <2>. QED
    BY <1>1, <2>2, <2>3, <2>4, SetCarry DEF Statuses, None
<1>. QED
  BY <1>2, <1>3

LEMMA ConfirmedCarry == ASSUME Shape, Carrying, NEW t \in Threads, Confirmed(t) PROVE Carrying'
<1>. USE DEF Confirmed, Is, Of
<1>. DEFINE s == run[t].s
<1>1. s \in Splices
  BY DEF Shape, Busy
<1>2. PICK ok \in BOOLEAN :
        /\ Set(s, IF Kind(s) = "recover" THEN "ANCHOR_CONFIRMED" ELSE "CONFIRMED", ok)
        /\ IF ok THEN Goto(t, IF Kind(s) = "recover" THEN "close" ELSE "anchor") ELSE Leave(t)
  OBVIOUS
<1>3. PICK st \in {"ANCHOR_CONFIRMED", "CONFIRMED"} : Set(s, st, ok)
  BY <1>2
<1>4. RunsOn(t) /\ (run'[t].at = "close" => Kind(s) = "recover")
  <2>1. PICK at \in {"close", "anchor"} : /\ IF ok THEN Goto(t, at) ELSE Leave(t)
                                          /\ at = "close" => Kind(s) = "recover"
    BY <1>2
  <2>. QED
    BY <2>1, SavedRuns DEF Places, Network
<1>5. run'[t].at = "close" => Settled(s)
  BY <1>1, <1>4 DEF Carrying, CloseSays
<1>. QED
  BY <1>1, <1>3, <1>4, <1>5, SetCarry DEF Statuses, None

LEMMA DeAnchorConfirmedCarry ==
  ASSUME Shape, Carrying, NEW t \in Threads, DeAnchorConfirmed(t) PROVE Carrying'
<1>. USE DEF DeAnchorConfirmed, Is, Of
<1>1. PICK ok \in BOOLEAN : /\ Set(run[t].s, "ANCHOR_CONFIRMED", ok)
                            /\ IF ok THEN Goto(t, "pay") ELSE Leave(t)
  OBVIOUS
<1>2. RunsOn(t) /\ run'[t].at # "close"
  <2>1. PICK at \in {"pay"} : IF ok THEN Goto(t, at) ELSE Leave(t)
    BY <1>1
  <2>. QED
    BY <2>1, SavedRuns DEF Places, Network
<1>3. run[t].s \in Splices
  BY DEF Shape, Busy
<1>. QED
  BY <1>1, <1>2, <1>3, SetCarry DEF Statuses, None

\* What is confirmed last confirms both.
LEMMA QueriedCarry ==
  ASSUME Shape, Ordered, Carrying, NEW t \in Threads, Queried(t) PROVE Carrying'
<1>. USE DEF Queried, Is, Of
<1>. DEFINE s == run[t].s
<1>1. s \in Splices
  BY DEF Shape, Busy
<1>2. PICK at \in {"close", "confirm"} : Goto(t, at) /\ (at = "close" =>
        IF Out(s) THEN IsTxConfirmed(s, "splice") ELSE IsTxConfirmed(s, "anchor"))
  OBVIOUS
<1>3. at = "close" => Settled(s)
  BY <1>1, <1>2 DEF Ordered, ChainsInOrder, Settled, IsTxConfirmed, None
<1>4. RunsOn(t) /\ run'[t].at = at /\ run'[t].s = s
  BY <1>2, GotoRuns DEF Places
<1>5. \A r \in Threads : run'[r].at = "close" => run'[r] = run[r] \/ Settled(run'[r].s)
  BY <1>3, <1>4 DEF RunsOn
<1>. QED
  BY <1>5, GoCarry DEF Queried

LEMMA SentCarry == ASSUME Shape, Carrying, NEW t \in Threads, Sent(t) PROVE Carrying'
<1>. USE DEF Sent, Is, Of
<1>. DEFINE s == run[t].s
<1>1. CASE run[t].at = "anchor" /\ Goto(t, "enable") /\ UNCHANGED <<status, saved, upset, call>>
  <2>1. \A r \in Threads : run'[r].at = "close" => run'[r] = run[r]
    BY <1>1 DEF Goto, Shape, TypeOK
  <2>. QED
    BY <1>1, <2>1, GoCarry
<1>2. CASE /\ run[t].at \in {"splice", "pay", "anchor now"}
           /\ \E ok \in BOOLEAN :
                Set(s, IF run[t].at = "anchor now" THEN "ANCHOR_BROADCASTED" ELSE "BROADCASTED", ok)
           /\ Leave(t)
  <2>1. PICK ok \in BOOLEAN, st \in {"ANCHOR_BROADCASTED", "BROADCASTED"} : Set(s, st, ok)
    BY <1>2
  <2>2. RunsOn(t) /\ run'[t].at = "idle"
    BY <1>2, LeaveRuns
  <2>3. s \in Splices
    BY <1>2 DEF Shape, Busy
  <2>. QED
    BY <2>1, <2>2, <2>3, SetCarry DEF Statuses, None
<1>. QED
  BY <1>1, <1>2

LEMMA EnableUtxoCarry ==
  ASSUME Shape, Agreed, Carrying, NEW t \in Threads, EnableUtxo_SatsNet(t) PROVE Carrying'
<1>. USE DEF EnableUtxo_SatsNet, Is, Of
<1>1. \A r \in Threads : run'[r].at = "close" => run'[r] = run[r]
  BY DEF Goto, Shape, TypeOK
<1>2. \A r : Held(r)' = Held(r)
  BY DEF Held
<1>3. ~upset' => ~upset /\ disk'.has \subseteq disk.has
  <2>. SUFFICES ASSUME ~upset' PROVE ~upset /\ disk'.has \subseteq disk.has
    OBVIOUS
  <2>. DEFINE c == [has |-> obj[run[t].o].has, pending |-> obj[run[t].o].pending \ {run[t].s}]
  <2>0. ~upset /\ run[t].o = cur /\ disk' = c
    OBVIOUS
  <2>1. ~upset /\ run[t].o = cur /\ disk'.has = obj[cur].has
    BY <2>0
  <2>2. \A r \in Splices : ~Inside(r)
    <3>1. mutex[cur] = 0 /\ \A r \in Splices : r # 0
      BY <2>1, Splitting DEF Shape
    <3>. QED
      BY <2>1, <3>1 DEF Agreed, Mutual, Current
  <2>3. obj[cur] = disk
    BY <2>1, <2>2 DEF Agreed, Current, Inside, Changing
  <2>. QED
    BY <2>1, <2>3
<1>. QED
  BY <1>1, <1>2, <1>3, CarryKept

LEMMA RecordAnchorCarry ==
  ASSUME Shape, Carrying, NEW t \in Threads, RecordAnchor(t) PROVE Carrying'
<1>. USE DEF RecordAnchor, Is, Of
<1>1. RunsOn(t) /\ run'[t].at = "idle" /\ run[t].s \in Splices
  BY LeaveRuns DEF Shape, Busy
<1>. QED
  BY <1>1, SetCarry DEF Statuses, None

LEMMA ChannelReadyCarry ==
  ASSUME Shape, Carrying, NEW t \in Threads, ChannelReady(t) PROVE Carrying'
<1>. USE DEF ChannelReady, Is, Of
<1>. DEFINE s == run[t].s
<1>1. s \in Splices /\ Settled(s)
  BY DEF Shape, Busy, Carrying, CloseSays
<1>2. RunsOn(t) /\ run'[t].at = "idle"
  BY LeaveRuns
<1>3. \A r \in Threads : run'[r].at = "close" => run'[r] = run[r]
  BY <1>2 DEF RunsOn
<1>4. PICK ok \in BOOLEAN : Set(s, "CLOSED", ok) /\ resv' = IF ok THEN resv \ {s} ELSE resv
  OBVIOUS
<1>5. \A r \in disk.has : r = s \/ (Held(r) => Held(r)')
  BY <1>4 DEF Set, Held, Shape, TypeOK, Channel
<1>. QED
  BY <1>1, <1>3, <1>4, <1>5, CarryKept DEF Set, Result

LEMMA OtherCarry ==
  ASSUME Shape, Carrying, NEW t \in Threads, EnableUtxos(t) \/ Errors(t) PROVE Carrying'
<1>1. \A r \in Threads : run'[r].at = "close" => run'[r] = run[r]
  BY DEF EnableUtxos, Errors, GiveUp, Refused, Leave, IdleThread, Shape, TypeOK
<1>. QED
  BY <1>1, GoCarry DEF EnableUtxos, Errors, GiveUp, Refused

LEMMA RestartCarry == ASSUME Shape, Carrying, Restart PROVE Carrying'
<1>1. \A t \in Threads : run'[t].at # "close"
  BY DEF Restart, IdleThread
<1>2. \A s \in disk.has : Held(s) => Held(s)'
  BY DEF Restart, Held, Shape, TypeOK, Channel
<1>. QED
  BY <1>1, <1>2, CarryKept DEF Restart

LEMMA NextCarrying == Shape /\ Ordered /\ Agreed /\ Carrying /\ [Next]_vars => Carrying'
<1>. SUFFICES ASSUME Shape, Ordered, Agreed, Carrying, [Next]_vars PROVE Carrying'
  OBVIOUS
<1>1. ASSUME NEW t \in Threads, Local(t) \/ Remote(t) \/ Errors(t) PROVE Carrying'
  <2>1. CASE Local(t)
    BY <2>1, StartCarry, ConfirmedCarry, OtherCarry, EnableUtxoCarry, RecordAnchorCarry,
       ChannelReadyCarry DEF Local
  <2>2. CASE Remote(t)
    BY <2>2, DeAnchorConfirmedCarry, QueriedCarry, DeliverCarry, SentCarry
       DEF Remote, Query, Broadcast
  <2>3. CASE Errors(t)
    BY <2>3, OtherCarry
  <2>. QED
    BY <1>1, <2>1, <2>2, <2>3
<1>2. CASE Monitor
  BY <1>2, LookAtCarry DEF Monitor
<1>3. CASE UNCHANGED vars
  BY <1>3, QuietCarry DEF vars
<1>. QED
  BY <1>1, <1>2, <1>3, CallCarry, ChainsCarry, RestartCarry DEF Next, Handlers

\* A splice of the saved channel has a reservation that carries it, in the map
\* and on disk, until both chains have confirmed it.
THEOREM AllCarried == Spec => []Carried
<1>1. Carrying => Carried
  BY DEF Carrying, Carried, Held
<1>. QED
  BY InitShape, NextShape, InitOrdered, NextOrdered, InitAgreed, NextAgreed, InitCarrying,
     NextCarrying, <1>1, PTL DEF Spec

-----------------------------------------------------------------------------
(* The outputs that are pending on layer 2.                                *)

\* The statuses and the places at which the output can be spent.
SpendableStatus(s) == {"ANCHOR_BROADCASTED", "ANCHOR_CONFIRMED", "CLOSED"}
                      \cup (IF Out(s) THEN {"BROADCASTED", "CONFIRMED"} ELSE {})
SpendablePlaces(s) == {"anchor now", "record", "anchored", "pay", "close"}
                      \cup (IF Out(s) THEN {"seen", "confirm"} ELSE {})
Waiting(s) ==
  /\ NeedSendSplicingTx(s)
  /\ status[s] \notin SpendableStatus(s) /\ saved[s] \notin SpendableStatus(s)
  /\ \A t \in Threads : run[t].s = s => run[t].at \notin SpendablePlaces(s)
Pending == disk.pending \cup obj[cur].pending
Freed == ~upset => \A s \in Pending : Waiting(s)

LEMMA PendingType == ASSUME Shape PROVE Pending \subseteq Splices
BY DEF Shape, TypeOK, Channel, Pending

LEMMA SpendableSame ==
  ASSUME UNCHANGED course
  PROVE  \A s : /\ SpendableStatus(s)' = SpendableStatus(s) /\ SpendablePlaces(s)' = SpendablePlaces(s)
                /\ NeedSendSplicingTx(s)' = NeedSendSplicingTx(s)
BY DEF SpendableStatus, SpendablePlaces, Out, NeedSendSplicingTx, Kind

LEMMA InitFreed == Init => Freed
<1>. SUFFICES ASSUME Init PROVE Freed
  OBVIOUS
<1>1. obj[cur] = NoSplice /\ disk = NoSplice
  BY InitShape DEF Init, Shape, TypeOK
<1>. QED
  BY <1>1 DEF Freed, Pending, NoSplice

\* Nothing new is pending and what was is no nearer to being spent.
LEMMA FreedKept ==
  ASSUME Freed,
         ~upset' => /\ ~upset /\ Pending' \subseteq Pending
                    /\ \A s \in Pending' : Waiting(s) => Waiting(s)'
  PROVE  Freed'
BY DEF Freed

LEMMA QuietFreed ==
  ASSUME Shape, Freed, UNCHANGED <<course, channel, status, saved, run>>, upset => upset'
  PROVE  Freed'
<1>1. Pending' = Pending /\ Threads' = Threads
  BY DEF Pending, Threads, Splices
<1>2. \A s \in Pending : Waiting(s) => Waiting(s)'
  BY <1>1, SpendableSame DEF Waiting
<1>. QED
  BY <1>1, <1>2, FreedKept

LEMMA AskFreed == ASSUME Shape, Agreed, Freed, NEW s \in Splices, Ask(s) PROVE Freed'
<1>. USE DEF Ask, At
<1>1. Threads' = Threads
  BY DEF Threads, Splices
<1>2. \A r : Waiting(r)' <=> Waiting(r)
  BY <1>1, SpendableSame DEF Waiting
<1>3. ~upset => \A r \in Pending' : Waiting(r)
  <2>. SUFFICES ASSUME ~upset, NEW r \in Pending' PROVE Waiting(r)
    OBVIOUS
  <2>1. hold[s] = cur /\ obj[cur] \in Channel
    BY DEF Agreed, Current, Inside, Shape, TypeOK
  <2>2. r \in Pending \/ (r = s /\ NeedSendSplicingTx(s))
    BY <2>1 DEF Pending, Shape, TypeOK
  <2>3. CASE r \in Pending
    BY <2>3 DEF Freed
  <2>4. CASE r = s /\ NeedSendSplicingTx(s)
    <3>1. status[s] = None /\ saved[s] = None /\ Unseen(s)
      BY DEF Agreed, Untouched, Early
    <3>2. \A t \in Threads : run[t].s = s => run[t].at = "idle"
      BY <3>1 DEF Unseen
    <3>. QED
      BY <2>4, <3>1, <3>2 DEF Waiting, SpendableStatus, SpendablePlaces, None
  <2>. QED
    BY <2>2, <2>3, <2>4
<1>. QED
  BY <1>2, <1>3 DEF Freed

LEMMA SaveStartedFreed ==
  ASSUME Shape, Freed, NEW s \in Splices, SaveStarted(s) PROVE Freed'
<1>1. PICK ok \in BOOLEAN : Set(s, "STARTED", ok)
  BY DEF SaveStarted
<1>2. Pending' = Pending /\ Threads' = Threads /\ run' = run
  BY DEF SaveStarted, Pending, Threads, Splices
<1>3. \A r \in Splices : /\ status'[r] \in {status[r], "STARTED"}
                         /\ saved'[r] \in {saved[r], "STARTED"}
  BY <1>1 DEF Set, Shape, TypeOK
<1>4. \A r : "STARTED" \notin SpendableStatus(r)
  BY DEF SpendableStatus
<1>5. \A r \in Splices : Waiting(r) => Waiting(r)'
  BY <1>2, <1>3, <1>4, SpendableSame DEF Waiting, SaveStarted
<1>. QED
  BY <1>1, <1>2, <1>5, PendingType, FreedKept DEF Set, Result

LEMMA SaveChannelFreed ==
  ASSUME Shape, Agreed, Freed, NEW s \in Splices, SaveChannel(s) PROVE Freed'
<1>. USE DEF SaveChannel, At
<1>1. PICK ok \in BOOLEAN :
        /\ disk' \in (IF ok THEN {obj[hold[s]]} ELSE {disk, obj[hold[s]]})
        /\ Result(ok)
        /\ run' = IF ok THEN [run EXCEPT ![s] = [at |-> "start", s |-> s, o |-> 0]] ELSE run
  OBVIOUS
<1>2. ~upset' => ~upset /\ Pending' \subseteq Pending
  BY <1>1 DEF Result, Agreed, Current, Inside, Pending
<1>3. Threads' = Threads
  BY DEF Threads, Splices
<1>4. \A t \in Threads : run'[t] = run[t] \/ run'[t].at = "start"
  BY <1>1 DEF Shape, TypeOK
<1>5. \A r : "start" \notin SpendablePlaces(r)
  BY DEF SpendablePlaces
<1>6. \A r : Waiting(r) => Waiting(r)'
  BY <1>3, <1>4, <1>5, SpendableSame DEF Waiting
<1>. QED
  BY <1>2, <1>6, FreedKept

LEMMA FailFreed == ASSUME Shape, Agreed, Freed, NEW s \in Splices, Fail(s) PROVE Freed'
<1>. USE DEF Fail, At
<1>1. \A r : Waiting(r) => Waiting(r)'
  <2>1. Threads' = Threads
    BY DEF Threads, Splices
  <2>. QED
    BY <2>1, SpendableSame DEF Waiting
<1>2. ~upset' => ~upset /\ Pending' \subseteq Pending
  <2>. SUFFICES ASSUME ~upset' PROVE ~upset /\ Pending' \subseteq Pending
    OBVIOUS
  <2>1. ~upset /\ disk' = old[s] /\ Current
    BY DEF Result, Agreed
  <2>2. obj'[cur'] = old[s]
    BY FailShape DEF Shape, TypeOK
  <2>3. old[s].pending \subseteq disk.pending
    BY <2>1 DEF Current, Changing
  <2>. QED
    BY <2>1, <2>2, <2>3 DEF Pending
<1>. QED
  BY <1>1, <1>2, FreedKept

LEMMA CallFreed == ASSUME Shape, Agreed, Freed, NEW s \in Splices, Call(s) PROVE Freed'
<1>1. CASE Ask(s) \/ SaveStarted(s) \/ SaveChannel(s) \/ Fail(s)
  BY <1>1, AskFreed, SaveStartedFreed, SaveChannelFreed, FailFreed
<1>2. CASE ~Ask(s) /\ ~SaveStarted(s) /\ ~SaveChannel(s) /\ ~Fail(s)
  <2>1. UNCHANGED <<course, channel, status, saved, run>>
    BY <1>2 DEF Call, Fetch, Acquire, NotAllowed, Sign, Ack, Return, WaitOver
  <2>2. upset => upset'
    BY <1>2 DEF Call, Fetch, Acquire, NotAllowed, Sign, Ack, Return, WaitOver
  <2>. QED
    BY <2>1, <2>2, QuietFreed
<1>. QED
  BY <1>1, <1>2

\* A handler of a splice that is still pending does not go where it could be spent.
LEMMA HandlerFreed ==
  ASSUME Shape, Freed, NEW t \in Threads, RunsOn(t), UNCHANGED <<course, channel>>,
         upset => upset',
         \A r \in Splices : r # run[t].s => status'[r] = status[r] /\ saved'[r] = saved[r],
         Waiting(run[t].s) => /\ status'[run[t].s] \notin SpendableStatus(run[t].s)
                              /\ saved'[run[t].s] \notin SpendableStatus(run[t].s)
                              /\ run'[t].at \notin SpendablePlaces(run[t].s)
  PROVE  Freed'
<1>1. Pending' = Pending /\ Threads' = Threads
  BY DEF Pending, Threads, Splices
<1>2. "idle" \notin SpendablePlaces(run[t].s) /\ \A r : "idle" \notin SpendablePlaces(r)
  BY DEF SpendablePlaces
<1>3. \A r \in Splices, q \in Threads : Waiting(r) /\ run'[q].s = r => run'[q].at \notin SpendablePlaces(r)
  BY <1>2 DEF RunsOn, Waiting
<1>4. \A r \in Splices : Waiting(r) => Waiting(r)'
  BY <1>1, <1>3, SpendableSame DEF Waiting
<1>. QED
  BY <1>1, <1>4, PendingType, FreedKept

LEMMA SetFreed ==
  ASSUME Shape, Freed, NEW t \in Threads, run[t].at # "idle", NEW ok \in BOOLEAN, NEW st \in Statuses,
         Set(run[t].s, st, ok), RunsOn(t),
         Waiting(run[t].s) => /\ st \notin SpendableStatus(run[t].s)
                              /\ run'[t].at \notin SpendablePlaces(run[t].s),
         UNCHANGED <<course, channel>>
  PROVE  Freed'
<1>1. run[t].s \in Splices
  BY DEF Shape, Busy
<1>2. \A r \in Splices : r # run[t].s => status'[r] = status[r] /\ saved'[r] = saved[r]
  BY DEF Set, Shape, TypeOK
<1>3. status'[run[t].s] = st /\ saved'[run[t].s] \in {saved[run[t].s], st}
  BY <1>1 DEF Set, Shape, TypeOK
<1>. QED
  BY <1>2, <1>3, HandlerFreed DEF Set, Result, Waiting

LEMMA GoFreed ==
  ASSUME Shape, Freed, NEW t \in Threads, RunsOn(t), UNCHANGED <<course, channel, status, saved>>,
         upset => upset', Waiting(run[t].s) => run'[t].at \notin SpendablePlaces(run[t].s)
  PROVE  Freed'
BY HandlerFreed DEF Waiting

LEMMA LookAtFreed ==
  ASSUME Shape, Freed, NEW t \in Ticks, NEW s \in Splices, LookAt(t, s) PROVE Freed'
<1>. USE DEF LookAt
<1>1. Threads' = Threads /\ t \in Threads
  BY Splitting DEF Threads, Splices, Shape
<1>2. run'[t].at = Entry(t, s) /\ run'[t].s = s /\ \A r \in Threads : r # t => run'[r] = run[r]
  BY <1>1 DEF Shape, TypeOK
<1>3. Waiting(s) => Entry(t, s) \notin SpendablePlaces(s)
  BY DEF Waiting, Entry, SpendableStatus, SpendablePlaces
<1>4. \A r \in Splices : Waiting(r) => Waiting(r)'
  BY <1>1, <1>2, <1>3, SpendableSame DEF Waiting
<1>5. Pending' = Pending
  BY DEF Pending
<1>. QED
  BY <1>4, <1>5, PendingType, FreedKept

LEMMA StartFreed == ASSUME Shape, Freed, NEW t \in Threads, Start(t) PROVE Freed'
<1>. USE DEF Start, Is, Of
<1>. DEFINE s == run[t].s
<1>1. CASE NeedSendSplicingTx(s)
  <2>1. PICK at \in {"anchor", "splice"} : Goto(t, at) /\ (at = "splice" => Kind(s) = "in")
    BY <1>1 DEF NeedSendSplicingTx, Out
  <2>2. RunsOn(t) /\ run'[t].at = at
    BY <2>1, GotoRuns DEF Places, Network
  <2>3. run'[t].at \notin SpendablePlaces(s)
    BY <2>2 DEF SpendablePlaces
  <2>. QED
    BY <1>1, <2>2, <2>3, GoFreed
<1>2. CASE ~NeedSendSplicingTx(s)
  <2>1. PICK ok \in BOOLEAN, st \in {"ANCHOR_CONFIRMED", "CONFIRMED"}, at \in {"close", "anchor now"} :
          Set(s, st, ok) /\ IF ok THEN Goto(t, at) ELSE Leave(t)
    <3>1. CASE Kind(s) = "recover"
      BY <1>2, <3>1
    <3>2. CASE Kind(s) # "recover"
      BY <1>2, <3>2
    <3>. QED
      BY <3>1, <3>2
  <2>2. RunsOn(t)
    BY <2>1, SavedRuns DEF Places, Network
  <2>3. ~Waiting(s)
    BY <1>2 DEF Waiting
  <2>. QED
    BY <2>1, <2>2, <2>3, SetFreed DEF Statuses
<1>. QED
  BY <1>1, <1>2

LEMMA ConfirmedFreed == ASSUME Shape, Freed, NEW t \in Threads, Confirmed(t) PROVE Freed'
<1>. USE DEF Confirmed, Is, Of
<1>. DEFINE s == run[t].s
<1>1. CASE Kind(s) = "recover"
  <2>1. PICK ok \in BOOLEAN, at \in {"close"} :
          Set(s, "ANCHOR_CONFIRMED", ok) /\ IF ok THEN Goto(t, at) ELSE Leave(t)
    BY <1>1
  <2>2. RunsOn(t)
    BY <2>1, SavedRuns DEF Places
  <2>3. ~Waiting(s)
    BY <1>1 DEF Waiting, NeedSendSplicingTx
  <2>. QED
    BY <2>1, <2>2, <2>3, SetFreed DEF Statuses
<1>2. CASE Kind(s) # "recover"
  <2>1. PICK ok \in BOOLEAN, at \in {"anchor"} :
          Set(s, "CONFIRMED", ok) /\ IF ok THEN Goto(t, at) ELSE Leave(t)
    BY <1>2
  <2>2. RunsOn(t) /\ run'[t].at \in {"idle", "anchor"}
    BY <2>1, SavedRuns DEF Places, Network
  <2>3. Waiting(s) => "CONFIRMED" \notin SpendableStatus(s)
    BY DEF Waiting, SpendableStatus, SpendablePlaces, Shape, Busy
  <2>4. run'[t].at \notin SpendablePlaces(s)
    BY <2>2 DEF SpendablePlaces
  <2>. QED
    BY <2>1, <2>2, <2>3, <2>4, SetFreed DEF Statuses
<1>. QED
  BY <1>1, <1>2

LEMMA DeAnchorConfirmedFreed ==
  ASSUME Shape, Freed, NEW t \in Threads, DeAnchorConfirmed(t) PROVE Freed'
<1>. USE DEF DeAnchorConfirmed, Is, Of
<1>1. PICK ok \in BOOLEAN, at \in {"pay"} :
        Set(run[t].s, "ANCHOR_CONFIRMED", ok) /\ IF ok THEN Goto(t, at) ELSE Leave(t)
  OBVIOUS
<1>2. RunsOn(t)
  BY <1>1, SavedRuns DEF Places, Network
<1>3. ~Waiting(run[t].s)
  BY DEF Waiting, SpendablePlaces
<1>. QED
  BY <1>1, <1>2, <1>3, SetFreed DEF Statuses

LEMMA QueriedFreed == ASSUME Shape, Freed, NEW t \in Threads, Queried(t) PROVE Freed'
<1>. USE DEF Queried, Is, Of
<1>. DEFINE s == run[t].s
<1>1. PICK at \in {"close", "confirm"} :
        Goto(t, at) /\ (run[t].at \in {"seen", "anchored"}) /\ (run[t].at = "anchored" \/ Out(s) \/ at = "confirm")
  OBVIOUS
<1>2. RunsOn(t) /\ run'[t].at = at
  BY <1>1, GotoRuns DEF Places
<1>3. Waiting(s) => at \notin SpendablePlaces(s)
  BY <1>1 DEF Waiting, SpendablePlaces
<1>. QED
  BY <1>2, <1>3, GoFreed

LEMMA SentFreed == ASSUME Shape, Freed, NEW t \in Threads, Sent(t) PROVE Freed'
<1>. USE DEF Sent, Is, Of
<1>. DEFINE s == run[t].s
<1>1. CASE run[t].at = "anchor" /\ Goto(t, "enable") /\ UNCHANGED <<status, saved, upset, call>>
  <2>1. RunsOn(t) /\ run'[t].at = "enable"
    BY <1>1, GotoRuns DEF Places
  <2>2. run'[t].at \notin SpendablePlaces(s)
    BY <2>1 DEF SpendablePlaces
  <2>. QED
    BY <1>1, <2>1, <2>2, GoFreed
<1>2. CASE /\ run[t].at \in {"splice", "pay", "anchor now"}
           /\ \E ok \in BOOLEAN :
                Set(s, IF run[t].at = "anchor now" THEN "ANCHOR_BROADCASTED" ELSE "BROADCASTED", ok)
           /\ Leave(t)
  <2>1. PICK ok \in BOOLEAN, st \in {"ANCHOR_BROADCASTED", "BROADCASTED"} :
          Set(s, st, ok) /\ (st = "ANCHOR_BROADCASTED" => run[t].at = "anchor now")
    BY <1>2
  <2>2. RunsOn(t) /\ run'[t].at = "idle"
    BY <1>2, LeaveRuns
  <2>3. Waiting(s) => run[t].at = "splice" /\ ~Out(s)
    BY <1>2 DEF Waiting, SpendablePlaces, Shape, Busy, Out
  <2>4. Waiting(s) => st \notin SpendableStatus(s) /\ run'[t].at \notin SpendablePlaces(s)
    BY <2>1, <2>2, <2>3 DEF SpendableStatus, SpendablePlaces
  <2>. QED
    BY <1>2, <2>1, <2>2, <2>4, SetFreed DEF Statuses
<1>. QED
  BY <1>1, <1>2

LEMMA ErrorFreed == ASSUME Shape, Freed, NEW t \in Threads, Errors(t) PROVE Freed'
<1>1. RunsOn(t) /\ run'[t].at = "idle"
  BY LeaveRuns DEF Errors, GiveUp, Refused
<1>2. run'[t].at \notin SpendablePlaces(run[t].s)
  BY <1>1 DEF SpendablePlaces
<1>3. UNCHANGED <<course, channel, status, saved, upset>>
  BY DEF Errors, GiveUp, Refused
<1>. QED
  BY <1>1, <1>2, <1>3, GoFreed

LEMMA EnableUtxosFreed == ASSUME Shape, Freed, NEW t \in Threads, EnableUtxos(t) PROVE Freed'
<1>. USE DEF EnableUtxos, Is, Of
<1>1. [at |-> "lock", s |-> run[t].s, o |-> cur]
        \in [at : Places, s : Splices \cup {0}, o : Objects \cup {0}] /\ cur \in Objects
  BY DEF Shape, TypeOK, Places
<1>2. RunsOn(t) /\ run'[t].at = "lock"
  BY <1>1 DEF RunsOn, Shape, TypeOK
<1>3. \A s : "lock" \notin SpendablePlaces(s)
  BY DEF SpendablePlaces
<1>4. UNCHANGED <<course, channel, status, saved, upset>>
  OBVIOUS
<1>. QED
  BY <1>2, <1>3, <1>4, GoFreed

\* The object and the disk lose the output together.
LEMMA EnableUtxoFreed ==
  ASSUME Shape, Agreed, Freed, NEW t \in Threads, EnableUtxo_SatsNet(t) PROVE Freed'
<1>. USE DEF EnableUtxo_SatsNet, Is, Of
<1>. DEFINE c == [has |-> obj[run[t].o].has, pending |-> obj[run[t].o].pending \ {run[t].s}]
<1>1. Threads' = Threads
  BY DEF Threads, Splices
<1>2. RunsOn(t)
  BY GotoRuns DEF Places
<1>3. ~upset' => ~upset /\ Pending' \subseteq Pending \ {run[t].s}
  <2>. SUFFICES ASSUME ~upset' PROVE ~upset /\ Pending' \subseteq Pending \ {run[t].s}
    OBVIOUS
  <2>1. ~upset /\ run[t].o = cur /\ disk' = c
    OBVIOUS
  <2>2. obj'[cur'] = c
    BY <2>1 DEF Shape, TypeOK
  <2>. QED
    BY <2>1, <2>2 DEF Pending
<1>4. \A r : r # run[t].s /\ Waiting(r) => Waiting(r)'
  <2>1. \A q \in Threads : run'[q].s = run[t].s \/ run'[q] = run[q] \/ run'[q].at = "idle"
    BY <1>2 DEF RunsOn
  <2>2. \A r : "idle" \notin SpendablePlaces(r)
    BY DEF SpendablePlaces
  <2>. QED
    BY <1>1, <2>1, <2>2, SpendableSame DEF Waiting
<1>. QED
  BY <1>3, <1>4, FreedKept

LEMMA RecordAnchorFreed ==
  ASSUME Shape, Freed, NEW t \in Threads, RecordAnchor(t) PROVE Freed'
<1>. USE DEF RecordAnchor, Is, Of
<1>1. RunsOn(t) /\ ~Waiting(run[t].s)
  BY LeaveRuns DEF Waiting, SpendablePlaces
<1>2. PICK ok \in BOOLEAN : Set(run[t].s, "ANCHOR_BROADCASTED", ok)
  OBVIOUS
<1>. QED
  BY <1>1, <1>2, SetFreed DEF Statuses

LEMMA ChannelReadyFreed ==
  ASSUME Shape, Freed, NEW t \in Threads, ChannelReady(t) PROVE Freed'
<1>. USE DEF ChannelReady, Is, Of
<1>1. RunsOn(t) /\ ~Waiting(run[t].s)
  BY LeaveRuns DEF Waiting, SpendablePlaces
<1>2. PICK ok \in BOOLEAN : Set(run[t].s, "CLOSED", ok)
  OBVIOUS
<1>. QED
  BY <1>1, <1>2, SetFreed DEF Statuses

LEMMA RestartFreed == ASSUME Shape, Freed, Restart PROVE Freed'
<1>. USE DEF Restart
<1>1. Pending' \subseteq Pending
  <2>1. obj'[cur'] = disk
    BY Splitting DEF Objects, Shape, TypeOK
  <2>. QED
    BY <2>1 DEF Pending
<1>2. \A s : Waiting(s) => Waiting(s)'
  BY SpendableSame DEF Waiting, IdleThread, SpendablePlaces, Threads, Splices
<1>. QED
  BY <1>1, <1>2, FreedKept

LEMMA NextFreed == Shape /\ Agreed /\ Freed /\ [Next]_vars => Freed'
<1>. SUFFICES ASSUME Shape, Agreed, Freed, [Next]_vars PROVE Freed'
  OBVIOUS
<1>1. ASSUME NEW t \in Threads, Local(t) \/ Remote(t) \/ Errors(t) PROVE Freed'
  <2>1. CASE Local(t)
    BY <2>1, StartFreed, ConfirmedFreed, EnableUtxosFreed, EnableUtxoFreed, RecordAnchorFreed,
       ChannelReadyFreed DEF Local
  <2>2. CASE DeAnchorConfirmed(t) \/ Queried(t) \/ Sent(t)
    BY <2>2, DeAnchorConfirmedFreed, QueriedFreed, SentFreed
  <2>3. CASE Deliver(t)
    BY <2>3, QuietFreed DEF Deliver
  <2>4. CASE Errors(t)
    BY <2>4, ErrorFreed
  <2>. QED
    BY <1>1, <2>1, <2>2, <2>3, <2>4 DEF Remote, Query, Broadcast
<1>2. CASE Monitor
  BY <1>2, LookAtFreed DEF Monitor
<1>3. CASE Chains
  BY <1>3, QuietFreed DEF Chains, PeerSends, Confirm
<1>4. CASE UNCHANGED vars
  BY <1>4, QuietFreed DEF vars
<1>. QED
  BY <1>1, <1>2, <1>3, <1>4, CallFreed, RestartFreed DEF Next, Handlers

\* A closed splice has no output pending, on disk or in channelMap.
THEOREM Usable == Spec => []UsableWhenClosed
<1>1. Freed => UsableWhenClosed
  BY DEF Freed, UsableWhenClosed, Pending, Waiting, SpendableStatus
<1>. QED
  BY InitShape, NextShape, InitAgreed, NextAgreed, InitFreed, NextFreed, <1>1, PTL DEF Spec
=============================================================================
