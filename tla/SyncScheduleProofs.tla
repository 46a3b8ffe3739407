------------------------- MODULE SyncScheduleProofs -------------------------
(***************************************************************************)
(* The safety properties of SyncSchedule, for any kinds and requests, with *)
(* any of them replaced, failing or not ready.  What FailureStaysOwn adds  *)
(* to the type invariant to be inductive is Told: what a call knows of the *)
(* kinds it has passed, of the one it is at and of those to come.          *)
(***************************************************************************)
EXTENDS SyncSchedule, TLAPS

Resting == {"off", "idle", "asleep"}

Told(t) ==
  /\ left[t] # {} => pc[t] = "failing"
  /\ todo[t] \subseteq asked[t] /\ failed[t] \subseteq asked[t] \ todo[t]
  /\ cur[t] # NoKind => cur[t] \in asked[t] \ todo[t]
  /\ pc[t] = "failing" <=> cur[t] \in failed[t]
  /\ \A k \in asked[t] \ todo[t] : k # cur[t] =>
       results[t][k] = IF k \in failed[t] THEN "error" ELSE "ok"

AllTold == ~stray /\ \A t \in Threads : Told(t)

Inv == TypeOK /\ AllTold
-----------------------------------------------------------------------------
(* The actions that change nothing of a call but the scheduler's rest.      *)
Lifecycle ==
  \/ StartThread \/ AlreadyRunning \/ StartUnscheduled \/ Stop \/ Joined \/ Exit \/ LoopEnds
  \/ \E k \in Kinds : Unregister(k) \/ Register(k) \/ ReadinessChanges(k)

(* What a step of the schedule is: one of the lifecycle and the registry,   *)
(* or a thread begins a call, moves on in it, or leaves it (SyncSchedule,   *)
(* Next).                                                                  *)
LEMMA StepsAre ==
  ASSUME Typed, Next
  PROVE  \/ Lifecycle
         \/ \E t \in Threads :
              \/ \E kinds \in SUBSET Kinds : Begin(t, kinds)
              \/ \E k \in Kinds : Take(t, k) \/ Unknown(t, k)
              \/ Acquire(t) \/ Succeed(t) \/ HandlerRaises(t) \/ Rollback(t)
              \/ Return(t) \/ Raise(t)
<1>1. ReadyKinds \in SUBSET Kinds
  BY DEF ReadyKinds, Typed
<1>2. CASE Tick
  BY <1>1, <1>2 DEF Tick, Threads
<1>3. CASE \E t \in Requests : SyncAll(t) \/ \E k \in Kinds : SyncOne(t, k)
  BY <1>1, <1>3 DEF SyncAll, SyncOne, Threads
<1> QED BY <1>2, <1>3 DEF Next, Step, Lifecycle

(* Each step keeps the types (SyncSchedule, Typed).                        *)
LEMMA TypedKept == Typed /\ Placed /\ [Next]_vars => Typed'
<1> SUFFICES ASSUME Typed, Placed, [Next]_vars PROVE Typed'
  OBVIOUS
<1> USE KindsAssumption, ThreadsAssumption DEF Typed, Points, Answers, Outcomes, Unasked
<1>1. CASE UNCHANGED vars
  BY <1>1 DEF vars, lifeVars, registry, callVars
<1>2. CASE Lifecycle
  <2> USE DEF lifeVars, registry, callVars
  <2>1. CASE StartThread \/ AlreadyRunning \/ StartUnscheduled \/ Stop \/ Joined
    BY <2>1 DEF StartThread, AlreadyRunning, StartUnscheduled, Stop, Joined, Threads
  <2>2. CASE Exit
    BY <2>2 DEF Exit, Threads
  <2>3. CASE LoopEnds
    BY <2>3 DEF LoopEnds
  <2>4. CASE \E k \in Kinds : Unregister(k) \/ Register(k) \/ ReadinessChanges(k)
    BY <2>4 DEF Unregister, Register, ReadinessChanges
  <2> QED BY <1>2, <2>1, <2>2, <2>3, <2>4 DEF Lifecycle
<1>3. ASSUME NEW t \in Threads,
             \/ \E kinds \in SUBSET Kinds : Begin(t, kinds)
             \/ \E k \in Kinds : Take(t, k) \/ Unknown(t, k)
             \/ Acquire(t) \/ Succeed(t) \/ HandlerRaises(t) \/ Rollback(t)
             \/ Return(t) \/ Raise(t)
      PROVE  Typed'
  <2> USE DEF lifeVars, registry, callVars, Rest, Release, Record, EndCall
  <2>1. CASE \E kinds \in SUBSET Kinds : Begin(t, kinds)
    BY <2>1 DEF Begin
  <2>2. ASSUME NEW k \in Kinds, Take(t, k) \/ Unknown(t, k) PROVE Typed'
    <3>1. CASE Take(t, k)
      BY <3>1 DEF Take
    <3>2. CASE Unknown(t, k)
      BY <3>2 DEF Unknown
    <3> QED BY <2>2, <3>1, <3>2
  <2>3. CASE Acquire(t)
    BY <2>3 DEF Acquire
  <2>4. CASE Succeed(t)
    BY <2>4 DEF Succeed
  <2>5. CASE HandlerRaises(t)
    <3>1. cur[t] \in Kinds
      BY <2>5 DEF HandlerRaises, Placed
    <3>2. PICK work \in SUBSET {cur[t]} : left' = [left EXCEPT ![t] = @ \cup work]
      BY <2>5 DEF HandlerRaises
    <3> QED BY <2>5, <3>1, <3>2 DEF HandlerRaises
  <2>6. CASE Rollback(t)
    BY <2>6 DEF Rollback
  <2>7. CASE Return(t)
    BY <2>7 DEF Return
  <2>8. CASE Raise(t)
    BY <2>8 DEF Raise
  <2> QED BY <1>3, <2>1, <2>2, <2>3, <2>4, <2>5, <2>6, <2>7, <2>8
<1> QED BY <1>1, <1>2, <1>3, StepsAre DEF Typed

(* The lock of a kind stays with the thread that is in the kind's handler    *)
(* (sync.py: sync; sync_registry.py: register_sync_handler).               *)
LEMMA LockedKept == TypeOK /\ [Next]_vars => Locked'
<1> SUFFICES ASSUME TypeOK, [Next]_vars PROVE Locked'
  OBVIOUS
<1> USE KindsAssumption, ThreadsAssumption DEF TypeOK, Typed, Locked
<1>1. CASE UNCHANGED vars
  BY <1>1 DEF vars, lifeVars, registry, callVars
<1>2. CASE Lifecycle
  <2> USE DEF lifeVars, registry, callVars
  <2>1. CASE AlreadyRunning \/ StartUnscheduled \/ Stop \/ Joined
    BY <2>1 DEF AlreadyRunning, StartUnscheduled, Stop, Joined
  <2>2. CASE StartThread
    BY <2>2 DEF StartThread, IsRunning, Threads
  <2>3. CASE Exit
    BY <2>3 DEF Exit, Threads
  <2>4. CASE LoopEnds
    BY <2>4 DEF LoopEnds, Threads
  <2>5. CASE \E k \in Kinds : Unregister(k) \/ Register(k) \/ ReadinessChanges(k)
    BY <2>5 DEF Unregister, Register, ReadinessChanges
  <2> QED BY <1>2, <2>1, <2>2, <2>3, <2>4, <2>5 DEF Lifecycle
<1>3. ASSUME NEW t \in Threads,
             \/ \E kinds \in SUBSET Kinds : Begin(t, kinds)
             \/ \E k \in Kinds : Take(t, k) \/ Unknown(t, k)
             \/ Acquire(t) \/ Succeed(t) \/ HandlerRaises(t) \/ Rollback(t)
             \/ Return(t) \/ Raise(t)
      PROVE  Locked'
  <2> USE DEF lifeVars, registry, callVars, Rest, Release, EndCall
  <2>1. CASE \E kinds \in SUBSET Kinds : Begin(t, kinds)
    BY <2>1 DEF Begin
  <2>2. ASSUME NEW k \in Kinds, Take(t, k) \/ Unknown(t, k) PROVE Locked'
    BY <2>2 DEF Take, Unknown
  <2>3. CASE Acquire(t)
    <3>1. cur[t] \in Kinds
      BY <2>3 DEF Acquire, Placed
    <3> QED BY <2>3, <3>1 DEF Acquire
  <2>4. CASE Succeed(t) \/ HandlerRaises(t)
    <3>1. cur[t] \in Kinds /\ pc'[t] # "handling" /\ Release(t)
      BY <2>4 DEF Succeed, HandlerRaises, Placed
    <3>2. \A u \in Threads \ {t} : pc'[u] = pc[u] /\ cur'[u] = cur[u]
      BY <2>4 DEF Succeed, HandlerRaises
    <3>3. pc[t] = "handling"
      BY <2>4 DEF Succeed, HandlerRaises
    <3> QED BY <3>1, <3>2, <3>3
  <2>5. CASE Rollback(t)
    BY <2>5 DEF Rollback
  <2>6. CASE Return(t)
    BY <2>6 DEF Return
  <2>7. CASE Raise(t)
    BY <2>7 DEF Raise
  <2> QED BY <1>3, <2>1, <2>2, <2>3, <2>4, <2>5, <2>6, <2>7
<1> QED BY <1>1, <1>2, <1>3, StepsAre

(* What a thread keeps matches its place in its call, and nothing is left    *)
(* of a call that has ended (scheduler.py: run_scheduled_sync, db.close).   *)
LEMMA PlacedKept == TypeOK /\ [Next]_vars => Placed'
<1> SUFFICES ASSUME TypeOK, [Next]_vars PROVE Placed'
  OBVIOUS
<1> USE KindsAssumption, ThreadsAssumption DEF TypeOK, Typed, Placed
<1>1. CASE UNCHANGED vars
  BY <1>1 DEF vars, lifeVars, registry, callVars
<1>2. CASE Lifecycle
  <2> USE DEF lifeVars, registry, callVars
  <2>1. CASE AlreadyRunning \/ StartUnscheduled \/ Stop \/ Joined
    BY <2>1 DEF AlreadyRunning, StartUnscheduled, Stop, Joined
  <2>2. CASE StartThread
    BY <2>2 DEF StartThread, IsRunning, Threads
  <2>3. CASE Exit
    BY <2>3 DEF Exit, Threads
  <2>4. CASE LoopEnds
    BY <2>4 DEF LoopEnds, Threads
  <2>5. CASE \E k \in Kinds : Unregister(k) \/ Register(k) \/ ReadinessChanges(k)
    BY <2>5 DEF Unregister, Register, ReadinessChanges
  <2> QED BY <1>2, <2>1, <2>2, <2>3, <2>4, <2>5 DEF Lifecycle
<1>3. ASSUME NEW t \in Threads,
             \/ \E kinds \in SUBSET Kinds : Begin(t, kinds)
             \/ \E k \in Kinds : Take(t, k) \/ Unknown(t, k)
             \/ Acquire(t) \/ Succeed(t) \/ HandlerRaises(t) \/ Rollback(t)
             \/ Return(t) \/ Raise(t)
      PROVE  Placed'
  <2> USE DEF lifeVars, registry, callVars, Rest, Record, EndCall
  <2>1. CASE \E kinds \in SUBSET Kinds : Begin(t, kinds)
    BY <2>1 DEF Begin
  <2>2. ASSUME NEW k \in Kinds, Take(t, k) \/ Unknown(t, k) PROVE Placed'
    BY <2>2 DEF Take, Unknown
  <2>3. CASE Acquire(t)
    BY <2>3 DEF Acquire
  <2>4. CASE Succeed(t)
    BY <2>4 DEF Succeed
  <2>5. CASE HandlerRaises(t)
    BY <2>5 DEF HandlerRaises
  <2>6. CASE Rollback(t)
    BY <2>6 DEF Rollback
  <2>7. CASE Return(t)
    BY <2>7 DEF Return
  <2>8. CASE Raise(t)
    BY <2>8 DEF Raise
  <2> QED BY <1>3, <2>1, <2>2, <2>3, <2>4, <2>5, <2>6, <2>7, <2>8
<1> QED BY <1>1, <1>2, <1>3, StepsAre

(* What a thread that takes no step knows of its call stays as it is.       *)
LEMMA Others ==
  ASSUME NEW u \in Threads, Told(u),
         pc'[u] = pc[u], cur'[u] = cur[u], todo'[u] = todo[u], left'[u] = left[u],
         results'[u] = results[u], asked'[u] = asked[u], failed'[u] = failed[u]
  PROVE  Told(u)'
BY DEF Told

(* A kind that fails, and nobody else, has an error to report, and its work *)
(* is out of the session before the next kind's turn (sync_all.py).         *)
LEMMA ToldKept == Inv /\ [Next]_vars => AllTold'
<1> SUFFICES ASSUME Inv, [Next]_vars PROVE AllTold'
  OBVIOUS
<1> USE KindsAssumption, ThreadsAssumption DEF Inv, TypeOK, AllTold
<1>1. CASE UNCHANGED vars
  BY <1>1 DEF vars, lifeVars, registry, callVars, Told
<1>2. CASE Lifecycle
  <2> USE DEF lifeVars, registry, callVars
  <2>1. CASE AlreadyRunning \/ StartUnscheduled \/ Stop \/ Joined
    BY <2>1, Others DEF AlreadyRunning, StartUnscheduled, Stop, Joined
  <2>2. CASE StartThread \/ LoopEnds
    <3>1. \A u \in Threads \ {"scheduler"} : pc'[u] = pc[u]
      BY <2>2 DEF StartThread, LoopEnds, Typed
    <3>2. pc["scheduler"] # "failing" /\ pc'["scheduler"] # "failing"
      BY <2>2 DEF StartThread, LoopEnds, IsRunning, Typed, Threads
    <3> QED BY <2>2, <3>1, <3>2 DEF StartThread, LoopEnds, Told
  <2>3. CASE Exit
    BY <2>3 DEF Exit, Told, Threads
  <2>4. CASE \E k \in Kinds : Unregister(k) \/ Register(k) \/ ReadinessChanges(k)
    BY <2>4, Others DEF Unregister, Register, ReadinessChanges
  <2> QED BY <1>2, <2>1, <2>2, <2>3, <2>4 DEF Lifecycle
<1>3. ASSUME NEW t \in Threads,
             \/ \E kinds \in SUBSET Kinds : Begin(t, kinds)
             \/ \E k \in Kinds : Take(t, k) \/ Unknown(t, k)
             \/ Acquire(t) \/ Succeed(t) \/ HandlerRaises(t) \/ Rollback(t)
             \/ Return(t) \/ Raise(t)
      PROVE  AllTold'
  <2> USE DEF lifeVars, registry, callVars, Rest, Typed
  <2> SUFFICES ASSUME NEW kinds \in SUBSET Kinds, NEW k \in Kinds \cup {NoKind},
                      \/ Begin(t, kinds) \/ (k \in Kinds /\ (Take(t, k) \/ Unknown(t, k)))
                      \/ Acquire(t) \/ Succeed(t) \/ HandlerRaises(t) \/ Rollback(t)
                      \/ Return(t) \/ Raise(t)
               PROVE  AllTold'
    <3>1. {} \in SUBSET Kinds /\ NoKind \in Kinds \cup {NoKind} /\ Kinds \subseteq Kinds \cup {NoKind}
      OBVIOUS
    <3> QED BY <1>3, <3>1, ZenonT(30)
  <2>1. ASSUME NEW u \in Threads \ {t} PROVE Told(u)'
    <3>1. /\ pc'[u] = pc[u] /\ cur'[u] = cur[u] /\ todo'[u] = todo[u] /\ left'[u] = left[u]
          /\ asked'[u] = asked[u] /\ failed'[u] = failed[u] /\ results'[u] = results[u]
      <4>1. CASE Begin(t, kinds) BY <4>1 DEF Begin
      <4>2. CASE k \in Kinds /\ Take(t, k) BY <4>2 DEF Take
      <4>3. CASE k \in Kinds /\ Unknown(t, k) BY <4>3 DEF Unknown
      <4>4. CASE Acquire(t) BY <4>4 DEF Acquire
      <4>5. CASE Succeed(t) BY <4>5 DEF Succeed, Record
      <4>6. CASE HandlerRaises(t) BY <4>6 DEF HandlerRaises
      <4>7. CASE Rollback(t) BY <4>7 DEF Rollback, Record
      <4>8. CASE Return(t) \/ Raise(t) BY <4>8 DEF Return, Raise, EndCall
      <4> QED BY <4>1, <4>2, <4>3, <4>4, <4>5, <4>6, <4>7, <4>8
    <3> QED BY <3>1, Others
  <2>2. Told(t)' /\ ~stray'
    <3> USE DEF Told
    <3>1. CASE Begin(t, kinds)
      BY <3>1 DEF Begin, Placed, Unasked
    <3>2. CASE k \in Kinds /\ Take(t, k)
      BY <3>2 DEF Take, Placed
    <3>3. CASE k \in Kinds /\ Unknown(t, k)
      <4>1. pc[t] = "next" /\ cur[t] = NoKind /\ left[t] = {} /\ k \in todo[t]
        BY <3>3 DEF Unknown, Placed
      <4>2. /\ pc'[t] = "failing" /\ cur'[t] = k /\ todo'[t] = todo[t] \ {k}
            /\ failed'[t] = failed[t] \cup {k}
        BY <3>3 DEF Unknown
      <4>3. left' = left /\ results' = results /\ asked' = asked /\ stray' = stray
        BY <3>3 DEF Unknown
      <4>4. \A j \in asked'[t] \ todo'[t] : j # cur'[t] =>
               results'[t][j] = IF j \in failed'[t] THEN "error" ELSE "ok"
        BY <4>1, <4>2, <4>3
      <4>5. todo'[t] \subseteq asked'[t] /\ failed'[t] \subseteq asked'[t] \ todo'[t]
        BY <4>1, <4>2, <4>3
      <4>6. k \in asked'[t] \ todo'[t]
        BY <4>1, <4>2, <4>3
      <4> QED BY <4>1, <4>2, <4>3, <4>4, <4>5, <4>6
    <3>4. CASE Acquire(t)
      BY <3>4 DEF Acquire
    <3>5. CASE Succeed(t)
      BY <3>5 DEF Succeed, Record, Placed
    <3>6. CASE HandlerRaises(t)
      BY <3>6 DEF HandlerRaises, Placed
    <3>7. CASE Rollback(t)
      BY <3>7 DEF Rollback, Record, Placed
    <3>8. CASE Return(t) \/ Raise(t)
      <4>1. /\ cur'[t] = NoKind /\ todo'[t] = {} /\ left'[t] = {}
            /\ asked'[t] = {} /\ failed'[t] = {}
        <5>1. PICK ended \in BOOLEAN : EndCall(t, ended)
          BY <3>8 DEF Return, Raise
        <5> QED BY <5>1 DEF EndCall
      <4>2. pc'[t] # "failing" /\ stray' = stray
        <5>1. pc' = [pc EXCEPT ![t] = Rest(t)] /\ stray' = stray
          BY <3>8 DEF Return, Raise, EndCall
        <5> QED BY <5>1
      <4> QED BY <4>1, <4>2
    <3> QED BY <3>1, <3>2, <3>3, <3>4, <3>5, <3>6, <3>7, <3>8
  <2> QED BY <2>1, <2>2
<1> QED BY <1>1, <1>2, <1>3, StepsAre DEF Typed
-----------------------------------------------------------------------------
(* Once started, the schedule has a thread that goes on, whatever its ticks  *)
(* raise (scheduler.py: start, stop, _loop).                                *)
LEMMA ScheduledKept == TypeOK /\ StartedIsScheduled /\ [Next]_vars => StartedIsScheduled'
<1> SUFFICES ASSUME TypeOK, StartedIsScheduled, [Next]_vars PROVE StartedIsScheduled'
  OBVIOUS
<1> USE ThreadsAssumption DEF TypeOK, Typed, StartedIsScheduled, IsRunning
<1>1. CASE UNCHANGED vars
  BY <1>1 DEF vars, lifeVars, registry, callVars
<1>2. CASE Lifecycle
  BY <1>2 DEF Lifecycle, StartThread, AlreadyRunning, StartUnscheduled, Stop, Joined, Exit,
    LoopEnds, Unregister, Register, ReadinessChanges, lifeVars, registry, callVars, Threads, IsRunning
<1>3. ASSUME NEW t \in Threads,
             \/ \E kinds \in SUBSET Kinds : Begin(t, kinds)
             \/ \E k \in Kinds : Take(t, k) \/ Unknown(t, k)
             \/ Acquire(t) \/ Succeed(t) \/ HandlerRaises(t) \/ Rollback(t)
             \/ Return(t) \/ Raise(t)
      PROVE  StartedIsScheduled'
  <2>1. UNCHANGED lifeVars
    BY <1>3 DEF Begin, Take, Unknown, Acquire, Succeed, HandlerRaises, Rollback, Return, Raise, EndCall
  <2>2. pc' = pc \/ \E p \in Points \ {"off", "asleep"} : pc' = [pc EXCEPT ![t] = p]
                  \/ pc' = [pc EXCEPT ![t] = Rest(t)]
    BY <1>3 DEF Begin, Take, Unknown, Acquire, Succeed, HandlerRaises, Rollback, Return, Raise, Points
  <2>3. "scheduler" \in Threads
    BY DEF Threads
  <2> QED BY <2>1, <2>2, <2>3 DEF lifeVars, Rest
<1> QED BY <1>1, <1>2, <1>3, StepsAre DEF TypeOK
-----------------------------------------------------------------------------
LEMMA InvInit == Init => Inv /\ StartedIsScheduled
<1> SUFFICES ASSUME Init PROVE Inv /\ StartedIsScheduled
  OBVIOUS
<1> USE KindsAssumption, ThreadsAssumption DEF Init, InMemory
<1>1. Typed
  BY DEF Typed, Points, Answers, Outcomes, Unasked, Threads
<1>2. Locked /\ Placed
  BY DEF Locked, Placed, Threads
<1>3. AllTold /\ StartedIsScheduled
  BY DEF AllTold, Told, StartedIsScheduled
<1> QED BY <1>1, <1>2, <1>3 DEF Inv, TypeOK

LEMMA InvNext == Inv /\ [Next]_vars => Inv'
BY TypedKept, LockedKept, PlacedKept, ToldKept DEF Inv, TypeOK

LEMMA AlwaysInv == Spec => []Inv
BY InvInit, InvNext, PTL DEF Spec

(* A kind's lock is held by the thread in its handler and by no other, also   *)
(* when the kind is registered again meanwhile, for any number of threads    *)
(* (sync_registry.py, sync.py).                                             *)
THEOREM ScheduleTypeCorrect == Spec => []TypeOK
<1>1. Inv => TypeOK
  BY DEF Inv
<1> QED BY <1>1, AlwaysInv, PTL

(* One source failing is its own failure only (sync_all.py:                 *)
(* sync_ready_sources).                                                     *)
THEOREM FailuresStayOwn == Spec => []FailureStaysOwn
<1>1. Inv => FailureStaysOwn
  <2> SUFFICES ASSUME Inv, NEW t \in Threads, pc[t] = "next", NEW k \in asked[t] \ todo[t]
               PROVE  results[t][k] = IF k \in failed[t] THEN "error" ELSE "ok"
    BY DEF FailureStaysOwn, Inv, AllTold
  <2>1. cur[t] = NoKind /\ k # NoKind
    BY KindsAssumption DEF Inv, TypeOK, Typed, Placed
  <2> QED BY <2>1 DEF Inv, AllTold, Told
<1> QED BY <1>1, AlwaysInv, PTL

(* What was started and not stopped is scheduled (scheduler.py).            *)
THEOREM StaysScheduled == Spec => []StartedIsScheduled
<1>1. Inv => TypeOK
  BY DEF Inv
<1> QED BY <1>1, InvInit, ScheduledKept, AlwaysInv, PTL DEF Spec
=============================================================================
