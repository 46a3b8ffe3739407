---------------------------- MODULE SyncSchedule ----------------------------
(***************************************************************************)
(* Who syncs which source and when: the scheduler's thread                 *)
(* (services/scheduler.py), started and stopped by the application's       *)
(* lifespan (main.py), and the requests that sync one source or all of     *)
(* them (api/sync.py, api/grimoire.py), each in a session of its own.      *)
(* They meet at the registry of handlers and at its lock per kind          *)
(* (services/sync_registry.py).  What a handler does is in the modules of  *)
(* the syncs; here it ends well or in an exception.  The kinds of one call *)
(* are reached in any order, of which the registry's is one.               *)
(***************************************************************************)
CONSTANTS
  Kinds,       \* the source kinds the connectors register
  Fickle,      \* those whose readiness check changes its answer, or raises
  Replaced,    \* those that are unregistered and registered again
  Requests,    \* the threads that answer requests
  Nobody,      \* the holder of a free lock
  NoKind,      \* "between two kinds"
  Restarts     \* whether a stopped scheduler may be started again: the class
               \* provides for it, the lifespan builds a new one each time

Threads == {"scheduler"} \cup Requests

ASSUME KindsAssumption ==
  Fickle \subseteq Kinds /\ Replaced \subseteq Kinds /\ NoKind \notin Kinds
ASSUME ThreadsAssumption ==
  "scheduler" \notin Requests /\ Nobody \notin Threads /\ Restarts \in BOOLEAN

VARIABLES
  main,      \* the thread that runs the lifespan
  stopping,  \* SyncScheduler._stopping, the event
  handlers,  \* the kinds that have a handler and a readiness check
  ready,     \* what the readiness check of a kind answers
  lock,      \* the thread that holds the kind's lock
  pc,        \* where a thread stands
  todo,      \* the kinds its call has still to reach
  cur,       \* the kind it is syncing
  left,      \* the kinds whose failed work is still in its session
  results,   \* what it will report of each kind
  \* History.
  asked,     \* the kinds its call set out to sync
  failed,    \* the kinds that failed in its call on their own account
  stray,     \* some commit took with it what another kind had left behind
  raised,    \* the scheduler's last tick ended in an exception
  wanted,    \* the last call of start or stop was start
  outlived   \* and it found a thread that had been told to stop

lifeVars == <<main, stopping, wanted, outlived>>
registry == <<handlers, ready>>
callVars == <<todo, cur, left, results, asked, failed>>
vars == <<lifeVars, registry, lock, pc, callVars, stray, raised>>

Points   == {"off", "idle", "asleep", "next", "locking", "handling", "failing"}
Answers  == {"yes", "no", "raises"}
Outcomes == {"none", "ok", "error"}
Unasked  == [k \in Kinds |-> "none"]

(* Where a thread is when it runs no sync.                                 *)
Rest(t)   == IF t = "scheduler" THEN "asleep" ELSE "idle"
IsRunning == pc["scheduler"] # "off"

InMemory ==
  /\ main = "down" /\ stopping = FALSE /\ wanted = FALSE /\ outlived = FALSE
  /\ handlers = Kinds
  /\ lock = [k \in Kinds |-> Nobody]
  /\ pc = [t \in Threads |-> IF t = "scheduler" THEN "off" ELSE "idle"]
  /\ todo = [t \in Threads |-> {}] /\ cur = [t \in Threads |-> NoKind]
  /\ left = [t \in Threads |-> {}] /\ results = [t \in Threads |-> Unasked]
  /\ asked = [t \in Threads |-> {}] /\ failed = [t \in Threads |-> {}]
  /\ raised = FALSE

Init ==
  /\ InMemory
  /\ stray = FALSE
  /\ ready \in [Kinds -> Answers] /\ \A k \in Kinds \ Fickle : ready[k] = "yes"
-----------------------------------------------------------------------------
(* The lifespan and the scheduler's start and stop.                        *)

MayStart == main = "down" \/ (Restarts /\ main \in {"up", "stopped"})

(* start, when no thread is alive: the event is cleared, a thread begins.  *)
StartThread ==
  /\ MayStart /\ ~IsRunning
  /\ main' = "up" /\ wanted' = TRUE /\ outlived' = FALSE
  /\ stopping' = FALSE
  /\ pc' = [pc EXCEPT !["scheduler"] = "asleep"]
  /\ UNCHANGED <<registry, lock, callVars, stray, raised>>

(* start returns at once when a thread is alive, though it may be one that  *)
(* stop has told to end and has given up waiting for.                       *)
AlreadyRunning ==
  /\ MayStart /\ IsRunning
  /\ main' = "up" /\ wanted' = TRUE /\ outlived' = stopping
  /\ UNCHANGED <<stopping, registry, lock, pc, callVars, stray, raised>>

(* SYNC_INTERVAL_MINUTES is 0: there is no scheduler to start.             *)
StartUnscheduled ==
  /\ main = "down"
  /\ main' = "up"
  /\ UNCHANGED <<stopping, wanted, outlived, registry, lock, pc, callVars, stray, raised>>

Stop ==
  /\ main = "up"
  /\ stopping' = TRUE /\ wanted' = FALSE /\ outlived' = FALSE
  /\ main' = "joining"
  /\ UNCHANGED <<registry, lock, pc, callVars, stray, raised>>

(* The join ends with the thread, or after its timeout.                    *)
Joined ==
  /\ main = "joining"
  /\ main' = "stopped"
  /\ UNCHANGED <<stopping, wanted, outlived, registry, lock, pc, callVars, stray, raised>>

(* The process ends, between any two steps of its threads, and is started   *)
(* again: nothing in memory is left.                                       *)
Exit ==
  /\ main # "down"
  /\ main' = "down" /\ stopping' = FALSE /\ wanted' = FALSE /\ outlived' = FALSE
  /\ handlers' = Kinds
  /\ lock' = [k \in Kinds |-> Nobody]
  /\ pc' = [t \in Threads |-> IF t = "scheduler" THEN "off" ELSE "idle"]
  /\ todo' = [t \in Threads |-> {}] /\ cur' = [t \in Threads |-> NoKind]
  /\ left' = [t \in Threads |-> {}] /\ results' = [t \in Threads |-> Unasked]
  /\ asked' = [t \in Threads |-> {}] /\ failed' = [t \in Threads |-> {}]
  /\ raised' = FALSE
  /\ UNCHANGED <<ready, stray>>

(* _loop finds the event set when its wait ends.                           *)
LoopEnds ==
  /\ pc["scheduler"] = "asleep" /\ stopping
  /\ pc' = [pc EXCEPT !["scheduler"] = "off"]
  /\ UNCHANGED <<lifeVars, registry, lock, callVars, stray, raised>>
-----------------------------------------------------------------------------
(* The registry.                                                           *)

ReadyKinds == {k \in handlers : ready[k] = "yes"}

Unregister(k) ==
  /\ k \in Replaced \cap handlers
  /\ handlers' = handlers \ {k}
  /\ UNCHANGED <<lifeVars, ready, lock, pc, callVars, stray, raised>>

(* A new handler comes with a new lock.                                    *)
MutantRegisterRelocks(k) ==
  /\ k \in Replaced \ handlers
  /\ handlers' = handlers \cup {k}
  /\ lock' = [lock EXCEPT ![k] = Nobody]
  /\ UNCHANGED <<lifeVars, ready, pc, callVars, stray, raised>>

(* register_sync_handler keeps the lock the kind has.                      *)
Register(k) ==
  /\ k \in Replaced \ handlers
  /\ handlers' = handlers \cup {k}
  /\ UNCHANGED <<lifeVars, ready, lock, pc, callVars, stray, raised>>

(* The owner connects or disconnects Graph, or the token cannot be read.   *)
ReadinessChanges(k) ==
  /\ k \in Fickle
  /\ \E a \in Answers \ {ready[k]} : ready' = [ready EXCEPT ![k] = a]
  /\ UNCHANGED <<lifeVars, handlers, lock, pc, callVars, stray, raised>>
-----------------------------------------------------------------------------
(* A call: sync_ready_sources, or sync of one kind.                        *)

Begin(t, kinds) ==
  /\ pc[t] = Rest(t)
  /\ pc' = [pc EXCEPT ![t] = "next"]
  /\ todo' = [todo EXCEPT ![t] = kinds]
  /\ asked' = [asked EXCEPT ![t] = kinds]
  /\ UNCHANGED <<lifeVars, registry, lock, cur, left, results, failed, stray, raised>>

(* _loop's wait timed out: run_scheduled_sync.                             *)
Tick == ~stopping /\ Begin("scheduler", ReadyKinds)

(* POST /api/sync/all and POST /api/grimoire/sync.                         *)
SyncAll(t) == main = "up" /\ Begin(t, ReadyKinds)

(* POST /api/sync, whose kind need not be ready nor registered.            *)
SyncOne(t, k) == main = "up" /\ Begin(t, {k})

Record(t, k, outcome) == results' = [results EXCEPT ![t] = [@ EXCEPT ![k] = outcome]]

(* sync looks the kind up and waits for its lock.                          *)
Take(t, k) ==
  /\ pc[t] = "next" /\ k \in todo[t] \cap handlers
  /\ todo' = [todo EXCEPT ![t] = @ \ {k}]
  /\ cur' = [cur EXCEPT ![t] = k]
  /\ pc' = [pc EXCEPT ![t] = "locking"]
  /\ UNCHANGED <<lifeVars, registry, lock, left, results, asked, failed, stray, raised>>

(* UnknownSourceKindError, as a SyncError.                                 *)
Unknown(t, k) ==
  /\ pc[t] = "next" /\ k \in todo[t] \ handlers
  /\ todo' = [todo EXCEPT ![t] = @ \ {k}]
  /\ cur' = [cur EXCEPT ![t] = k]
  /\ failed' = [failed EXCEPT ![t] = @ \cup {k}]
  /\ pc' = [pc EXCEPT ![t] = "failing"]
  /\ UNCHANGED <<lifeVars, registry, lock, left, results, asked, stray, raised>>

Acquire(t) ==
  /\ pc[t] = "locking"
  /\ lock[cur[t]] = Nobody
  /\ lock' = [lock EXCEPT ![cur[t]] = t]
  /\ pc' = [pc EXCEPT ![t] = "handling"]
  /\ UNCHANGED <<lifeVars, registry, callVars, stray, raised>>

Release(t) == lock' = [lock EXCEPT ![cur[t]] = Nobody]

(* The handler commits what the session holds and returns its envelope.    *)
Succeed(t) ==
  /\ pc[t] = "handling"
  /\ Release(t)
  /\ Record(t, cur[t], "ok")
  /\ stray' = (stray \/ left[t] # {})
  /\ left' = [left EXCEPT ![t] = {}]
  /\ cur' = [cur EXCEPT ![t] = NoKind]
  /\ pc' = [pc EXCEPT ![t] = "next"]
  /\ UNCHANGED <<lifeVars, registry, todo, asked, failed, raised>>

(* The handler raises and may leave work in the session; on a session that  *)
(* another kind's failure has made unusable it raises for that alone.       *)
HandlerRaises(t) ==
  /\ pc[t] = "handling"
  /\ Release(t)
  /\ \/ failed' = [failed EXCEPT ![t] = @ \cup {cur[t]}]
     \/ left[t] # {} /\ UNCHANGED failed
  /\ \E work \in SUBSET {cur[t]} : left' = [left EXCEPT ![t] = @ \cup work]
  /\ pc' = [pc EXCEPT ![t] = "failing"]
  /\ UNCHANGED <<lifeVars, registry, todo, cur, results, asked, stray, raised>>

(* The session goes to the next kind as the failed one left it; an error    *)
(* ends the whole call.                                                    *)
MutantNoRollback(t) ==
  /\ pc[t] = "failing"
  /\ Record(t, cur[t], "error")
  /\ cur' = [cur EXCEPT ![t] = NoKind]
  /\ pc' = [pc EXCEPT ![t] = "next"]
  /\ UNCHANGED <<lifeVars, registry, lock, todo, left, asked, failed, stray, raised>>
MutantFailureEndsCall(t) ==
  /\ pc[t] = "failing"
  /\ left' = [left EXCEPT ![t] = {}]
  /\ Record(t, cur[t], "error")
  /\ cur' = [cur EXCEPT ![t] = NoKind]
  /\ todo' = [todo EXCEPT ![t] = {}]
  /\ pc' = [pc EXCEPT ![t] = "next"]
  /\ UNCHANGED <<lifeVars, registry, lock, asked, failed, stray, raised>>

(* Either except clause of sync_ready_sources.                             *)
Rollback(t) ==
  /\ pc[t] = "failing"
  /\ left' = [left EXCEPT ![t] = {}]
  /\ Record(t, cur[t], "error")
  /\ cur' = [cur EXCEPT ![t] = NoKind]
  /\ pc' = [pc EXCEPT ![t] = "next"]
  /\ UNCHANGED <<lifeVars, registry, lock, todo, asked, failed, stray, raised>>

EndCall(t, ended) ==
  /\ todo' = [todo EXCEPT ![t] = {}] /\ asked' = [asked EXCEPT ![t] = {}]
  /\ cur' = [cur EXCEPT ![t] = NoKind] /\ left' = [left EXCEPT ![t] = {}]
  /\ results' = [results EXCEPT ![t] = Unasked]
  /\ failed' = [failed EXCEPT ![t] = {}]
  /\ raised' = IF t = "scheduler" THEN ended ELSE raised
  /\ UNCHANGED <<lifeVars, registry, lock, stray>>

(* The results are logged or answered and the session is closed.           *)
Return(t) ==
  /\ pc[t] = "next" /\ todo[t] = {}
  /\ pc' = [pc EXCEPT ![t] = Rest(t)]
  /\ EndCall(t, FALSE)

(* _loop without its try.                                                  *)
MutantRaiseEndsLoop(t) ==
  /\ pc[t] \in {"next", "failing"}
  /\ pc' = [pc EXCEPT ![t] = IF t = "scheduler" THEN "off" ELSE "idle"]
  /\ EndCall(t, TRUE)

(* Anything the call does not catch - a rollback that fails, a registry     *)
(* that changes while it is read - ends it; _loop logs it and waits on.     *)
Raise(t) ==
  /\ pc[t] \in {"next", "failing"}
  /\ pc' = [pc EXCEPT ![t] = Rest(t)]
  /\ EndCall(t, TRUE)

Step(t) ==
  \/ \E k \in Kinds : Take(t, k) \/ Unknown(t, k)
  \/ Acquire(t) \/ Succeed(t) \/ HandlerRaises(t) \/ Rollback(t) \/ Return(t)

Next ==
  \/ StartThread \/ AlreadyRunning \/ StartUnscheduled \/ Stop \/ Joined \/ Exit
  \/ Tick \/ LoopEnds
  \/ \E t \in Requests : SyncAll(t) \/ \E k \in Kinds : SyncOne(t, k)
  \/ \E t \in Threads : Step(t) \/ Raise(t)
  \/ \E k \in Kinds : Unregister(k) \/ Register(k) \/ ReadinessChanges(k)

Spec == Init /\ [][Next]_vars

(* A thread that is in a call goes on, every request a handler makes has a   *)
(* timeout, and the scheduler's wait ends; no request need ever arrive, and  *)
(* a lock is not handed out in any order.                                  *)
FairSpec ==
  /\ Spec
  /\ WF_vars(Tick) /\ WF_vars(LoopEnds)
  /\ \A t \in Threads : WF_vars(Step(t))
-----------------------------------------------------------------------------
(* The lock of a kind is held by exactly the thread that is in the kind's   *)
(* handler (sync.py: sync, "never sync one source at the same time"), across *)
(* a registration too, and what a call keeps is gone when it ends.          *)
Typed ==
  /\ main \in {"down", "up", "joining", "stopped"}
  /\ stopping \in BOOLEAN /\ wanted \in BOOLEAN /\ outlived \in BOOLEAN
  /\ stray \in BOOLEAN /\ raised \in BOOLEAN
  /\ handlers \subseteq Kinds /\ ready \in [Kinds -> Answers]
  /\ lock \in [Kinds -> Threads \cup {Nobody}]
  /\ pc \in [Threads -> Points]
  /\ todo \in [Threads -> SUBSET Kinds] /\ asked \in [Threads -> SUBSET Kinds]
  /\ left \in [Threads -> SUBSET Kinds] /\ failed \in [Threads -> SUBSET Kinds]
  /\ cur \in [Threads -> Kinds \cup {NoKind}]
  /\ results \in [Threads -> [Kinds -> Outcomes]]
Locked == \A t \in Threads, k \in Kinds : lock[k] = t <=> pc[t] = "handling" /\ cur[t] = k
Placed ==
  \A t \in Threads :
    /\ cur[t] # NoKind <=> pc[t] \in {"locking", "handling", "failing"}
    /\ pc[t] \in {"off", "idle", "asleep"} =>
         todo[t] = {} /\ asked[t] = {} /\ left[t] = {} /\ failed[t] = {} /\ results[t] = Unasked
    /\ pc[t] = "asleep" => t = "scheduler"
TypeOK == Typed /\ Locked /\ Placed

(* One source failing is that source's failure only: every kind a call set  *)
(* out to sync has its result when the call has passed it, an error if and   *)
(* only if that kind failed on its own account, and no kind's commit takes   *)
(* with it what another one left behind (sync_all.py: "One source failing    *)
(* must not stop the rest", "a failing kind rolls back").                   *)
FailureStaysOwn ==
  /\ ~stray
  /\ \A t \in Threads : pc[t] = "next" =>
       \A k \in asked[t] \ todo[t] :
         results[t][k] = IF k \in failed[t] THEN "error" ELSE "ok"

(* Once started and until stopped the schedule has a thread that will go     *)
(* on, whatever its ticks raise - unless start met the thread of a stop that *)
(* had given up waiting: then that thread ends and there is no schedule      *)
(* (scheduler.py: start, stop, _loop; the lifespan of main.py builds a new   *)
(* scheduler each time and starts it once, so only another caller meets it). *)
StartedIsScheduled == wanted /\ ~outlived => IsRunning /\ ~stopping

(* A kind that stays ready is synced by the scheduler again and again,       *)
(* whichever other kinds fail, as long as it is not stopped, its ticks do    *)
(* not keep raising, and requests do not keep coming for ever (a lock may    *)
(* go to them each time).                                                  *)
EveryKindSyncedAgain ==
  \A k \in Kinds :
    \/ []<>(pc["scheduler"] = "handling" /\ cur["scheduler"] = k)
    \/ []<>(k \notin ReadyKinds)
    \/ []<>(~wanted \/ outlived)
    \/ []<>raised
    \/ []<>(\E t \in Requests : pc[t] # "idle")
=============================================================================
