-------------------------- MODULE RuntimeReconciler --------------------------
(***************************************************************************)
(* The web service's reconciliation worker, createRuntimeReconciler in     *)
(* web/src/server/Foundation/runtime-reconciler.server.ts, as              *)
(* ProxyRuntime/proxy-reconcile.ts uses it: administrators commit changes  *)
(* to the desired configuration and ask for reconciliation, one worker     *)
(* loads a snapshot, has the controller apply it and loads again, and a    *)
(* drift check repairs what got lost.  The code is single-threaded: one    *)
(* action is what runs between two awaits.                                 *)
(*                                                                         *)
(* The controller is what the worker sees of ProxyApply: numbered requests *)
(* of which a newer one makes older ones fail unless they already hold the *)
(* lock, restarts, and requests that are carried out after their caller    *)
(* timed out.                                                              *)
(***************************************************************************)
EXTENDS Naturals

CONSTANTS Caller,      \* requests of administrators: one change and one reconcile() each
          Revision,    \* contents of the desired configuration; a revision is a hash of it
          None,        \* absent; also the revision of a controller with its closed baseline
          MaxBacklog,  \* bound: requests not yet reconciled
          MaxFaults    \* bound: failures, timeouts and restarts

ASSUME ReconcilerAssumption ==
    /\ None \notin Revision
    /\ MaxBacklog \in Nat \ {0} /\ MaxFaults \in Nat

VARIABLES
    desired,    \* the revision of the configuration in the database
    since,      \* history: the revisions desired since each caller's change
    state,      \* each caller: "editing", "saved", "waiting", "applied", "pending"
    requested,  \* requested - completed: requests counted from the last completed one
    pc, target, snapshot, latest,  \* the worker: next continuation, its locals
    wake,       \* wakeResolver: "none", "armed", or "called" and not yet resumed
    timer, stopped,  \* driftTimer is set; stop() was called
    flight,     \* publicFlight with its waiter
    drift,      \* checkDrift: the revision it has read first
    reply,      \* the controller's answer to the worker's request
    confirmed,  \* history: the revision of the last positive answer
    active, arriving, newest, holder,  \* the controller
    faults      \* failures, timeouts and restarts so far

worker     == <<pc, target, snapshot, latest>>
clients    == <<desired, since, state>>
controller == <<active, arriving, newest, holder>>
answers    == <<reply, confirmed>>
lifecycle  == <<timer, stopped>>
vars == <<clients, requested, worker, wake, lifecycle, flight, drift, answers, controller, faults>>

\* A request to apply a revision; late: the worker no longer waits for it.
Call == [rev : Revision, late : BOOLEAN]

Flight == [target : 1..MaxBacklog, status : {"open", "applied", "pending"},
           callers : SUBSET Caller]

DriftRead == [read : {"desired", "active"}, rev : Revision \cup {None}]

-----------------------------------------------------------------------------
\* resolveWaiters: settle the waiter; "applied" only up to the completed target.
Settle(status, completed) ==
    flight' = IF flight # None /\ flight.status = "open"
                   /\ ~(status = "applied" /\ flight.target > completed)
              THEN [flight EXCEPT !.status = status]
              ELSE flight

EnqueueWithoutWake ==
    /\ requested < MaxBacklog
    /\ requested' = requested + 1
    /\ IF pc = "none"
       THEN pc' = "load" /\ target' = requested' /\ wake' = wake
       ELSE UNCHANGED <<pc, target, wake>>
    /\ UNCHANGED <<snapshot, latest>>

\* enqueue: count the request, start the worker when there is none, wake it.
Enqueue ==
    /\ requested < MaxBacklog
    /\ requested' = requested + 1
    /\ IF pc = "none"
       THEN pc' = "load" /\ target' = requested' /\ wake' = wake
       ELSE /\ UNCHANGED <<pc, target>>
            /\ wake' = IF wake = "armed" THEN "called" ELSE wake
    /\ UNCHANGED <<snapshot, latest>>

LoopKeepsSnapshot(pending) ==
    IF stopped THEN pc' = "exited" /\ wake' = "none" /\ target' = target
    ELSE IF pending = 0 THEN pc' = "parked" /\ wake' = "armed" /\ target' = target
    ELSE pc' = "loaded" /\ wake' = "none" /\ target' = pending

\* The head of the worker's loop: leave, sleep until woken, or take the target.
LoopTop(pending) ==
    IF stopped THEN pc' = "exited" /\ wake' = "none" /\ target' = target
    ELSE IF pending = 0 THEN pc' = "parked" /\ wake' = "armed" /\ target' = target
    ELSE pc' = "load" /\ wake' = "none" /\ target' = pending

\* The catch block: report "pending" and wait for a wake-up or the retry delay.
Fail ==
    /\ IF stopped
       THEN pc' = "exited" /\ wake' = wake /\ flight' = flight
       ELSE pc' = "retry" /\ wake' = "armed" /\ Settle("pending", 0)
    /\ UNCHANGED <<target, snapshot, latest, requested>>

\* Something outside the code goes wrong.
Fault == faults < MaxFaults /\ faults' = faults + 1

Exit ==
    /\ pc' = "exited"
    /\ UNCHANGED <<target, snapshot, latest, requested, wake, flight>>

-----------------------------------------------------------------------------
Init ==
    /\ desired \in Revision
    /\ since = [c \in Caller |-> {}]
    /\ state = [c \in Caller |-> "editing"]
    /\ requested = 0 /\ pc = "none" /\ target = 0
    /\ snapshot = None /\ latest = None
    /\ wake = "none" /\ timer = FALSE /\ stopped = FALSE /\ flight = None /\ drift = None
    /\ reply = None /\ confirmed = None
    /\ active \in Revision \cup {None}
    /\ arriving = {} /\ newest = None /\ holder = None /\ faults = 0

\* A caller's transaction commits a change of the desired configuration, such as
\* updateProxyHostInTransaction; the other mutation services have the same shape.
Save(c, rev) ==
    /\ state[c] = "editing"
    /\ state' = [state EXCEPT ![c] = "saved"]
    /\ desired' = rev
    /\ since' = [x \in Caller |-> IF x = c THEN {rev}
                                  ELSE IF state[x] = "editing" THEN since[x]
                                  ELSE since[x] \cup {rev}]
    /\ UNCHANGED <<requested, worker, wake, lifecycle, flight, drift, answers, controller, faults>>

\* reconcile(): queue a request and join the flight in progress or open one.  A
\* flight that has settled but whose finally() has not run yet is still joined.
Reconcile(c) ==
    /\ state[c] = "saved"
    /\ IF stopped
       THEN /\ state' = [state EXCEPT ![c] = "pending"]
            /\ UNCHANGED <<requested, worker, wake, flight>>
       ELSE /\ Enqueue
            /\ state' = [state EXCEPT ![c] = "waiting"]
            /\ flight' = IF flight = None
                         THEN [target |-> requested', status |-> "open", callers |-> {c}]
                         ELSE [flight EXCEPT !.callers = @ \cup {c}]
    /\ UNCHANGED <<desired, since, lifecycle, drift, answers, controller, faults>>

TimeoutWhenIdle ==
    /\ flight # None /\ flight.status = "open" /\ pc = "parked"
    /\ flight' = [flight EXCEPT !.status = "pending"]
    /\ UNCHANGED <<clients, requested, worker, wake, lifecycle, drift, answers, controller, faults>>

\* The waiter's timer.
FlightTimeout ==
    /\ flight # None /\ flight.status = "open"
    /\ flight' = [flight EXCEPT !.status = "pending"]
    /\ UNCHANGED <<clients, requested, worker, wake, lifecycle, drift, answers, controller, faults>>

\* finally(): publicFlight is cleared and its callers get the status.
FlightFinally ==
    /\ flight # None /\ flight.status # "open"
    /\ state' = [c \in Caller |-> IF c \in flight.callers THEN flight.status ELSE state[c]]
    /\ flight' = None
    /\ UNCHANGED <<desired, since, requested, worker, wake, lifecycle, drift, answers, controller, faults>>

-----------------------------------------------------------------------------
\* The parked worker resumes once woken; a failed one also after the delay.
Resume ==
    /\ (pc = "parked" /\ wake = "called") \/ pc = "retry"
    /\ LoopTop(requested)
    /\ UNCHANGED <<clients, requested, snapshot, latest, lifecycle, flight, drift, answers, controller, faults>>

\* dependencies.load(): the database is read, the continuation runs later.
LoadReads ==
    /\ pc = "load"
    /\ pc' = "loaded" /\ snapshot' = desired
    /\ UNCHANGED <<clients, requested, target, latest, wake, lifecycle, flight, drift, answers, controller, faults>>

LoadIgnoresStop ==
    /\ pc = "loaded"
    /\ pc' = "apply" /\ reply' = "waiting"
    /\ arriving' = arriving \cup {[rev |-> snapshot, late |-> FALSE]}
    /\ UNCHANGED <<target, snapshot, latest, requested, wake, flight>>
    /\ UNCHANGED <<clients, lifecycle, drift, confirmed, active, newest, holder, faults>>

\* The snapshot is there: send it to the controller.
LoadReturns ==
    /\ pc = "loaded"
    /\ IF stopped
       THEN Exit /\ UNCHANGED <<reply, arriving>>
       ELSE /\ pc' = "apply" /\ reply' = "waiting"
            /\ arriving' = arriving \cup {[rev |-> snapshot, late |-> FALSE]}
            /\ UNCHANGED <<target, snapshot, latest, requested, wake, flight>>
    /\ UNCHANGED <<clients, lifecycle, drift, confirmed, active, newest, holder, faults>>

\* load() rejects, the first or the second time.
LoadFails ==
    /\ pc \in {"load", "check"}
    /\ Fault /\ Fail
    /\ UNCHANGED <<clients, lifecycle, drift, answers, controller>>

\* The controller answered: load again after a confirmed apply.
ApplyReturns ==
    /\ pc = "apply" /\ reply \in {"ok", "failed"}
    /\ reply' = None
    /\ confirmed' = IF reply = "ok" THEN snapshot ELSE confirmed
    /\ \/ stopped /\ Exit
       \/ /\ ~stopped /\ reply = "ok" /\ pc' = "check"
          /\ UNCHANGED <<target, snapshot, latest, requested, wake, flight>>
       \/ ~stopped /\ reply = "failed" /\ Fail
    /\ UNCHANGED <<clients, lifecycle, drift, controller, faults>>

\* The request timed out; the controller may still carry it out.
GiveUp(call) == [call EXCEPT !.late = TRUE]

ApplyTimesOut ==
    /\ pc = "apply" /\ reply = "waiting"
    /\ reply' = None
    /\ arriving' = {GiveUp(x) : x \in arriving}
    /\ newest' = IF newest = None THEN None ELSE GiveUp(newest)
    /\ holder' = IF holder = None THEN None ELSE GiveUp(holder)
    /\ Fault /\ Fail
    /\ UNCHANGED <<clients, lifecycle, drift, confirmed, active>>

LatestReads ==
    /\ pc = "check"
    /\ pc' = "checked" /\ latest' = desired
    /\ UNCHANGED <<clients, requested, target, snapshot, wake, lifecycle, flight, drift, answers, controller, faults>>

CheckRevisionOnly ==
    /\ pc = "checked"
    /\ IF stopped THEN Exit
       ELSE /\ IF latest # snapshot
               THEN LoopTop(requested) /\ UNCHANGED <<requested, flight>>
               ELSE /\ requested' = requested - target
                    /\ LoopTop(requested') /\ Settle("applied", target)
            /\ UNCHANGED <<snapshot, latest>>
    /\ UNCHANGED <<clients, lifecycle, drift, answers, controller, faults>>

\* Complete the target unless something was requested or changed meanwhile.
LatestReturns ==
    /\ pc = "checked"
    /\ IF stopped THEN Exit
       ELSE /\ IF target # requested \/ latest # snapshot
               THEN LoopTop(requested) /\ UNCHANGED <<requested, flight>>
               ELSE /\ requested' = requested - target
                    /\ LoopTop(requested') /\ Settle("applied", target)
            /\ UNCHANGED <<snapshot, latest>>
    /\ UNCHANGED <<clients, lifecycle, drift, answers, controller, faults>>

-----------------------------------------------------------------------------
\* start(): a first request, and the timer of the drift check.
Start ==
    /\ ~stopped /\ ~timer
    /\ timer' = TRUE
    /\ Enqueue
    /\ UNCHANGED <<clients, stopped, flight, drift, answers, controller, faults>>

\* checkDrift: the database and the controller are asked at the same time, and
\* either may be read first.
DriftReads ==
    /\ timer /\ drift = None
    /\ drift' \in {[read |-> "desired", rev |-> desired], [read |-> "active", rev |-> active]}
    /\ UNCHANGED <<clients, requested, worker, wake, lifecycle, flight, answers, controller, faults>>

\* compareProxyRuntimeStatus, when the other one is read.
Drifted == drift.rev # IF drift.read = "desired" THEN active ELSE desired

\* Another revision is active, or Caddy is not running: queue a request.
DriftFound ==
    /\ drift # None /\ ~stopped
    /\ drift' = None
    /\ Enqueue
    /\ UNCHANGED <<clients, lifecycle, flight, answers, controller, faults>>

\* The same revision, a failed read, or stopped meanwhile.
DriftNone ==
    /\ drift # None
    /\ drift' = None
    /\ Fault \/ ((stopped \/ ~Drifted) /\ faults' = faults)
    /\ UNCHANGED <<clients, requested, worker, wake, lifecycle, flight, answers, controller>>

\* stop(): no more work; the worker leaves at its next continuation.
Stop ==
    /\ ~stopped
    /\ stopped' = TRUE /\ timer' = FALSE
    /\ Settle("pending", 0)
    /\ wake' = IF wake = "armed" THEN "called" ELSE wake
    /\ UNCHANGED <<clients, requested, worker, drift, answers, controller, faults>>

-----------------------------------------------------------------------------
\* The controller (core/src/runtime/apply.rs, modelled by ProxyApply).
Answer(call, status) ==
    reply' = IF call # None /\ ~call.late THEN status ELSE reply

\* A request gets its sequence number; one still waiting for the lock is stale.
Number(call) ==
    /\ call \in arriving
    /\ arriving' = arriving \ {call}
    /\ newest' = call
    /\ Answer(newest, "failed")
    /\ UNCHANGED <<clients, requested, worker, wake, lifecycle, flight, drift, confirmed,
                   active, holder, faults>>

Acquire ==
    /\ newest # None /\ holder = None
    /\ holder' = newest /\ newest' = None
    /\ UNCHANGED <<clients, requested, worker, wake, lifecycle, flight, drift, answers,
                   active, arriving, faults>>

ApplySucceeds ==
    /\ holder # None
    /\ active' = holder.rev /\ holder' = None
    /\ Answer(holder, "ok")
    /\ UNCHANGED <<clients, requested, worker, wake, lifecycle, flight, drift, confirmed,
                   arriving, newest, faults>>

\* Refused, superseded, timed out on the lock or failed: nothing changes.
ApplyFails ==
    /\ Fault
    /\ \/ \E call \in arriving : /\ arriving' = arriving \ {call}
                                 /\ Answer(call, "failed") /\ UNCHANGED <<newest, holder>>
       \/ /\ newest # None /\ newest' = None
          /\ Answer(newest, "failed") /\ UNCHANGED <<arriving, holder>>
       \/ /\ holder # None /\ holder' = None
          /\ Answer(holder, "failed") /\ UNCHANGED <<arriving, newest>>
    /\ UNCHANGED <<clients, requested, worker, wake, lifecycle, flight, drift, confirmed, active>>

\* The controller restarts and recovers its configuration or the baseline.
RestartController ==
    /\ Fault
    /\ active' \in {active, None}
    /\ arriving' = {} /\ newest' = None /\ holder' = None
    /\ reply' = IF reply = "waiting" THEN "failed" ELSE reply
    /\ UNCHANGED <<clients, requested, worker, wake, lifecycle, flight, drift, confirmed>>

-----------------------------------------------------------------------------
WorkerStep == Resume \/ LoadReads \/ LoadReturns \/ LoadFails \/ ApplyReturns \/ ApplyTimesOut
                \/ LatestReads \/ LatestReturns

Next ==
    \/ \E c \in Caller : Reconcile(c) \/ \E rev \in Revision : Save(c, rev)
    \/ FlightTimeout \/ FlightFinally \/ WorkerStep
    \/ Start \/ DriftReads \/ DriftFound \/ DriftNone \/ Stop
    \/ \E call \in arriving : Number(call)
    \/ Acquire \/ ApplySucceeds \/ ApplyFails \/ RestartController

Spec == Init /\ [][Next]_vars

\* Timers fire and settled promises run their continuations, whatever the
\* database and the controller do.
AnswerSpec == Spec /\ WF_vars(FlightTimeout) /\ WF_vars(FlightFinally)

\* The event loop runs every continuation, intervals fire, every call to the
\* database and the controller ends, and the faults stop.
Fairness ==
    /\ WF_vars(Start)
    /\ WF_vars(Resume) /\ WF_vars(LoadReads) /\ WF_vars(LoadReturns)
    /\ WF_vars(ApplyReturns) /\ WF_vars(LatestReads) /\ WF_vars(LatestReturns)
    /\ WF_vars(DriftReads) /\ WF_vars(DriftNone) /\ WF_vars(DriftFound /\ Drifted)
    /\ WF_vars(\E call \in arriving : Number(call))
    /\ WF_vars(Acquire) /\ WF_vars(ApplySucceeds)

LiveSpec == Spec /\ Fairness

-----------------------------------------------------------------------------
\* The types of the reconciler's variables, the callers and the controller.
ReconcilerTypeOK ==
    /\ desired \in Revision
    /\ since \in [Caller -> SUBSET Revision]
    /\ state \in [Caller -> {"editing", "saved", "waiting", "applied", "pending"}]
    /\ requested \in 0..MaxBacklog /\ target \in 0..MaxBacklog
    /\ pc \in {"none", "parked", "load", "loaded", "apply", "check", "checked", "retry", "exited"}
    /\ snapshot \in Revision \cup {None} /\ latest \in Revision \cup {None}
    /\ pc \in {"loaded", "apply", "check", "checked"} => snapshot # None
    /\ wake \in {"none", "armed", "called"}
    /\ timer \in BOOLEAN /\ stopped \in BOOLEAN
    /\ flight \in Flight \cup {None}
    /\ drift \in DriftRead \cup {None}
    /\ reply \in {None, "waiting", "ok", "failed"}
    /\ confirmed \in Revision \cup {None} /\ active \in Revision \cup {None}
    /\ arriving \subseteq Call
    /\ newest \in Call \cup {None} /\ holder \in Call \cup {None}
    /\ faults \in 0..MaxFaults

\* Whoever shares a flight when it settles as applied has the change confirmed:
\* the controller confirmed a revision that was desired after that change was
\* committed, although callers share the first one's waiter and a snapshot may
\* be older than the request it completes (runWorker, resolveWaiters).
AppliedIsConfirmed ==
    [][flight # None /\ flight' # None /\ flight.status = "open" /\ flight'.status = "applied" =>
          \A c \in flight.callers : confirmed \in since[c]]_vars

\* Once stop() was called the worker sends nothing to the controller, whatever
\* it was waiting for (the stopped checks after every await of runWorker).
NoApplyAfterStop ==
    [][stopped /\ pc # "apply" => pc' # "apply"]_vars

\* A caller gets a status even if the database and the controller never answer
\* (the waiter's timer and the finally of reconcile).
CallersAnswered ==
    \A c \in Caller : state[c] = "waiting" ~> state[c] \in {"applied", "pending"}

\* Once the changes stop, the controller ends up with the desired configuration
\* and keeps it: no wake-up is lost, and requests carried out late or lost by a
\* restart are repaired by the drift check (runWorker, enqueue, checkDrift).
Converges == <>[](stopped \/ active = desired)
=============================================================================
