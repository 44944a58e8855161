---------------------- MODULE RuntimeReconciler_proofs ----------------------
(***************************************************************************)
(* Proof that an "applied" status is earned: AppliedIsConfirmed for any    *)
(* callers, revisions and bounds.                                          *)
(***************************************************************************)
EXTENDS RuntimeReconciler, TLAPS

-----------------------------------------------------------------------------
\* What enqueue, the waiters and the requests to the controller do to types.
LEMMA EnqueueType ==
    ASSUME ReconcilerTypeOK, Enqueue
    PROVE  /\ requested' \in 1..MaxBacklog /\ target' \in 0..MaxBacklog
           /\ pc' \in {pc, "load"}
           /\ wake' \in {"none", "armed", "called"}
           /\ snapshot' = snapshot /\ latest' = latest
BY ReconcilerAssumption DEF ReconcilerTypeOK, Enqueue

\* Settling or joining a flight leaves a flight.
LEMMA FlightType ==
    ASSUME flight \in Flight \cup {None}
    PROVE  /\ \A n : \A status \in {"applied", "pending"} :
                  Settle(status, n) => flight' \in Flight \cup {None}
           /\ \A status \in {"applied", "pending"} :
                  flight # None => [flight EXCEPT !.status = status] \in Flight
           /\ \A c \in Caller :
                  flight # None => [flight EXCEPT !.callers = @ \cup {c}] \in Flight
BY DEF Flight, Settle

\* Sending a request and giving up on it.
LEMMA CallType ==
    /\ \A rev \in Revision : [rev |-> rev, late |-> FALSE] \in Call
    /\ \A call \in Call : GiveUp(call) \in Call
BY Zenon DEF Call, GiveUp

\* A new worker continuation after a failed await.
LEMMA FailType ==
    ASSUME ReconcilerTypeOK, Fail
    PROVE  /\ pc' \in {"retry", "exited"} /\ wake' \in {"none", "armed", "called"}
           /\ flight' \in Flight \cup {None}
           /\ target' = target /\ snapshot' = snapshot /\ latest' = latest
           /\ requested' = requested
BY FlightType DEF Fail, ReconcilerTypeOK

\* Type correctness, one step of the reconciler at a time.
LEMMA ReconcilerTypeStep == ReconcilerTypeOK /\ [Next]_vars => ReconcilerTypeOK'
<1> SUFFICES ASSUME ReconcilerTypeOK, [Next]_vars PROVE ReconcilerTypeOK'
  OBVIOUS
<1> USE ReconcilerAssumption
    DEF ReconcilerTypeOK, worker, clients, controller, answers, lifecycle
<1>f. Fault => faults' \in 0..MaxFaults
  BY DEF Fault
<1>1. ASSUME NEW c \in Caller, Reconcile(c) PROVE ReconcilerTypeOK'
  <2>1. CASE stopped
    BY <1>1, <2>1 DEF Reconcile
  <2>2. CASE ~stopped
    <3>1. Enqueue /\ requested' \in 1..MaxBacklog
      BY <1>1, <2>2, EnqueueType DEF Reconcile
    <3>2. flight' \in Flight \cup {None}
      <4>1. [target |-> requested', status |-> "open", callers |-> {c}] \in Flight
        BY <3>1 DEF Flight
      <4> QED BY Zenon, <1>1, <2>2, <4>1, FlightType DEF Reconcile
    <3> QED BY <1>1, <2>2, <3>1, <3>2, EnqueueType DEF Reconcile
  <2> QED BY <2>1, <2>2
<1>2. ASSUME NEW c \in Caller, NEW rev \in Revision, Save(c, rev) PROVE ReconcilerTypeOK'
  BY <1>2 DEF Save
<1>3. CASE FlightTimeout
  BY <1>3, FlightType DEF FlightTimeout
<1>4. CASE FlightFinally
  BY <1>4 DEF FlightFinally, Flight
<1>5. CASE Resume
  BY <1>5 DEF Resume, LoopTop
<1>6. CASE LoadReads \/ LatestReads
  BY <1>6 DEF LoadReads, LatestReads
<1>7. CASE LoadReturns
  <2>1. CASE stopped
    BY <1>7, <2>1 DEF LoadReturns, Exit
  <2>2. CASE ~stopped
    BY <1>7, <2>2, CallType DEF LoadReturns
  <2> QED BY <2>1, <2>2
<1>8. CASE LoadFails
  BY <1>8, <1>f, FailType DEF LoadFails
<1>9. CASE ApplyReturns
  <2>1. CASE stopped \/ reply = "ok"
    BY <1>9, <2>1 DEF ApplyReturns, Exit
  <2>2. CASE ~stopped /\ reply # "ok"
    BY <1>9, <2>2, FailType DEF ApplyReturns
  <2> QED BY <2>1, <2>2
<1>10. CASE ApplyTimesOut
  <2>1. /\ arriving' \subseteq Call
        /\ newest' \in Call \cup {None} /\ holder' \in Call \cup {None}
    BY <1>10, CallType DEF ApplyTimesOut
  <2> QED BY <1>10, <2>1, <1>f, FailType DEF ApplyTimesOut
<1>11. CASE LatestReturns
  <2>1. CASE stopped
    BY <1>11, <2>1 DEF LatestReturns, Exit
  <2>2. CASE ~stopped /\ (target # requested \/ latest # snapshot)
    BY <1>11, <2>2 DEF LatestReturns, LoopTop
  <2>3. CASE ~stopped /\ target = requested /\ latest = snapshot
    <3>1. requested' = 0
      BY <1>11, <2>3 DEF LatestReturns
    <3> QED BY <1>11, <2>3, <3>1, FlightType DEF LatestReturns, LoopTop
  <2> QED BY <2>1, <2>2, <2>3
<1>12. CASE Start
  BY <1>12, EnqueueType DEF Start, Enqueue
<1>13. CASE DriftReads
  BY <1>13 DEF DriftReads, DriftRead
<1>14. CASE DriftFound
  BY <1>14, EnqueueType DEF DriftFound, Enqueue
<1>15. CASE DriftNone
  BY <1>15, <1>f DEF DriftNone, Drifted
<1>16. CASE Stop
  <2>1. flight' \in Flight \cup {None}
    BY <1>16, FlightType DEF Stop
  <2>2. timer' \in BOOLEAN /\ stopped' \in BOOLEAN
    BY Zenon, <1>16 DEF Stop
  <2>3. wake' \in {"none", "armed", "called"}
    BY <1>16 DEF Stop
  <2>4. UNCHANGED <<clients, requested, worker, drift, answers, controller, faults>>
    BY <1>16 DEF Stop
  <2> QED BY <2>1, <2>2, <2>3, <2>4
<1>17. ASSUME NEW call \in arriving, Number(call) PROVE ReconcilerTypeOK'
  BY <1>17 DEF Number, Answer
<1>18. CASE Acquire
  BY <1>18 DEF Acquire
<1>19. CASE ApplySucceeds
  BY <1>19 DEF ApplySucceeds, Answer, Call
<1>20. CASE ApplyFails
  BY <1>20, <1>f DEF ApplyFails, Answer
<1>21. CASE RestartController
  BY <1>21, <1>f DEF RestartController
<1>22. CASE UNCHANGED vars
  BY <1>22 DEF vars
<1> QED BY Zenon, <1>1, <1>2, <1>3, <1>4, <1>5, <1>6, <1>7, <1>8, <1>9, <1>10, <1>11, <1>12, <1>13,
           <1>14, <1>15, <1>16, <1>17, <1>18, <1>19, <1>20, <1>21, <1>22 DEF Next, WorkerStep

\* The reconciler, its callers and the controller keep their types.
THEOREM ReconcilerTypeCorrect == Spec => []ReconcilerTypeOK
<1>1. Init => ReconcilerTypeOK
  <2>1. 0 \in 0..MaxBacklog /\ 0 \in 0..MaxFaults
    BY ReconcilerAssumption
  <2> QED BY Zenon, <2>1 DEF Init, ReconcilerTypeOK
<1> QED BY <1>1, ReconcilerTypeStep, PTL DEF Spec

-----------------------------------------------------------------------------
\* The worker holds a snapshot.
Holding == pc \in {"loaded", "apply", "check", "checked"}

\* Caller c shares the flight in progress.
Aboard(c) == flight # None /\ flight.status = "open" /\ c \in flight.callers

\* A snapshot whose target is still the newest request was read after every
\* caller aboard had saved; past the apply it is the confirmed one.
EarnedInv ==
    /\ \A c \in Caller : state[c] # "editing" => desired \in since[c]
    /\ flight # None => \A c \in flight.callers : state[c] # "editing"
    /\ Holding \/ pc = "load" => target <= requested
    /\ Holding /\ target = requested => \A c \in Caller : Aboard(c) => snapshot \in since[c]
    /\ pc \in {"check", "checked"} => confirmed = snapshot

\* One step keeps it.  A new request moves `requested` past the target, and a
\* caller aboard has saved, so a later read of the database finds its change.
LEMMA EarnedStep == ReconcilerTypeOK /\ EarnedInv /\ [Next]_vars => EarnedInv'
<1> SUFFICES ASSUME ReconcilerTypeOK, EarnedInv, [Next]_vars PROVE EarnedInv'
  OBVIOUS
<1> USE DEF EarnedInv, Holding, Aboard, worker, clients, answers
<1>t. /\ requested \in Nat /\ target \in Nat
      /\ flight # None => flight \in Flight /\ flight.callers \subseteq Caller
      /\ state \in [Caller -> {"editing", "saved", "waiting", "applied", "pending"}]
  BY ReconcilerAssumption DEF ReconcilerTypeOK, Flight
<1>s. \A status, n : Settle(status, n) =>
          /\ \A c : Aboard(c)' => Aboard(c)
          /\ flight' # None => flight # None /\ flight'.callers = flight.callers
  BY <1>t DEF Settle, Flight
<1>e. Enqueue => /\ requested' = requested + 1 /\ snapshot' = snapshot
                 /\ \/ pc' = pc /\ target' = target
                    \/ pc' = "load" /\ target' = requested'
  BY DEF Enqueue
<1>1. ASSUME NEW c \in Caller, Reconcile(c) PROVE EarnedInv'
  <2>1. \A x \in Caller : state'[x] = "editing" => state[x] = "editing"
    BY <1>1, <1>t DEF Reconcile
  <2>2. state'[c] # "editing" /\ \A x \in Caller \ {c} : state'[x] = state[x]
    BY <1>1, <1>t DEF Reconcile
  <2>3. CASE stopped
    BY <1>1, <1>t, <2>2, <2>3 DEF Reconcile
  <2>4. CASE ~stopped
    <3>1. /\ \A x : Aboard(x)' => x = c \/ Aboard(x)
          /\ \A x \in flight'.callers : x = c \/ (flight # None /\ x \in flight.callers)
      BY <1>1, <1>t, <2>4 DEF Reconcile, Flight
    <3>2. state[c] # "editing"
      BY <1>1 DEF Reconcile
    <3>3. desired' = desired /\ since' = since /\ confirmed' = confirmed
      BY <1>1 DEF Reconcile
    <3>4. /\ requested' = requested + 1 /\ snapshot' = snapshot
          /\ \/ pc' = pc /\ target' = target
             \/ pc' = "load" /\ target' = requested'
      BY <1>1, <1>e, <2>4 DEF Reconcile
    <3> QED BY <1>t, <2>2, <3>1, <3>2, <3>3, <3>4
  <2> QED BY <2>3, <2>4
<1>2. ASSUME NEW c \in Caller, NEW rev \in Revision, Save(c, rev) PROVE EarnedInv'
  <2>1. \A x \in Caller : state'[x] # "editing" => rev \in since'[x]
    BY <1>2, <1>t DEF Save
  <2>2. \A x \in Caller : state[x] # "editing" => state'[x] # "editing" /\ since[x] \subseteq since'[x]
    BY <1>2, <1>t DEF Save
  <2> QED BY <1>2, <2>1, <2>2 DEF Save
<1>3. CASE FlightTimeout
  BY <1>3, <1>t DEF FlightTimeout, Flight
<1>4. CASE FlightFinally
  BY <1>4, <1>t DEF FlightFinally, Flight
<1>5. CASE Resume
  BY <1>5, <1>t DEF Resume, LoopTop
<1>6. CASE LoadReads \/ LatestReads
  BY <1>6 DEF LoadReads, LatestReads
<1>7. CASE LoadReturns
  BY <1>7 DEF LoadReturns, Exit
<1>8. CASE LoadFails
  BY <1>8, <1>s DEF LoadFails, Fail
<1>9. CASE ApplyReturns
  BY <1>9, <1>s DEF ApplyReturns, Exit, Fail
<1>10. CASE ApplyTimesOut
  BY <1>10, <1>s DEF ApplyTimesOut, Fail
<1>11. CASE LatestReturns
  <2>1. CASE stopped
    BY <1>11, <2>1 DEF LatestReturns, Exit
  <2>2. CASE ~stopped
    <3>1. /\ \A c : Aboard(c)' => Aboard(c)
          /\ flight' # None => flight # None /\ flight'.callers = flight.callers
      BY <1>11, <1>s, <2>2 DEF LatestReturns
    <3>2. pc' = "parked" \/ (pc' = "load" /\ target' = requested')
      BY <1>11, <2>2 DEF LatestReturns, LoopTop
    <3>3. requested' \in Nat
      BY <1>11, <1>t, <2>2 DEF LatestReturns
    <3> QED BY <1>11, <3>1, <3>2, <3>3 DEF LatestReturns
  <2> QED BY <2>1, <2>2
<1>12. CASE Start \/ DriftFound
  BY <1>12, <1>e, <1>t DEF Start, DriftFound
<1>13. CASE DriftReads \/ DriftNone
  BY <1>13 DEF DriftReads, DriftNone
<1>14. CASE Stop
  BY <1>14, <1>s DEF Stop
<1>15. CASE \/ \E call \in arriving : Number(call)
            \/ Acquire \/ ApplySucceeds \/ ApplyFails \/ RestartController
  BY <1>15 DEF Number, Acquire, ApplySucceeds, ApplyFails, RestartController
<1>16. CASE UNCHANGED vars
  BY <1>16 DEF vars
<1> HIDE DEF EarnedInv
<1> QED BY <1>1, <1>2, <1>3, <1>4, <1>5, <1>6, <1>7, <1>8, <1>9, <1>10, <1>11, <1>12, <1>13,
           <1>14, <1>15, <1>16 DEF Next, WorkerStep

\* Callers told "applied" have their change confirmed (runWorker's two checks,
\* resolveWaiters and the shared flight of reconcile).
THEOREM AppliedIsEarned == Spec => AppliedIsConfirmed
<1>1. Init => EarnedInv
  BY DEF Init, EarnedInv, Holding, Aboard
<1>2. ReconcilerTypeOK /\ EarnedInv /\ [Next]_vars =>
          [flight # None /\ flight' # None /\ flight.status = "open" /\ flight'.status = "applied" =>
              \A c \in flight.callers : confirmed \in since[c]]_vars
  <2> SUFFICES ASSUME ReconcilerTypeOK, EarnedInv, Next,
                      flight # None, flight' # None, flight.status = "open", flight'.status = "applied",
                      NEW c \in flight.callers
               PROVE  confirmed \in since[c]
    OBVIOUS
  <2>1. c \in Caller /\ flight \in Flight /\ requested \in Nat /\ target \in Nat
    BY ReconcilerAssumption DEF ReconcilerTypeOK, Flight
  <2>2. \A n : Settle("pending", n) => flight'.status # "applied"
    BY <2>1 DEF Settle, Flight
  <2>3. LatestReturns
    <3>1. ~FlightTimeout /\ ~Stop /\ ~(\E x \in Caller : Reconcile(x))
      BY <2>1, <2>2 DEF FlightTimeout, Stop, Reconcile, Flight
    <3>2. ~LoadFails /\ ~ApplyTimesOut /\ ~ApplyReturns
      BY <2>2 DEF LoadFails, ApplyTimesOut, ApplyReturns, Fail, Exit
    <3>3. flight' # flight
      OBVIOUS
    <3> QED BY <3>1, <3>2, <3>3
            DEF Next, WorkerStep, Save, FlightFinally, Resume, LoadReads, LoadReturns, LatestReads, Exit,
                Start, DriftReads, DriftFound, DriftNone, Number, Acquire, ApplySucceeds, ApplyFails,
                RestartController
  <2>4. pc = "checked" /\ target = requested
    BY <2>3 DEF LatestReturns, Exit
  <2> QED BY <2>1, <2>4 DEF EarnedInv, Holding, Aboard
<1> QED BY <1>1, <1>2, EarnedStep, ReconcilerTypeCorrect, PTL DEF Spec, AppliedIsConfirmed
=============================================================================
