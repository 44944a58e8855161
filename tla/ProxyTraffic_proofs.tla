------------------------- MODULE ProxyTraffic_proofs -------------------------
(***************************************************************************)
(* Proofs about ProxyApply's traffic side: what Caddy serves, what the     *)
(* controller reports, and what is committed.                              *)
(***************************************************************************)
EXTENDS ProxyApply_proofs

\* Steps of the lock holder at which a reported Caddy serves the active revision.
SettledSteps ==
    {"idle", "ensure", "prepare", "fence", "snapshot", "authority", "load"} \cup InitialiseSteps

Settled == pc \in SettledSteps \/ (pc \in RollbackSteps /\ op.then = "idle")

\* Loads that may still be carried out exist only before a restart, a report
\* needs an initialised runtime, and a reported Caddy serves what is active, or
\* past a confirmed probe what is being activated.
TrafficInv ==
    /\ late # None => pc = "restart"
    /\ available => initialized
    /\ initialized => up
    /\ pc \in InitialiseSteps => ~initialized
    /\ pc \notin InitialiseSteps \cup {"idle"} \/ activeCfg # None => initialized
    /\ Settled /\ available /\ serving # Down => serving.cfg = activeCfg
    /\ pc \in {"commit", "finish", "publish"} /\ serving # Down => serving.cfg = op.cfg

\* It holds before the first start.
LEMMA TrafficInit == Init => TrafficInv
BY DEF Init, TrafficInv, InitialiseSteps

\* Requests, recovery, Caddy's own steps and the life of the process keep it.
LEMMA TrafficEnvironment ==
    ASSUME TypeOK, Protocol, TrafficInv,
           \/ \E c \in Config : RequestApply(c)
           \/ \E w \in waiting : LockTimeout(w) \/ AcquireApply(w)
           \/ \E m \in Material : AcquireStaged(m) \/ CommitUnused(m)
           \/ Recover \/ ReadinessLost \/ CaddyDies \/ LateLoad
           \/ BeginShutdown \/ AbortRecovery \/ Crash \/ PowerLoss \/ Boot
    PROVE  TrafficInv'
<1> USE DEF TrafficInv, Settled, SettledSteps, InitialiseSteps, RollbackSteps
<1>1. CASE \/ \E c \in Config : RequestApply(c)
           \/ \E w \in waiting : LockTimeout(w)
           \/ \E m \in Material : CommitUnused(m)
           \/ BeginShutdown
  BY <1>1 DEF RequestApply, LockTimeout, CommitUnused, BeginShutdown, lock, memory, caddy, process
<1>2. ASSUME NEW w \in waiting, AcquireApply(w) PROVE TrafficInv'
  BY Zenon, <1>2 DEF AcquireApply, process, lock, memory, caddy
<1>5. ASSUME NEW m \in Material, AcquireStaged(m) PROVE TrafficInv'
  BY Zenon, <1>5, ConstantsAssumption DEF AcquireStaged, process, memory, caddy
<1>6. CASE Recover
  BY <1>6 DEF Recover, process, memory, caddy
<1>7. CASE Boot
  BY <1>7 DEF Boot, Protocol, DownMeansIdle, memory, caddy
<1>3. CASE ReadinessLost \/ CaddyDies \/ LateLoad
  BY <1>3 DEF ReadinessLost, CaddyDies, LateLoad, StopCaddy, lock, memory, caddy, process
<1>4. CASE Crash \/ PowerLoss
  BY <1>4 DEF Crash, PowerLoss, Forget, Release, StopCaddy
<1>8. CASE AbortRecovery
  <2>1. activeCfg = activeJson.cfg
    BY DEF TypeOK
  <2> QED BY <1>8, <2>1 DEF AbortRecovery, Release, Restart, StopCaddy, process, memory, caddy
<1> QED BY <1>1, <1>2, <1>3, <1>4, <1>5, <1>6, <1>7, <1>8

\* Every step of the lock holder keeps it.
LEMMA TrafficHolder ==
    ASSUME TypeOK, Protocol, TrafficInv, HolderStep
    PROVE  TrafficInv'
<1> USE DEF TrafficInv, Settled, SettledSteps, InitialiseSteps, RollbackSteps, TrafficSteps,
            Goto, Release, RollbackIfFenced, FilesIfFenced, SameOperation
<1>o. /\ op \in Operation /\ op.then \in {"idle", "rbFence", "reload"}
      /\ activeCfg = activeJson.cfg
  BY DEF TypeOK, Operation
<1>u. pc # "idle" => up
  BY DEF Protocol, DownMeansIdle
<1>t. /\ pc \notin TrafficSteps \cup RollbackSteps => op.then = "idle"
      /\ pc \in TrafficSteps => op.then # "reload"
      /\ pc \in RollbackSteps => op.then # "rbFence"
  BY DEF Protocol, AbortOrder
<1>n. NoOp.then = "idle"
  BY <1>o, ControlFields
<1>1. CASE InitializeRestore
  BY <1>1, <1>o DEF InitializeRestore, process, memory, caddy
<1>2. CASE StartRestored
  BY <1>2, <1>o, <1>u DEF StartRestored, StartOk, StopCaddy, Initialized, AfterInitialize, process, memory
<1>3. CASE StartBaseline
  BY <1>3, <1>o, <1>u, BaselineType
     DEF StartBaseline, Restart, StopCaddy, Initialized, AfterInitialize, process, memory
<1>4. CASE EnsureRunning
  BY <1>4, <1>o DEF EnsureRunning, Restart, StopCaddy, process, caddy
<1>5. CASE Prepare
  BY <1>5, <1>o DEF Prepare, process, memory, caddy
<1>6. CASE Fence \/ PersistSnapshot \/ PersistAuthority
  BY <1>6, <1>t DEF Fence, PersistSnapshot, PersistAuthority, process, memory, caddy
<1>7. CASE Load
  BY <1>7, <1>o, <1>t, ControlFields
     DEF Load, LoadOk, LoadRejected, LoadUnknown, process, memory, caddy
<1>8. CASE Probe
  BY <1>8, <1>o, ControlFields DEF Probe, ProbeOk, process, memory, caddy
<1>9. CASE Commit
  BY <1>9, <1>o, ControlFields DEF Commit, process, memory, caddy
<1>10. CASE Finish
  BY <1>10, <1>o, ControlFields DEF Finish, process, memory, caddy
<1>11. CASE Publish
  BY <1>11, <1>u DEF Publish, process, caddy
<1>12. CASE RollbackFence \/ RollbackSnapshot \/ RollbackAuthority \/ RollbackFinish
  BY <1>12, <1>o, <1>t, <1>n, ControlFields
     DEF RollbackFence, RollbackSnapshot, RollbackAuthority, RollbackFinish, process, memory, caddy
<1>13. CASE Reload
  BY <1>13, <1>o DEF Reload, LoadOk, LoadRejected, LoadUnknown, process, memory, caddy
<1>14. CASE Reprobe
  BY <1>14, <1>o, <1>t, <1>n, ControlFields DEF Reprobe, ProbeOk, process, memory, caddy
<1>15. CASE RestartVerified
  BY <1>15, <1>o, <1>t, <1>n, ControlFields DEF RestartVerified, Restart, StopCaddy, process
<1> QED BY Zenon, <1>1, <1>2, <1>3, <1>4, <1>5, <1>6, <1>7, <1>8, <1>9, <1>10, <1>11, <1>12, <1>13,
           <1>14, <1>15 DEF HolderStep

\* One step keeps the traffic invariant, given the recovery invariant.
LEMMA TrafficStep == RecoveryInv /\ TrafficInv /\ [Next]_vars => TrafficInv'
<1> SUFFICES ASSUME RecoveryInv, TrafficInv, [Next]_vars PROVE TrafficInv'
  OBVIOUS
<1>1. TypeOK /\ Protocol
  BY DEF RecoveryInv, Protocol
<1>2. CASE Next
  BY <1>1, <1>2, TrafficEnvironment, TrafficHolder DEF Next
<1>3. CASE UNCHANGED vars
  BY <1>3, StutterUnchanged DEF TrafficInv, Settled
<1> QED BY <1>2, <1>3

\* TrafficInv is an invariant of the apply protocol: a late load exists only
\* before the forced restart, and a reported Caddy serves the active revision
\* except while an activation is in flight.
THEOREM TrafficInvariant == Spec => []TrafficInv
BY TrafficInit, TrafficStep, RecoveryInvariant, PTL DEF Spec

\* Between operations the reported revision is the served one, and no load is
\* left that could change it (restore_verified_locked, ensure_running_locked).
THEOREM TrafficSafe == Spec => []TrafficMatchesReport
<1>1. TrafficInv => TrafficMatchesReport
  BY DEF TrafficInv, TrafficMatchesReport, Settled, SettledSteps
<1> QED BY <1>1, TrafficInvariant, PTL

\* finish_configuration_activation commits only what Caddy confirmed.
THEOREM CommitSafe == Spec => CommittedWasConfirmed
<1>1. TrafficInv /\ [Next]_vars =>
          [committed' # committed => serving = Down \/ serving.cfg = committed']_vars
  <2> SUFFICES ASSUME TrafficInv, Next, committed' # committed
               PROVE  serving = Down \/ serving.cfg = committed'
    OBVIOUS
  <2>1. Finish
    BY Zenon DEF Next, HolderStep, RequestApply, LockTimeout, AcquireApply, AcquireStaged, CommitUnused,
           Recover, ReadinessLost, CaddyDies, LateLoad, BeginShutdown, AbortRecovery, Crash, PowerLoss, Boot, Forget,
           InitializeRestore, StartRestored, StartBaseline, EnsureRunning, Prepare, Fence,
           PersistSnapshot, PersistAuthority, Load, Probe, Commit, Publish, RollbackFence,
           RollbackSnapshot, RollbackAuthority, RollbackFinish, Reload, Reprobe, RestartVerified,
           history
  <2> QED BY <2>1 DEF Finish, TrafficInv
<1> QED BY <1>1, TrafficInvariant, PTL DEF Spec, CommittedWasConfirmed

-----------------------------------------------------------------------------
\* Requests: nothing outruns apply_sequence, and the operation under the lock
\* is at least as new as what was published.
QueueInv ==
    /\ published <= applySeq
    /\ \A w \in waiting : w.seq <= applySeq
    /\ op.seq <= applySeq
    /\ op.seq # 0 => published <= op.seq

\* What the holder of the lock may do to its sequence: keep it or drop it.
LEMMA HolderSequence ==
    ASSUME op \in Operation, HolderStep
    PROVE  op'.seq \in {0, op.seq} /\ applySeq' = applySeq /\ waiting' = waiting
<1> USE DEF queue
<1>c. /\ NoOp.seq = 0 /\ NoOp \in Operation
      /\ Release => op'.seq = 0
      /\ Continue => op'.seq \in {0, op.seq}
      /\ RollbackIfFenced => op'.seq \in {0, op.seq}
      /\ \A x : Goto(x) => op'.seq = op.seq
      /\ \A x, y : Abort(x, y) => op'.seq = op.seq
  BY NoOpType DEF NoOp, Release, Continue, RollbackIfFenced, Goto, Abort, Operation
<1>1. CASE InitializeRestore
  <2>1. \A j : [op EXCEPT !.json = j].seq = op.seq
    BY DEF Operation
  <2> QED BY Zenon, <1>c, <1>1, <2>1 DEF InitializeRestore
<1>2. CASE StartRestored \/ StartBaseline \/ EnsureRunning
  BY <1>c, <1>2 DEF StartRestored, StartBaseline, EnsureRunning, AfterInitialize
<1>3. CASE Prepare
  <2>1. \A j, f : [op EXCEPT !.json = j, !.fenced = f].seq = op.seq
    BY DEF Operation
  <2>2. op'.seq \in {0, op.seq}
    <3>1. CASE Release
      BY <1>c, <3>1
    <3>2. CASE ~Release
      <4> DEFINE json == Render(op.cfg, IF op.staged = None THEN material ELSE op.staged)
      <4>1. PICK b \in BOOLEAN : op' = [op EXCEPT !.json = json, !.fenced = b]
        BY Zenon, <1>3, <3>2 DEF Prepare
      <4> QED BY <2>1, <4>1
    <3> QED BY <3>1, <3>2
  <2> QED BY <1>3, <2>2 DEF Prepare
<1>4. CASE Fence \/ PersistSnapshot \/ PersistAuthority \/ Load \/ Probe \/ Commit \/ Finish \/ Publish
  BY <1>c, <1>4 DEF Fence, PersistSnapshot, PersistAuthority, Load, Probe, Commit, Finish, Publish
<1>5. CASE \/ RollbackFence \/ RollbackSnapshot \/ RollbackAuthority \/ RollbackFinish
           \/ Reload \/ Reprobe \/ RestartVerified
  BY <1>c, <1>5 DEF RollbackFence, RollbackSnapshot, RollbackAuthority, RollbackFinish,
                    Reload, Reprobe, RestartVerified
<1> QED BY <1>1, <1>2, <1>3, <1>4, <1>5 DEF HolderStep

\* One step keeps the queue invariant.
LEMMA QueueStep == TypeOK /\ QueueInv /\ [Next]_vars => QueueInv'
<1> SUFFICES ASSUME TypeOK, QueueInv, [Next]_vars PROVE QueueInv'
  OBVIOUS
<1> USE ConstantsAssumption DEF QueueInv
<1>o. /\ op \in Operation /\ op.seq \in Nat /\ applySeq \in Nat /\ published \in Nat
      /\ \A w \in waiting : w.seq \in Nat
  BY DEF TypeOK, Operation, Request
<1>n. NoOp.seq = 0
  BY DEF NoOp
<1>1. ASSUME NEW c \in Config, RequestApply(c) PROVE QueueInv'
  BY <1>o, <1>1 DEF RequestApply, history, lock
<1>2. ASSUME NEW w \in waiting, LockTimeout(w) PROVE QueueInv'
  BY <1>2 DEF LockTimeout, history, lock
<1>3. ASSUME NEW w \in waiting, AcquireApply(w) PROVE QueueInv'
  <2>1. CASE Superseded(w.seq) \/ stopping
    BY <1>3, <2>1 DEF AcquireApply, history, lock
  <2>2. CASE ~(Superseded(w.seq) \/ stopping)
    <3>1. w.seq \in {0, applySeq}
      BY <2>2 DEF Superseded
    <3>2. op'.seq = w.seq
      BY Zenon, <1>3, <2>2 DEF AcquireApply, NoOp
    <3> QED BY <1>o, <1>3, <3>1, <3>2 DEF AcquireApply, history
  <2> QED BY <2>1, <2>2
<1>4. ASSUME NEW m \in Material, AcquireStaged(m) PROVE QueueInv'
  <2>1. op'.seq = 0
    BY <1>4 DEF AcquireStaged, NoOp
  <2> QED BY <1>o, <1>4, <2>1 DEF AcquireStaged, history, queue
<1>5. CASE Recover \/ Boot
  BY <1>o, <1>n, <1>5 DEF Recover, Boot, history, queue
<1>6. CASE Crash \/ PowerLoss
  BY <1>n, <1>6 DEF Crash, PowerLoss, Forget, Release
<1>10. CASE AbortRecovery
  BY <1>o, <1>n, <1>10 DEF AbortRecovery, Release, history, queue
<1>7. CASE (\E m \in Material : CommitUnused(m)) \/ ReadinessLost \/ CaddyDies \/ LateLoad \/ BeginShutdown
  BY <1>7 DEF CommitUnused, ReadinessLost, CaddyDies, LateLoad, BeginShutdown, history, queue, lock
<1>8. CASE HolderStep
  <2>1. published' = published \/ (Publish /\ op.seq # 0 /\ published' = op.seq)
    BY Zenon, <1>8 DEF HolderStep, InitializeRestore, StartRestored, StartBaseline, EnsureRunning, Prepare,
                Fence, PersistSnapshot, PersistAuthority, Load, Probe, Commit, Finish, Publish,
                RollbackFence, RollbackSnapshot, RollbackAuthority, RollbackFinish, Reload, Reprobe,
                RestartVerified, history
  <2>2. Publish => op'.seq = 0
    BY <1>n DEF Publish, Release
  <2> QED BY <1>o, <1>8, <2>1, <2>2, HolderSequence
<1>9. CASE UNCHANGED vars
  BY <1>9, StutterUnchanged
<1> QED BY <1>1, <1>2, <1>3, <1>4, <1>5, <1>6, <1>7, <1>8, <1>9, <1>10 DEF Next

\* Of two applies of one process the newer one is published last (apply_sequence).
THEOREM NewestWins == Spec => NewerNeverOverwritten
<1>1. Init => QueueInv
  BY DEF Init, QueueInv, NoOp
<1>2. TypeOK /\ QueueInv /\ [Next]_vars => [published' # 0 => published' >= published]_vars
  <2> SUFFICES ASSUME TypeOK, QueueInv, Next, published' # 0
               PROVE  published' >= published
    OBVIOUS
  <2>1. published \in Nat /\ op.seq \in Nat
    BY ConstantsAssumption DEF TypeOK, Operation
  <2>2. \/ published' = published \/ published' = 0
        \/ op.seq # 0 /\ published' = op.seq
    BY Zenon DEF Next, HolderStep, RequestApply, LockTimeout, AcquireApply, AcquireStaged, CommitUnused,
           Recover, ReadinessLost, CaddyDies, LateLoad, BeginShutdown, AbortRecovery, Crash, PowerLoss, Boot, Forget,
           InitializeRestore, StartRestored, StartBaseline, EnsureRunning, Prepare, Fence,
           PersistSnapshot, PersistAuthority, Load, Probe, Commit, Finish, Publish, RollbackFence,
           RollbackSnapshot, RollbackAuthority, RollbackFinish, Reload, Reprobe, RestartVerified,
           history
  <2> QED BY <2>1, <2>2 DEF QueueInv
<1> QED BY <1>1, <1>2, QueueStep, TypeCorrect, PTL DEF Spec, NewerNeverOverwritten

-----------------------------------------------------------------------------
\* A certificate replacement re-applies the active configuration with the
\* staged material, and past its load Caddy serves just that.
StagedInv ==
    /\ pc \in InitialiseSteps \cup {"fence", "snapshot", "authority"} => op.staged = None
    /\ op.staged # None /\ pc \in {"ensure", "prepare", "load", "probe", "commit"}
           => op.cfg = activeCfg
    /\ op.staged # None /\ pc \in {"load", "probe", "commit"}
           => op.json = Render(op.cfg, op.staged)
    /\ op.staged # None /\ pc \in {"probe", "commit"} => serving \in {Down, op.json}

\* Steps outside the lock keep it: an undone load is carried out later only
\* before a restart.
LEMMA StagedEnvironment ==
    ASSUME TypeOK, Protocol, TrafficInv, StagedInv,
           \/ \E c \in Config : RequestApply(c)
           \/ \E w \in waiting : LockTimeout(w) \/ AcquireApply(w)
           \/ \E m \in Material : AcquireStaged(m) \/ CommitUnused(m)
           \/ Recover \/ ReadinessLost \/ CaddyDies \/ LateLoad
           \/ BeginShutdown \/ AbortRecovery \/ Crash \/ PowerLoss \/ Boot
    PROVE  StagedInv'
<1> USE DEF StagedInv, InitialiseSteps
<1>n. NoOp.staged = None
  BY DEF NoOp
<1>1. CASE \/ \E c \in Config : RequestApply(c)
           \/ \E w \in waiting : LockTimeout(w)
           \/ \E m \in Material : CommitUnused(m)
           \/ BeginShutdown \/ ReadinessLost
  BY <1>1 DEF RequestApply, LockTimeout, CommitUnused, BeginShutdown, ReadinessLost, lock, memory, caddy
<1>2. CASE CaddyDies \/ LateLoad
  BY Zenon, <1>2 DEF CaddyDies, LateLoad, StopCaddy, TrafficInv, lock, memory
<1>3. ASSUME NEW w \in waiting, AcquireApply(w) PROVE StagedInv'
  <2>1. [NoOp EXCEPT !.cfg = w.cfg, !.seq = w.seq].staged = None
    BY DEF NoOp
  <2> QED BY Zenon, <1>3, <2>1 DEF AcquireApply, lock, memory, caddy
<1>4. ASSUME NEW m \in Material, AcquireStaged(m) PROVE StagedInv'
  <2>1. [NoOp EXCEPT !.cfg = activeCfg, !.staged = m].cfg = activeCfg
    BY DEF NoOp
  <2> QED BY Zenon, <1>4, <2>1 DEF AcquireStaged, memory, caddy
<1>5. CASE Recover \/ Boot \/ AbortRecovery \/ Crash \/ PowerLoss
  BY Zenon, <1>n, <1>5 DEF Recover, Boot, AbortRecovery, Crash, PowerLoss, Forget, Release
<1> QED BY <1>1, <1>2, <1>3, <1>4, <1>5

\* The lock holder keeps it, if Caddy's 200 means the load is in effect.
LEMMA StagedHolder ==
    ASSUME AckMeansLoaded = TRUE, TypeOK, Protocol, TrafficInv, StagedInv, HolderStep
    PROVE  StagedInv'
<1> USE DEF StagedInv, InitialiseSteps, Goto, Release, RollbackIfFenced, SameOperation
<1>o. /\ op \in Operation /\ op.then \in {"idle", "rbFence", "reload"}
      /\ NoOp.staged = None
  BY DEF TypeOK, Operation, NoOp
<1>p. op.staged # None => ~op.fenced
  BY DEF Protocol, OperationOK
<1>1. CASE InitializeRestore
  <2>1. \A j : [op EXCEPT !.json = j].staged = op.staged
    BY <1>o DEF Operation
  <2> QED BY Zenon, <1>1, <1>o, <2>1 DEF InitializeRestore, memory, caddy
<1>2. CASE StartRestored
  BY <1>2, <1>o DEF StartRestored, AfterInitialize
<1>3. CASE StartBaseline
  BY <1>3, <1>o DEF StartBaseline, AfterInitialize
<1>4. CASE EnsureRunning
  BY <1>4, <1>o DEF EnsureRunning
<1>5. CASE Prepare
  <2>1. CASE Release
    BY <1>o, <2>1
  <2>2. CASE ~Release
    <3> DEFINE json == Render(op.cfg, IF op.staged = None THEN material ELSE op.staged)
    <3>1. PICK b \in BOOLEAN :
             /\ op' = [op EXCEPT !.json = json, !.fenced = b]
             /\ pc' \in {"load", "fence", "snapshot"}
             /\ op.staged # None => pc' = "load"
      BY Zenon, <1>5, <2>2 DEF Prepare
    <3>2. op'.staged = op.staged /\ op'.cfg = op.cfg /\ op'.json = json
      BY <1>o, <3>1 DEF Operation
    <3> HIDE DEF json
    <3>3. op.staged # None => json = Render(op.cfg, op.staged)
      BY DEF json
    <3> QED BY <1>5, <3>1, <3>2, <3>3 DEF Prepare, memory, caddy
  <2> QED BY <2>1, <2>2
<1>6. CASE Fence \/ PersistSnapshot \/ PersistAuthority
  BY <1>6, <1>o DEF Fence, PersistSnapshot, PersistAuthority, memory, caddy
<1>7. CASE Load
  BY <1>7, <1>o, <1>p, ControlFields DEF Load, LoadOk, LoadRejected, FilesIfFenced, memory, caddy
<1>8. CASE Probe \/ Commit
  BY <1>8, <1>o, ControlFields DEF Probe, Commit, memory, caddy
<1>9. CASE Finish \/ Publish
  BY <1>9, <1>o, ControlFields DEF Finish, Publish, memory, caddy
<1>10. CASE RollbackFence \/ RollbackSnapshot \/ RollbackAuthority \/ RollbackFinish
  BY <1>10, <1>o, ControlFields
     DEF RollbackFence, RollbackSnapshot, RollbackAuthority, RollbackFinish
<1>11. CASE Reload \/ Reprobe \/ RestartVerified
  BY <1>11, <1>o, ControlFields DEF Reload, Reprobe, RestartVerified
<1> QED BY <1>1, <1>2, <1>3, <1>4, <1>5, <1>6, <1>7, <1>8, <1>9, <1>10, <1>11 DEF HolderStep

\* If Caddy's 200 means the load is in effect, apply_locked commits new material
\* only once a restart would recover the configuration using it and Caddy
\* serves it.
THEOREM CertificateSafe == AckMeansLoaded = TRUE /\ Spec => CertificateCommitIsBacked
<1> SUFFICES ASSUME AckMeansLoaded = TRUE PROVE Spec => CertificateCommitIsBacked
  OBVIOUS
<1>1. Init => StagedInv
  BY DEF Init, StagedInv, InitialiseSteps, NoOp
<1>2. RecoveryInv /\ TrafficInv /\ StagedInv /\ [Next]_vars => StagedInv'
  <2> SUFFICES ASSUME RecoveryInv, TrafficInv, StagedInv, [Next]_vars PROVE StagedInv'
    OBVIOUS
  <2>1. TypeOK /\ Protocol
    BY DEF RecoveryInv, Protocol
  <2>2. CASE Next
    BY <2>1, <2>2, StagedEnvironment, StagedHolder DEF Next
  <2>3. CASE UNCHANGED vars
    BY <2>3, StutterUnchanged DEF StagedInv
  <2> QED BY <2>2, <2>3
<1>3. RecoveryInv /\ StagedInv /\ [Next]_vars =>
          [material' # material /\ up' /\ activeCfg \in CertConfig =>
              /\ Recoverable(disk) = activeCfg
              /\ serving \in {Down, Render(activeCfg, material')}]_vars
  <2> SUFFICES ASSUME RecoveryInv, StagedInv, Next,
                      material' # material, up', activeCfg \in CertConfig
               PROVE  /\ Recoverable(disk) = activeCfg
                      /\ serving \in {Down, Render(activeCfg, material')}
    OBVIOUS
  <2>1. Commit
    BY Zenon DEF Next, HolderStep, RequestApply, LockTimeout, AcquireApply, AcquireStaged, CommitUnused,
           Recover, ReadinessLost, CaddyDies, LateLoad, BeginShutdown, AbortRecovery, Crash, PowerLoss, Boot, Forget,
           InitializeRestore, StartRestored, StartBaseline, EnsureRunning, Prepare, Fence,
           PersistSnapshot, PersistAuthority, Load, Probe, Finish, Publish, RollbackFence,
           RollbackSnapshot, RollbackAuthority, RollbackFinish, Reload, Reprobe, RestartVerified,
           certs
  <2>2. pc = "commit" /\ op.staged # None /\ ~op.fenced /\ material' = op.staged
    BY <2>1 DEF Commit, CommitStagedOk, CommitStagedErr, RecoveryInv, OperationOK
  <2> QED BY <2>2 DEF RecoveryInv, OperationOK, StagedInv
<1> QED BY <1>1, <1>2, <1>3, RecoveryInvariant, TrafficInvariant, PTL
        DEF Spec, CertificateCommitIsBacked
=============================================================================
