------------------------ MODULE ProxyApplyTypes_proofs ------------------------
(***************************************************************************)
(* Every action of ProxyApply preserves its type invariant.  The types are *)
(* not inductive alone: they need what an operation holds at each step.    *)
(***************************************************************************)
EXTENDS ProxyApply, TLAPS

\* The operation in progress: an activation has a configuration; without a
\* fence, and after the commit, that configuration is what disk recovers.
OperationOK ==
    /\ pc \in ActivateSteps => op.cfg \in Config
    /\ pc \in {"fence", "finish"} => op.fenced
    /\ op.fenced => op.staged = None
    /\ pc = "commit" => op.staged # None
    /\ pc \in ActivateSteps \ {"prepare"} => op.json.cfg = op.cfg
    /\ pc \in {"snapshot", "authority", "load", "probe", "commit"} /\ ~op.fenced
           => Recoverable(disk) = op.cfg
    /\ pc = "publish" => Recoverable(disk) = op.cfg
    /\ pc = "startRestored" => op.json.cfg \in {None, Recoverable(disk)}

-----------------------------------------------------------------------------
\* Rendering yields a rendered configuration, of the revision it was given.
LEMMA RenderType ==
    ASSUME NEW c \in Config \cup {None}, NEW m \in Material \cup {None}
    PROVE  Render(c, m) \in Json /\ Render(c, m).cfg = c
BY ConstantsAssumption DEF Render, Json

\* The closed baseline is rendered and has no revision.
LEMMA BaselineType == Baseline \in Json /\ Baseline.cfg = None
BY RenderType DEF Baseline

\* The empty operation is an operation.
LEMMA NoOpType == NoOp \in Operation
BY BaselineType, ConstantsAssumption DEF NoOp, Operation

\* The storage operations keep every file typed and its visible contents among
\* those that may survive.
FilesOK ==
    /\ disk \in [File -> Value \cup {None}]
    /\ stable \in [File -> SUBSET (Value \cup {None})]
    /\ \A f \in File : disk[f] \in stable[f] /\ stable[f] \subseteq FileValue(f)

\* A completed atomic_write keeps the files typed.
LEMMA WriteOkType ==
    ASSUME FilesOK, NEW f \in File, NEW v \in FileValue(f), AtomicWriteOk(f, v)
    PROVE  FilesOK'
BY DEF FilesOK, AtomicWriteOk, Sync, FileValue, Value, File

\* So does a failed one, whether or not the rename happened.
LEMMA WriteErrType ==
    ASSUME FilesOK, NEW f \in File, NEW v \in FileValue(f), AtomicWriteErr(f, v)
    PROVE  FilesOK'
BY DEF FilesOK, AtomicWriteErr, Untouched, FileValue, Value, File

\* So does a power loss.
LEMMA PowerLossType ==
    ASSUME FilesOK, LosePower
    PROVE  FilesOK'
BY DEF FilesOK, LosePower, Surviving, Sync

\* What an operation may do to the lock keeps it typed.
LEMMA ControlType ==
    ASSUME pc \in Step, op \in Operation
    PROVE  /\ Release => pc' \in Step /\ op' \in Operation
           /\ Continue => pc' \in Step /\ op' \in Operation
           /\ RollbackIfFenced => pc' \in Step /\ op' \in Operation
           /\ \A x \in Step : Goto(x) => pc' \in Step /\ op' \in Operation
           /\ \A x \in Step, y \in {"idle", "rbFence", "reload"} :
                  Abort(x, y) => pc' \in Step /\ op' \in Operation
<1>1. Release => pc' \in Step /\ op' \in Operation
  BY NoOpType DEF Release, Step
<1>2. \A x \in Step : Goto(x) => pc' \in Step /\ op' \in Operation
  BY DEF Goto
<1>3. \A x \in Step, y \in {"idle", "rbFence", "reload"} :
          Abort(x, y) => pc' \in Step /\ op' \in Operation
  BY DEF Abort, Operation
<1>4. Continue => pc' \in Step /\ op' \in Operation
  BY <1>1 DEF Continue, Operation, Step, RollbackSteps, TrafficSteps
<1>5. RollbackIfFenced => pc' \in Step /\ op' \in Operation
  BY <1>1, <1>2 DEF RollbackIfFenced, Step, RollbackSteps
<1> QED BY <1>1, <1>2, <1>3, <1>4, <1>5

-----------------------------------------------------------------------------
\* Type correctness.
LEMMA TypeInit == Init => TypeOK
<1> SUFFICES ASSUME Init PROVE TypeOK
  OBVIOUS
<1>1. FilesOK
  BY DEF Init, FilesOK, FileValue, File, Value
<1>2. pc \in Step /\ op \in Operation
  BY NoOpType DEF Init, Step
<1>3. activeJson \in Json /\ activeCfg = activeJson.cfg
  BY BaselineType DEF Init
<1>4. 0 \in 0..MaxSeq
  BY ConstantsAssumption
<1>5. material \in index /\ index \subseteq Material
  BY DEF Init
<1> QED BY Zenon, <1>1, <1>2, <1>3, <1>4, <1>5 DEF Init, TypeOK, FilesOK

\* Requests, recovery, Caddy's own steps and the life of the process.
LEMMA TypeEnvironment ==
    ASSUME TypeOK,
           \/ \E c \in Config : RequestApply(c)
           \/ \E w \in waiting : LockTimeout(w) \/ AcquireApply(w)
           \/ \E m \in Material : AcquireStaged(m) \/ CommitUnused(m)
           \/ Recover \/ ReadinessLost \/ CaddyDies \/ LateLoad
           \/ BeginShutdown \/ AbortRecovery \/ Crash \/ PowerLoss \/ Boot
    PROVE  TypeOK'
<1> USE ConstantsAssumption DEF TypeOK
<1>1. ASSUME NEW c \in Config, RequestApply(c) PROVE TypeOK'
  BY <1>1 DEF RequestApply, Request, files, certs, history, process, lock, memory, caddy
<1>2. ASSUME NEW w \in waiting, LockTimeout(w) PROVE TypeOK'
  BY <1>2 DEF LockTimeout, files, certs, history, process, lock, memory, caddy
<1>3. ASSUME NEW w \in waiting, AcquireApply(w) PROVE TypeOK'
  <2>1. w \in Request
    OBVIOUS
  <2>2. [NoOp EXCEPT !.cfg = w.cfg, !.seq = w.seq] \in Operation
    <3>1. w.cfg \in Config \cup {None} /\ w.seq \in 0..MaxSeq
      BY <2>1 DEF Request
    <3> QED BY Zenon, <3>1, NoOpType DEF Operation
  <2>3. pc' \in Step /\ op' \in Operation
    BY Zenon, <1>3, <2>2 DEF AcquireApply, Step, InitialiseSteps, lock
  <2> QED BY Zenon, <1>3, <2>3 DEF AcquireApply, files, certs, history, process, memory, caddy
<1>4. ASSUME NEW m \in Material, AcquireStaged(m) PROVE TypeOK'
  <2>1. pc' \in Step /\ op' \in Operation
    BY Zenon, <1>4, NoOpType DEF AcquireStaged, Operation, Step
  <2> QED BY Zenon, <1>4, <2>1 DEF AcquireStaged, files, certs, history, process, queue, memory, caddy
<1>5. ASSUME NEW m \in Material, CommitUnused(m) PROVE TypeOK'
  BY <1>5 DEF CommitUnused, CommitStagedOk, CommitStagedErr,
              files, history, process, queue, lock, memory, caddy
<1>6. ASSUME Recover PROVE TypeOK'
  BY <1>6, NoOpType DEF Recover, Step, InitialiseSteps,
                        files, certs, history, process, queue, memory, caddy
<1>7. ASSUME ReadinessLost PROVE TypeOK'
  BY Zenon, <1>7 DEF ReadinessLost, files, certs, history, process, queue, lock, caddy
<1>8. ASSUME CaddyDies PROVE TypeOK'
  BY <1>8 DEF CaddyDies, StopCaddy, files, certs, history, process, queue, lock, memory
<1>9. ASSUME LateLoad PROVE TypeOK'
  BY <1>9 DEF LateLoad, files, certs, history, process, queue, lock, memory
<1>10. ASSUME BeginShutdown PROVE TypeOK'
  BY <1>10 DEF BeginShutdown, files, certs, history, queue, lock, memory, caddy
<1>11. ASSUME Forget, FilesOK' PROVE TypeOK'
  <2>1. pc' \in Step /\ op' \in Operation
    BY <1>11, NoOpType DEF Forget, Release, Step
  <2>2. (activeJson \in Json /\ activeCfg = activeJson.cfg)'
    BY <1>11, BaselineType DEF Forget
  <2>3. (material \in index /\ index \subseteq Material)'
    BY <1>11 DEF Forget
  <2>4. 0 \in 0..MaxSeq
    OBVIOUS
  <2> QED BY Zenon, <1>11, <2>1, <2>2, <2>3, <2>4 DEF Forget, StopCaddy, FilesOK
<1>12. ASSUME Crash PROVE TypeOK'
  BY <1>11, <1>12 DEF Crash, FilesOK, files
<1>13. ASSUME PowerLoss PROVE TypeOK'
  BY <1>11, <1>13, PowerLossType DEF PowerLoss, FilesOK
<1>14. ASSUME Boot PROVE TypeOK'
  BY <1>14, NoOpType DEF Boot, Step, InitialiseSteps,
                         files, certs, history, queue, memory, caddy
<1>15. ASSUME AbortRecovery PROVE TypeOK'
  <2>1. op.json \in Json
    BY DEF Operation
  <2>2. pc' \in Step /\ op' \in Operation
    BY <1>15, NoOpType DEF AbortRecovery, Release, Step
  <2>3. (serving \in Json \cup {Down} /\ late \in Json \cup {None})'
    BY <1>15, <2>1, BaselineType DEF AbortRecovery, Restart, StopCaddy, caddy
  <2> QED BY Zenon, <1>15, <2>2, <2>3 DEF AbortRecovery, files, certs, history, process, queue, memory
<1> QED BY Zenon, <1>1, <1>2, <1>3, <1>4, <1>5, <1>6, <1>7, <1>8, <1>9, <1>10, <1>12, <1>13, <1>14, <1>15

\* The steps of the lock holder.
LEMMA TypeHolder ==
    ASSUME TypeOK, OperationOK, HolderStep
    PROVE  TypeOK'
<1> USE ConstantsAssumption DEF TypeOK
<1>f. FilesOK
  BY DEF FilesOK
<1>c. activeCfg \in Config \cup {None}
  BY DEF Json
<1>o. op.json \in Json /\ op.cfg \in Config \cup {None} /\ op.staged \in Material \cup {None}
  BY DEF Operation
<1>s. {"idle", "ensure", "startRestored", "startBaseline"} \cup ActivateSteps
        \cup RollbackSteps \cup TrafficSteps \subseteq Step
  BY DEF Step, InitialiseSteps
<1>1. ASSUME InitializeRestore PROVE TypeOK'
  <2>1. Recoverable(disk) \in Config \cup {None}
    BY DEF Recoverable, File, FileValue
  <2>2. \A c \in {None, Recoverable(disk)} :
            [op EXCEPT !.json = Render(c, material)] \in Operation
    BY <2>1, RenderType DEF Operation
  <2>3. pc' \in Step /\ op' \in Operation
    BY <1>1, <1>s, <2>2, ControlType DEF InitializeRestore
  <2> QED BY <1>1, <2>3 DEF InitializeRestore, files, certs, history, process, queue, memory, caddy
<1>2. ASSUME StartRestored PROVE TypeOK'
  <2>1. pc' \in Step /\ op' \in Operation
    BY <1>2, <1>s, ControlType DEF StartRestored, AfterInitialize
  <2>2. (serving \in Json \cup {Down} /\ late \in Json \cup {None})'
    BY <1>2, <1>o DEF StartRestored, StartOk, StopCaddy
  <2>3. (/\ initialized \in BOOLEAN /\ available \in BOOLEAN
         /\ activeJson \in Json /\ activeCfg = activeJson.cfg)'
    BY Zenon, <1>2, <1>o DEF StartRestored, Initialized, memory
  <2> QED BY <1>2, <2>1, <2>2, <2>3 DEF StartRestored, files, certs, history, process, queue
<1>3. ASSUME StartBaseline PROVE TypeOK'
  <2>1. pc' \in Step /\ op' \in Operation
    BY <1>3, <1>s, ControlType DEF StartBaseline, AfterInitialize
  <2>2. (serving \in Json \cup {Down} /\ late \in Json \cup {None})'
    BY <1>3, BaselineType DEF StartBaseline, Restart, StopCaddy
  <2>3. (/\ initialized \in BOOLEAN /\ available \in BOOLEAN
         /\ activeJson \in Json /\ activeCfg = activeJson.cfg)'
    BY Zenon, <1>3, BaselineType DEF StartBaseline, Initialized, memory
  <2> QED BY <1>3, <2>1, <2>2, <2>3 DEF StartBaseline, files, certs, history, process, queue
<1>4. ASSUME EnsureRunning PROVE TypeOK'
  <2>1. pc' \in Step /\ op' \in Operation
    BY <1>4, <1>s, ControlType DEF EnsureRunning, ActivateSteps
  <2>2. (serving \in Json \cup {Down} /\ late \in Json \cup {None})'
    BY <1>4 DEF EnsureRunning, Restart, StopCaddy, caddy
  <2> QED BY Zenon, <1>4, <2>1, <2>2 DEF EnsureRunning, files, certs, history, process, queue
<1>5. ASSUME Prepare PROVE TypeOK'
  <2>1. Render(op.cfg, IF op.staged = None THEN material ELSE op.staged) \in Json
    BY <1>o, RenderType
  <2>2. \A j \in Json, b \in BOOLEAN : [op EXCEPT !.json = j, !.fenced = b] \in Operation
    BY Zenon DEF Operation
  <2>3. {"load", "fence", "snapshot"} \subseteq Step
    BY <1>s DEF ActivateSteps
  <2>4. pc' \in Step /\ op' \in Operation
    <3>1. CASE Release
      BY <3>1, ControlType
    <3>2. CASE ~Release
      <4> DEFINE json == Render(op.cfg, IF op.staged = None THEN material ELSE op.staged)
      <4>1. PICK b \in BOOLEAN :
               /\ op' = [op EXCEPT !.json = json, !.fenced = b]
               /\ pc' \in {"load", "fence", "snapshot"}
        BY Zenon, <1>5, <3>2 DEF Prepare
      <4> QED BY Zenon, <4>1, <2>1, <2>2, <2>3
    <3> QED BY <3>1, <3>2
  <2> QED BY <1>5, <2>4 DEF Prepare, files, certs, history, process, queue, memory, caddy
<1>6. ASSUME Fence PROVE TypeOK'
  <2>1. FilesOK'
    BY <1>6, <1>f, WriteOkType, WriteErrType DEF Fence, File, FileValue
  <2>2. pc' \in Step /\ op' \in Operation
    BY <1>6, <1>s, ControlType DEF Fence, ActivateSteps
  <2> QED BY <1>6, <2>1, <2>2 DEF Fence, FilesOK, certs, history, process, queue, memory, caddy
<1>7. ASSUME PersistSnapshot PROVE TypeOK'
  <2>0. op.cfg \in FileValue("snapshot")
    BY <1>7 DEF PersistSnapshot, OperationOK, ActivateSteps, FileValue
  <2>1. FilesOK'
    BY <1>7, <1>f, <2>0, WriteOkType, WriteErrType DEF PersistSnapshot, File, FileValue
  <2>2. pc' \in Step /\ op' \in Operation
    BY <1>7, <1>s, ControlType DEF PersistSnapshot, ActivateSteps
  <2> QED BY <1>7, <2>1, <2>2 DEF PersistSnapshot, FilesOK, certs, history, process, queue, memory, caddy
<1>8. ASSUME PersistAuthority PROVE TypeOK'
  <2>0. op.cfg \in FileValue("authority")
    BY <1>8 DEF PersistAuthority, OperationOK, ActivateSteps, FileValue
  <2>1. FilesOK'
    BY <1>8, <1>f, <2>0, WriteOkType, WriteErrType DEF PersistAuthority, File, FileValue
  <2>2. pc' \in Step /\ op' \in Operation
    BY <1>8, <1>s, ControlType DEF PersistAuthority, ActivateSteps
  <2> QED BY <1>8, <2>1, <2>2 DEF PersistAuthority, FilesOK, certs, history, process, queue, memory, caddy
<1>9. ASSUME Load PROVE TypeOK'
  <2>1. pc' \in Step /\ op' \in Operation
    BY <1>9, <1>s, ControlType DEF Load, FilesIfFenced, ActivateSteps, TrafficSteps
  <2>2. (serving \in Json \cup {Down} /\ late \in Json \cup {None})'
    BY <1>9, <1>o DEF Load, LoadOk, LoadRejected, LoadUnknown, caddy
  <2> QED BY <1>9, <2>1, <2>2 DEF Load, files, certs, history, process, queue, memory
<1>10. ASSUME Probe PROVE TypeOK'
  <2>1. pc' \in Step /\ op' \in Operation
    BY <1>10, <1>s, ControlType DEF Probe, FilesIfFenced, ActivateSteps, TrafficSteps
  <2> QED BY <1>10, <2>1 DEF Probe, files, certs, history, process, queue, memory, caddy
<1>11. ASSUME Commit PROVE TypeOK'
  <2>1. pc' \in Step /\ op' \in Operation
    BY <1>11, <1>s, ControlType DEF Commit, ActivateSteps, TrafficSteps
  <2>2. op.staged \in Material
    BY <1>11, <1>o DEF Commit, OperationOK
  <2> QED BY <1>11, <2>1, <2>2 DEF Commit, CommitStagedOk, CommitStagedErr,
                                    files, history, process, queue, memory, caddy
<1>12. ASSUME Finish PROVE TypeOK'
  <2>1. FilesOK'
    BY <1>12, <1>f, WriteOkType, WriteErrType
       DEF Finish, RemoveOk, RemoveAfterUnlink, RemoveBeforeUnlink, AtomicWriteErr, File, FileValue
  <2>2. pc' \in Step /\ op' \in Operation
    BY <1>12, <1>s, ControlType DEF Finish, ActivateSteps, RollbackSteps
  <2> QED BY <1>12, <1>o, <2>1, <2>2 DEF Finish, FilesOK, certs, process, queue, memory, caddy
<1>13. ASSUME Publish PROVE TypeOK'
  <2>1. FilesOK'
    BY <1>13, <1>f DEF Publish, FilesOK, Sync
  <2>2. pc' \in Step /\ op' \in Operation
    BY <1>13, ControlType DEF Publish
  <2>3. op.json.cfg = op.cfg /\ op.seq \in 0..MaxSeq
    BY <1>13 DEF Publish, OperationOK, Operation, ActivateSteps
  <2> QED BY <1>13, <1>o, <2>1, <2>2, <2>3 DEF Publish, FilesOK, certs, process, queue, caddy
<1>14. ASSUME RollbackFence PROVE TypeOK'
  <2>1. FilesOK'
    BY <1>14, <1>f, WriteOkType, WriteErrType DEF RollbackFence, File, FileValue
  <2>2. pc' \in Step /\ op' \in Operation
    BY <1>14, <1>s, ControlType DEF RollbackFence, RollbackSteps
  <2> QED BY <1>14, <2>1, <2>2 DEF RollbackFence, FilesOK, certs, history, process, queue, memory, caddy
<1>15. ASSUME RollbackSnapshot PROVE TypeOK'
  <2>1. FilesOK'
    BY <1>15, <1>f, <1>c, WriteOkType, WriteErrType DEF RollbackSnapshot, File, FileValue
  <2>2. pc' \in Step /\ op' \in Operation
    BY <1>15, <1>s, ControlType DEF RollbackSnapshot, RollbackSteps
  <2> QED BY <1>15, <2>1, <2>2 DEF RollbackSnapshot, FilesOK, certs, history, process, queue, memory, caddy
<1>16. ASSUME RollbackAuthority PROVE TypeOK'
  <2>1. FilesOK'
    BY <1>16, <1>f, <1>c, WriteOkType, WriteErrType DEF RollbackAuthority, File, FileValue
  <2>2. pc' \in Step /\ op' \in Operation
    BY <1>16, <1>s, ControlType DEF RollbackAuthority, RollbackSteps
  <2> QED BY <1>16, <2>1, <2>2 DEF RollbackAuthority, FilesOK, certs, history, process, queue, memory, caddy
<1>17. ASSUME RollbackFinish PROVE TypeOK'
  <2>1. FilesOK'
    BY <1>17, <1>f, WriteOkType, WriteErrType
       DEF RollbackFinish, RemoveOk, RemoveErr, RemoveAfterUnlink, RemoveBeforeUnlink,
           AtomicWriteErr, File, FileValue
  <2>2. pc' \in Step /\ op' \in Operation
    BY <1>17, ControlType DEF RollbackFinish
  <2> QED BY <1>17, <2>1, <2>2 DEF RollbackFinish, FilesOK, certs, history, process, queue, memory, caddy
<1>18. ASSUME Reload PROVE TypeOK'
  <2>1. pc' \in Step /\ op' \in Operation
    BY <1>18, <1>s, ControlType DEF Reload, TrafficSteps
  <2>2. (serving \in Json \cup {Down} /\ late \in Json \cup {None})'
    BY <1>18 DEF Reload, LoadOk, LoadRejected, LoadUnknown, caddy
  <2> QED BY <1>18, <2>1, <2>2 DEF Reload, files, certs, history, process, queue, memory
<1>19. ASSUME Reprobe PROVE TypeOK'
  <2>1. pc' \in Step /\ op' \in Operation
    BY <1>19, <1>s, ControlType DEF Reprobe, TrafficSteps
  <2> QED BY <1>19, <2>1 DEF Reprobe, files, certs, history, process, queue, memory, caddy
<1>20. ASSUME RestartVerified PROVE TypeOK'
  <2>1. pc' \in Step /\ op' \in Operation
    BY <1>20, ControlType DEF RestartVerified
  <2>2. (serving \in Json \cup {Down} /\ late \in Json \cup {None} /\ available \in BOOLEAN)'
    BY Zenon, <1>20 DEF RestartVerified, Restart, StopCaddy
  <2> QED BY <1>20, <2>1, <2>2 DEF RestartVerified, files, certs, history, process, queue
<1> QED BY Zenon, <1>1, <1>2, <1>3, <1>4, <1>5, <1>6, <1>7, <1>8, <1>9, <1>10, <1>11, <1>12, <1>13,
           <1>14, <1>15, <1>16, <1>17, <1>18, <1>19, <1>20 DEF HolderStep
==============================================================================
