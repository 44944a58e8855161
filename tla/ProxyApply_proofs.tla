-------------------------- MODULE ProxyApply_proofs --------------------------
(***************************************************************************)
(* Proofs about ProxyApply for every set of configurations and materials   *)
(* and every bound on the requests.                                        *)
(***************************************************************************)
EXTENDS ProxyApplyTypes_proofs

-----------------------------------------------------------------------------
\* The invariants the proofs carry.

\* If the fence may be gone after a power loss, a snapshot and an authority
\* that may survive together name the committed configuration.
FenceGuardsFiles ==
    None \in stable["fence"] =>
        \A c \in Config : c \in stable["snapshot"] /\ c \in stable["authority"] => c = committed

\* Where each part of an abort may continue.
AbortOrder ==
    /\ pc \notin TrafficSteps \cup RollbackSteps => op.then = "idle"
    /\ pc \in TrafficSteps => op.then # "reload"
    /\ pc \in RollbackSteps => op.then # "rbFence"

\* From the fence to the commit or to the end of the rollback the fence is on
\* stable storage, and what has been written behind it is settled.
FenceHeld ==
    \/ pc \in {"snapshot", "authority", "load", "probe", "finish"} /\ op.fenced
    \/ pc \in RollbackSteps
    \/ op.then = "rbFence"

BehindFence ==
    /\ FenceHeld => stable["fence"] = {Pending}
    /\ pc = "authority" => stable["snapshot"] = {op.cfg}
    /\ pc \in {"load", "probe", "finish"} /\ op.fenced =>
           stable["snapshot"] = {op.cfg} /\ stable["authority"] = {op.cfg}
    /\ pc \in {"rbAuthority", "rbFinish"} => stable["snapshot"] = {activeCfg}
    /\ pc = "rbFinish" => stable["authority"] = {activeCfg}

\* Memory: the active configuration is the committed one, and is what disk
\* recovers unless a fence is in the way.
ActiveOK ==
    pc # "publish" /\ activeCfg # None =>
        /\ activeCfg = committed
        /\ disk["fence"] = None => Recoverable(disk) = activeCfg

DownMeansIdle == ~up => pc = "idle" /\ activeCfg = None

RecoveryInv ==
    /\ TypeOK /\ FenceGuardsFiles /\ AbortOrder /\ BehindFence
    /\ OperationOK /\ ActiveOK /\ DownMeansIdle

-----------------------------------------------------------------------------
\* What is recoverable from the visible files is the committed configuration.
LEMMA RecoverableCommitted ==
    ASSUME FilesOK, FenceGuardsFiles
    PROVE  Recoverable(disk) \in {None, committed}
BY ConstantsAssumption DEF FilesOK, FenceGuardsFiles, Recoverable, File, FileValue

\* The part of RecoveryInv beyond the types.
Protocol ==
    /\ FenceGuardsFiles /\ AbortOrder /\ BehindFence
    /\ OperationOK /\ ActiveOK /\ DownMeansIdle

\* The protocol invariants hold before the first start.
LEMMA ProtocolInit == Init => Protocol
BY ConstantsAssumption, BaselineType
   DEF Init, Protocol, FenceGuardsFiles, AbortOrder, BehindFence, FenceHeld, OperationOK,
       ActiveOK, DownMeansIdle, NoOp, File, TrafficSteps, RollbackSteps, ActivateSteps

\* The protocol invariants read the files, the operation and the active revision.
LEMMA ProtocolUnchanged ==
    ASSUME Protocol, disk' = disk, stable' = stable, committed' = committed,
           up' = up, pc' = pc, op' = op, activeCfg' = activeCfg
    PROVE  Protocol'
BY DEF Protocol, FenceGuardsFiles, AbortOrder, BehindFence, FenceHeld, OperationOK, ActiveOK,
       DownMeansIdle, Recoverable

\* Requests, recovery, Caddy's own steps and the life of the process keep them.
LEMMA ProtocolEnvironment ==
    ASSUME TypeOK, Protocol,
           \/ \E c \in Config : RequestApply(c)
           \/ \E w \in waiting : LockTimeout(w) \/ AcquireApply(w)
           \/ \E m \in Material : AcquireStaged(m) \/ CommitUnused(m)
           \/ Recover \/ ReadinessLost \/ CaddyDies \/ LateLoad
           \/ BeginShutdown \/ AbortRecovery \/ Crash \/ PowerLoss \/ Boot
    PROVE  Protocol'
<1>1. ASSUME NEW c \in Config, RequestApply(c) PROVE Protocol'
  BY <1>1, ProtocolUnchanged DEF RequestApply, files, history, process, lock, memory
<1>2. ASSUME NEW w \in waiting, LockTimeout(w) PROVE Protocol'
  BY <1>2, ProtocolUnchanged DEF LockTimeout, files, history, process, lock, memory
<1>3. ASSUME NEW m \in Material, CommitUnused(m) PROVE Protocol'
  BY <1>3, ProtocolUnchanged DEF CommitUnused, files, history, process, lock, memory
<1>4. ASSUME ReadinessLost PROVE Protocol'
  BY <1>4, ProtocolUnchanged DEF ReadinessLost, files, history, process, lock
<1>5. ASSUME CaddyDies PROVE Protocol'
  BY <1>5, ProtocolUnchanged DEF CaddyDies, files, history, process, lock, memory
<1>6. ASSUME LateLoad PROVE Protocol'
  BY <1>6, ProtocolUnchanged DEF LateLoad, files, history, process, lock, memory
<1>7. ASSUME BeginShutdown PROVE Protocol'
  BY <1>7, ProtocolUnchanged DEF BeginShutdown, files, history, process, lock, memory
<1> USE ConstantsAssumption
    DEF Protocol, FenceGuardsFiles, AbortOrder, BehindFence, FenceHeld, OperationOK,
        ActiveOK, DownMeansIdle, TrafficSteps, RollbackSteps, ActivateSteps, Recoverable
<1>f. FilesOK
  BY DEF TypeOK, FilesOK
<1>8. ASSUME NEW w \in waiting, AcquireApply(w) PROVE Protocol'
  BY Zenon, <1>8 DEF AcquireApply, files, history, process, lock, memory, NoOp
<1>9. ASSUME NEW m \in Material, AcquireStaged(m) PROVE Protocol'
  BY Zenon, <1>9 DEF AcquireStaged, files, history, process, lock, memory, NoOp
<1>10. ASSUME Recover PROVE Protocol'
  BY <1>10 DEF Recover, files, history, process, memory, NoOp
<1>11. ASSUME Crash PROVE Protocol'
  BY <1>11, BaselineType DEF Crash, Forget, Release, NoOp, files
<1>12. ASSUME PowerLoss PROVE Protocol'
  <2>1. FenceGuardsFiles'
    BY <1>12, <1>f DEF PowerLoss, LosePower, Surviving, Sync, Forget, FilesOK, File
  <2> QED BY <1>12, <2>1, BaselineType DEF PowerLoss, Forget, Release, NoOp
<1>13. ASSUME Boot PROVE Protocol'
  BY <1>13 DEF Boot, files, history, memory, NoOp
<1>14. ASSUME AbortRecovery PROVE Protocol'
  BY <1>14 DEF AbortRecovery, Release, InitialiseSteps, files, history, process, memory, NoOp
<1> HIDE DEF Protocol
<1> QED BY Zenon, <1>1, <1>2, <1>3, <1>4, <1>5, <1>6, <1>7, <1>8, <1>9, <1>10, <1>11, <1>12, <1>13, <1>14

\* The fields of the operation after an abort begins or goes on.
SameOperation ==
    /\ op'.cfg = op.cfg /\ op'.json = op.json
    /\ op'.fenced = op.fenced /\ op'.staged = op.staged

\* What the control operators do to the operation's fields.
LEMMA ControlFields ==
    ASSUME op \in Operation
    PROVE  /\ NoOp.then = "idle" /\ NoOp.fenced = FALSE /\ NoOp.cfg = None /\ NoOp.staged = None
           /\ Continue => \/ op.then = "idle" /\ pc' = "idle" /\ op' = NoOp
                          \/ /\ op.then # "idle" /\ pc' = op.then
                             /\ op'.then = "idle" /\ SameOperation
           /\ \A x, y : Abort(x, y) => pc' = x /\ op'.then = y /\ SameOperation
BY DEF NoOp, Continue, Release, Abort, SameOperation, Operation

\* Every step of the lock holder keeps the protocol invariants.
LEMMA ProtocolHolder ==
    ASSUME TypeOK, Protocol, HolderStep
    PROVE  Protocol'
<1> USE ConstantsAssumption
    DEF Protocol, FenceGuardsFiles, AbortOrder, BehindFence, FenceHeld, OperationOK,
        ActiveOK, DownMeansIdle, TrafficSteps, RollbackSteps, ActivateSteps, Recoverable,
        Goto, Release, RollbackIfFenced, FilesIfFenced, SameOperation
<1>f. FilesOK
  BY DEF TypeOK, FilesOK
<1>o. /\ op \in Operation /\ op.then \in {"idle", "rbFence", "reload"}
      /\ op.fenced \in BOOLEAN /\ op.cfg \in Config \cup {None}
  BY DEF TypeOK, Operation
<1>a. activeCfg \in Config \cup {None} /\ activeCfg = activeJson.cfg
  BY DEF TypeOK, Json
<1>1. ASSUME InitializeRestore PROVE Protocol'
  <2>1. CASE Release
    BY <1>1, <2>1, ControlFields, <1>o DEF InitializeRestore, files, history, process, memory
  <2>2. CASE ~Release
    <3>1. PICK c \in {None, Recoverable(disk)} : op' = [op EXCEPT !.json = Render(c, material)]
      BY <1>1, <2>2 DEF InitializeRestore
    <3>2. c \in Config \cup {None} /\ material \in Material
      BY <1>f DEF FilesOK, File, FileValue, TypeOK
    <3>3. /\ op'.json.cfg = c /\ op'.then = op.then /\ op'.fenced = op.fenced
          /\ op'.staged = op.staged
      BY <3>1, <3>2, <1>o, RenderType DEF Operation
    <3> QED BY <1>1, <2>2, <3>3, <1>o DEF InitializeRestore, files, history, process, memory
  <2> QED BY <2>1, <2>2
<1>2. ASSUME StartRestored PROVE Protocol'
  BY <1>2, <1>f, <1>o, <1>a, ControlFields, RecoverableCommitted DEF StartRestored, files, history, process, memory, Initialized, AfterInitialize, StartOk
<1>3. ASSUME StartBaseline PROVE Protocol'
  BY <1>3, <1>f, <1>o, <1>a, ControlFields, BaselineType DEF StartBaseline, files, history, process, memory, Initialized, AfterInitialize
<1>4. ASSUME EnsureRunning PROVE Protocol'
  BY <1>4, <1>f, <1>o, <1>a, ControlFields DEF EnsureRunning, files, history, process, memory
<1>5. ASSUME Prepare PROVE Protocol'
  <2>1. CASE Release
    BY <1>5, <2>1, ControlFields, <1>o DEF Prepare, files, history, process, memory
  <2>2. CASE ~Release
    <3> DEFINE json == Render(op.cfg, IF op.staged = None THEN material ELSE op.staged)
               fenced(b) == op.staged = None /\ (json # activeJson \/ ~b)
    <3>1. PICK b \in {FALSE, Recoverable(disk) = op.cfg} :
             /\ op.staged # None => b
             /\ op' = [op EXCEPT !.json = json, !.fenced = fenced(b)]
             /\ pc' = IF op.staged # None THEN "load"
                      ELSE IF fenced(b) THEN "fence" ELSE "snapshot"
      BY <1>5, <2>2 DEF Prepare
    <3>2. json.cfg = op.cfg
      BY RenderType DEF TypeOK, Operation
    <3> HIDE DEF json
    <3>3. /\ op'.json.cfg = op.cfg /\ op'.then = op.then /\ op'.fenced = fenced(b)
          /\ op'.staged = op.staged /\ op'.cfg = op.cfg
      BY <3>1, <3>2, <1>o DEF Operation
    <3>4. /\ pc = "prepare" /\ disk' = disk /\ stable' = stable /\ committed' = committed
          /\ up' = up /\ activeCfg' = activeCfg
      BY <1>5 DEF Prepare, files, history, process, memory
    <3> QED BY Zenon, <3>1, <3>3, <3>4, <1>o
  <2> QED BY <2>1, <2>2
<1>6. ASSUME Fence PROVE Protocol'
  BY <1>6, <1>f, <1>o, <1>a, ControlFields DEF Fence, AtomicWriteOk, AtomicWriteErr, Untouched, Sync, FilesOK, File, FileValue, history, process, memory
<1>7. ASSUME PersistSnapshot PROVE Protocol'
  BY <1>7, <1>f, <1>o, <1>a, ControlFields DEF PersistSnapshot, AtomicWriteOk, AtomicWriteErr, Untouched, Sync, FilesOK, File, FileValue, history, process, memory
<1>8. ASSUME PersistAuthority PROVE Protocol'
  BY <1>8, <1>f, <1>o, <1>a, ControlFields DEF PersistAuthority, AtomicWriteOk, AtomicWriteErr, Untouched, Sync, FilesOK, File, FileValue, history, process, memory
<1>9. ASSUME Load PROVE Protocol'
  BY <1>9, <1>f, <1>o, <1>a, ControlFields DEF Load, files, history, process, memory
<1>10. ASSUME Probe PROVE Protocol'
  BY <1>10, <1>f, <1>o, <1>a, ControlFields DEF Probe, files, history, process, memory
<1>11. ASSUME Commit PROVE Protocol'
  BY <1>11, <1>f, <1>o, <1>a, ControlFields DEF Commit, files, history, process, memory
<1>12. ASSUME Finish PROVE Protocol'
  BY <1>12, <1>f, <1>o, <1>a, ControlFields DEF Finish, AtomicWriteOk, AtomicWriteErr, Untouched, Sync, FilesOK, File, FileValue, history, process, memory, RemoveOk, RemoveBeforeUnlink, RemoveAfterUnlink
<1>13. ASSUME Publish PROVE Protocol'
  BY <1>13, <1>f, <1>o, <1>a, ControlFields, RecoverableCommitted DEF Publish, AtomicWriteOk, AtomicWriteErr, Untouched, Sync, FilesOK, File, FileValue, history, process, memory
<1>14. ASSUME RollbackFence PROVE Protocol'
  BY <1>14, <1>f, <1>o, <1>a, ControlFields DEF RollbackFence, AtomicWriteOk, AtomicWriteErr, Untouched, Sync, FilesOK, File, FileValue, history, process, memory
<1>15. ASSUME RollbackSnapshot PROVE Protocol'
  BY <1>15, <1>f, <1>o, <1>a, ControlFields DEF RollbackSnapshot, AtomicWriteOk, AtomicWriteErr, Untouched, Sync, FilesOK, File, FileValue, history, process, memory
<1>16. ASSUME RollbackAuthority PROVE Protocol'
  BY <1>16, <1>f, <1>o, <1>a, ControlFields DEF RollbackAuthority, AtomicWriteOk, AtomicWriteErr, Untouched, Sync, FilesOK, File, FileValue, history, process, memory
<1>17. ASSUME RollbackFinish PROVE Protocol'
  BY <1>17, <1>f, <1>o, <1>a, ControlFields DEF RollbackFinish, AtomicWriteOk, AtomicWriteErr, Untouched, Sync, FilesOK, File, FileValue, history, process, memory, RemoveOk, RemoveErr, RemoveBeforeUnlink, RemoveAfterUnlink
<1>18. ASSUME Reload PROVE Protocol'
  BY <1>18, <1>f, <1>o, <1>a, ControlFields DEF Reload, files, history, process, memory
<1>19. ASSUME Reprobe PROVE Protocol'
  BY <1>19, <1>f, <1>o, <1>a, ControlFields DEF Reprobe, files, history, process, memory
<1>20. ASSUME RestartVerified PROVE Protocol'
  BY <1>20, <1>f, <1>o, <1>a, ControlFields DEF RestartVerified, files, history, process, memory
<1> HIDE DEF Protocol
<1> QED BY Zenon, <1>1, <1>2, <1>3, <1>4, <1>5, <1>6, <1>7, <1>8, <1>9, <1>10, <1>11, <1>12, <1>13, <1>14, <1>15, <1>16, <1>17, <1>18, <1>19, <1>20 DEF HolderStep

\* A stuttering step changes no variable.
LEMMA StutterUnchanged ==
    ASSUME UNCHANGED vars
    PROVE  /\ disk' = disk /\ stable' = stable /\ committed' = committed
           /\ material' = material /\ index' = index /\ published' = published
           /\ up' = up /\ stopping' = stopping /\ applySeq' = applySeq /\ waiting' = waiting
           /\ pc' = pc /\ op' = op /\ initialized' = initialized /\ available' = available
           /\ activeJson' = activeJson /\ activeCfg' = activeCfg
           /\ serving' = serving /\ late' = late
BY DEF vars, files, certs, history, process, queue, lock, memory, caddy

\* One step keeps the recovery invariant.
LEMMA RecoveryStep == RecoveryInv /\ [Next]_vars => RecoveryInv'
<1> SUFFICES ASSUME RecoveryInv, [Next]_vars PROVE RecoveryInv'
  OBVIOUS
<1>1. TypeOK /\ Protocol /\ OperationOK
  BY DEF RecoveryInv, Protocol
<1>2. CASE Next
  <2>1. TypeOK'
    BY <1>1, <1>2, TypeEnvironment, TypeHolder DEF Next
  <2>2. Protocol'
    BY <1>1, <1>2, ProtocolEnvironment, ProtocolHolder DEF Next
  <2> QED BY <2>1, <2>2 DEF RecoveryInv, Protocol
<1>3. CASE UNCHANGED vars
  <2>1. TypeOK'
    BY <1>1, <1>3, StutterUnchanged DEF TypeOK
  <2>2. Protocol'
    BY <1>3, StutterUnchanged, ProtocolUnchanged DEF RecoveryInv, Protocol
  <2> QED BY <2>1, <2>2 DEF RecoveryInv, Protocol
<1> QED BY <1>2, <1>3

\* RecoveryInv is an invariant of the apply protocol: of apply_locked, its
\* rollbacks, initialisation, crashes and power losses.
THEOREM RecoveryInvariant == Spec => []RecoveryInv
<1>1. Init => RecoveryInv
  BY TypeInit, ProtocolInit DEF RecoveryInv, Protocol
<1> QED BY <1>1, RecoveryStep, PTL DEF Spec

\* The apply protocol keeps the types of RuntimeState, the files and Caddy's state.
THEOREM TypeCorrect == Spec => []TypeOK
<1>1. RecoveryInv => TypeOK
  BY DEF RecoveryInv
<1> QED BY <1>1, RecoveryInvariant, PTL

\* The recovery invariant bounds what restore_active_configuration can return.
LEMMA RecoveryInvCommitted == RecoveryInv => RecoveryIsCommitted
BY ConstantsAssumption
   DEF RecoveryInv, RecoveryIsCommitted, TypeOK, FenceGuardsFiles, Surviving, Recoverable,
       File, FileValue

\* Whatever survives a power loss, restore_active_configuration returns the
\* configuration committed last or nothing.
THEOREM RecoverySafe == Spec => []RecoveryIsCommitted
BY RecoveryInvCommitted, RecoveryInvariant, PTL

\* Between the fence and its removal (apply_locked) a crash comes up closed.
THEOREM FenceSafe == Spec => []UnconfirmedStaysFenced
<1>1. RecoveryInv => UnconfirmedStaysFenced
  BY ConstantsAssumption
     DEF RecoveryInv, UnconfirmedStaysFenced, BehindFence, FenceHeld, Surviving, Recoverable, File
<1> QED BY <1>1, RecoveryInvariant, PTL

\* Between operations the active configuration and the recoverable one agree.
THEOREM AuthoritySafe == Spec => []AuthorityNotSplit
<1>1. RecoveryInv => AuthorityNotSplit
  BY RecoveryInvCommitted DEF RecoveryInv, RecoveryIsCommitted, AuthorityNotSplit, ActiveOK
<1> QED BY <1>1, RecoveryInvariant, PTL

-----------------------------------------------------------------------------
\* Refinement: the files implement ConfigAuthority.
Abstract == [Authority!Next]_(Authority!authority)

\* Steps that neither touch the files nor enter or leave the commit point.
LEMMA AbstractStutter ==
    ASSUME disk' = disk, committed' = committed,
           \/ pc # "finish" /\ pc' # "finish"
           \/ pc' = pc /\ op' = op
    PROVE  Abstract
BY DEF Abstract, Authority!authority

\* A step that gives up a verified candidate.
LEMMA AbstractAbandon ==
    ASSUME Recoverable(disk') = Recoverable(disk), committed' = committed, pc' # "finish"
    PROVE  Abstract
BY DEF Abstract, Authority!Next, Authority!Abandon

\* Steps outside the commit point that close recovery, or open it again for
\* the committed configuration.
LEMMA AbstractCloseReopen ==
    ASSUME Recoverable(disk') \in {None, Recoverable(disk), committed},
           committed' = committed, pc # "finish", pc' # "finish"
    PROVE  Abstract
BY DEF Abstract, Authority!Next, Authority!Close, Authority!Reopen, Authority!authority

\* While the fence is held nothing is recoverable.
LEMMA HeldIsClosed ==
    ASSUME TypeOK, Protocol, FenceHeld
    PROVE  disk["fence"] = Pending /\ Recoverable(disk) = None
BY ConstantsAssumption DEF TypeOK, Protocol, BehindFence, Recoverable, File

\* Steps outside the lock are abstract steps: a crash closes or reopens nothing new.
LEMMA AbstractEnvironment ==
    ASSUME TypeOK, Protocol,
           \/ \E c \in Config : RequestApply(c)
           \/ \E w \in waiting : LockTimeout(w) \/ AcquireApply(w)
           \/ \E m \in Material : AcquireStaged(m) \/ CommitUnused(m)
           \/ Recover \/ ReadinessLost \/ CaddyDies \/ LateLoad
           \/ BeginShutdown \/ AbortRecovery \/ Crash \/ PowerLoss \/ Boot
    PROVE  Abstract
<1>1. CASE \/ \E c \in Config : RequestApply(c)
           \/ \E w \in waiting : LockTimeout(w)
           \/ \E m \in Material : CommitUnused(m)
           \/ ReadinessLost \/ CaddyDies \/ LateLoad \/ BeginShutdown
  BY <1>1, AbstractStutter
     DEF RequestApply, LockTimeout, CommitUnused, ReadinessLost, CaddyDies, LateLoad,
         BeginShutdown, files, history, lock
<1>2. CASE \/ \E w \in waiting : AcquireApply(w)
           \/ \E m \in Material : AcquireStaged(m)
           \/ Recover \/ Boot
  BY Zenon, <1>2, AbstractStutter
     DEF AcquireApply, AcquireStaged, Recover, Boot, Protocol, DownMeansIdle, files, history, lock
<1>5. CASE AbortRecovery
  BY <1>5, AbstractStutter DEF AbortRecovery, Release, InitialiseSteps, files, history
<1>3. CASE Crash
  BY <1>3, AbstractAbandon DEF Crash, Forget, Release, files
<1>4. CASE PowerLoss
  <2>1. committed' = committed /\ pc' # "finish" /\ disk' \in Surviving
    BY <1>4 DEF PowerLoss, LosePower, Forget, Release
  <2>2. CASE pc = "finish"
    <3>1. FenceHeld /\ stable["fence"] = {Pending}
      BY <2>2 DEF Protocol, OperationOK, FenceHeld, BehindFence
    <3>2. Recoverable(disk') = Recoverable(disk)
      BY <2>1, <3>1, HeldIsClosed, ConstantsAssumption DEF Surviving, Recoverable, File
    <3> QED BY <2>1, <3>2, AbstractAbandon
  <2>3. CASE pc # "finish"
    <3>1. Recoverable(disk') \in {None, committed}
      BY <2>1, RecoveryInvCommitted DEF RecoveryInv, Protocol, RecoveryIsCommitted
    <3> QED BY <2>1, <2>3, <3>1, AbstractCloseReopen
  <2> QED BY <2>2, <2>3
<1> QED BY <1>1, <1>2, <1>3, <1>4, <1>5

\* Every step of the lock holder is an abstract step or a stutter.
LEMMA AbstractHolder ==
    ASSUME TypeOK, Protocol, HolderStep
    PROVE  Abstract
<1>o. /\ op \in Operation /\ op.then \in {"idle", "rbFence", "reload"}
      /\ NoOp.then = "idle"
  BY Zenon, ControlFields DEF TypeOK, Operation
<1>f. disk \in [File -> Value \cup {None}] /\ {"fence", "snapshot", "authority"} \subseteq File
  BY DEF TypeOK, File
<1>1. CASE InitializeRestore \/ StartRestored \/ StartBaseline \/ EnsureRunning \/ Prepare
  BY <1>1, AbstractStutter
     DEF InitializeRestore, StartRestored, StartBaseline, EnsureRunning, Prepare,
         AfterInitialize, Goto, Release, files, history
<1>2. CASE Load \/ Commit \/ Reload \/ Reprobe \/ RestartVerified
  BY <1>2, <1>o, AbstractStutter
     DEF Load, Commit, Reload, Reprobe, RestartVerified, RollbackIfFenced, Abort, Continue,
         Goto, Release, files, history
<1>3. CASE Fence
  <2>1. Recoverable(disk') \in {None, Recoverable(disk)}
    BY <1>3, <1>f, ConstantsAssumption
       DEF Fence, AtomicWriteOk, AtomicWriteErr, Untouched, Recoverable
  <2> QED BY <1>3, <2>1, AbstractCloseReopen DEF Fence, Goto, Release, history
<1>4. CASE PersistSnapshot \/ PersistAuthority
  <2>1. Recoverable(disk') = Recoverable(disk)
    <3>1. CASE op.fenced
      <4>1. disk["fence"] = Pending /\ disk'["fence"] = disk["fence"]
        BY <1>4, <1>f, <3>1, HeldIsClosed
           DEF FenceHeld, PersistSnapshot, PersistAuthority, AtomicWriteOk, AtomicWriteErr, Untouched
      <4> QED BY <4>1, ConstantsAssumption DEF Recoverable
    <3>2. CASE ~op.fenced
      <4>1. Recoverable(disk) = op.cfg /\ op.cfg # None
        BY <1>4, <3>2, ConstantsAssumption
           DEF Protocol, OperationOK, PersistSnapshot, PersistAuthority, ActivateSteps
      <4>2. disk["snapshot"] = op.cfg /\ disk["authority"] = op.cfg
        BY <4>1 DEF Recoverable
      <4> QED BY <1>4, <1>f, <4>2
              DEF PersistSnapshot, PersistAuthority, AtomicWriteOk, AtomicWriteErr, Untouched
    <3> QED BY <3>1, <3>2
  <2>2. pc # "finish" /\ pc' # "finish" /\ committed' = committed
    BY <1>4 DEF PersistSnapshot, PersistAuthority, RollbackIfFenced, Goto, Release, history
  <2> QED BY <2>1, <2>2, AbstractCloseReopen
<1>5. CASE Probe
  <2>1. disk' = disk /\ committed' = committed /\ pc = "probe"
    BY <1>5 DEF Probe, files, history
  <2>2. CASE pc' # "finish"
    BY <2>1, <2>2, AbstractStutter
  <2>3. CASE pc' = "finish"
    <3>1. op.fenced /\ op' = op
      BY <1>5, <2>3 DEF Probe, Goto, Abort
    <3>2. Recoverable(disk) = None /\ op.cfg \in Config
      BY <2>1, <3>1, HeldIsClosed DEF FenceHeld, Protocol, OperationOK, ActivateSteps
    <3>3. Authority!Verify(op.cfg)
      BY <2>1, <2>3, <3>1, <3>2 DEF Authority!Verify
    <3> QED BY <3>2, <3>3 DEF Abstract, Authority!Next
  <2> QED BY <2>2, <2>3
<1>6. CASE Finish
  <2>1. /\ pc = "finish" /\ op.fenced /\ op.cfg \in Config
        /\ stable["snapshot"] = {op.cfg} /\ stable["authority"] = {op.cfg}
    BY <1>6 DEF Finish, Protocol, OperationOK, BehindFence, ActivateSteps
  <2>2. disk["snapshot"] = op.cfg /\ disk["authority"] = op.cfg
    BY <2>1 DEF TypeOK, File
  <2>3. CASE committed' = op.cfg /\ disk' = [disk EXCEPT !["fence"] = None] /\ pc' = "publish"
    <3>1. Recoverable(disk') = op.cfg
      BY <1>f, <2>2, <2>3 DEF Recoverable
    <3>2. Authority!Commit
      BY <2>1, <2>3, <3>1, ConstantsAssumption DEF Authority!Commit
    <3> QED BY <3>2 DEF Abstract, Authority!Next
  <2>4. CASE committed' = committed /\ disk' = disk /\ pc' = "rbFence"
    BY <2>4, AbstractAbandon
  <2> QED BY <1>6, <2>3, <2>4
          DEF Finish, RemoveOk, AtomicWriteOk, RemoveAfterUnlink, RemoveBeforeUnlink, Untouched,
              Goto, Abort
<1>7. CASE Publish
  BY <1>7, AbstractStutter DEF Publish, Release
<1>8. CASE RollbackFence \/ RollbackSnapshot \/ RollbackAuthority
  <2>1. disk["fence"] = Pending /\ disk'["fence"] = Pending
    BY <1>8, <1>f, HeldIsClosed
       DEF FenceHeld, RollbackSteps, RollbackFence, RollbackSnapshot, RollbackAuthority,
           AtomicWriteOk, AtomicWriteErr, Untouched
  <2>2. Recoverable(disk') = None
    BY <2>1, ConstantsAssumption DEF Recoverable
  <2> QED BY <1>8, <1>o, <2>2, AbstractCloseReopen
          DEF RollbackFence, RollbackSnapshot, RollbackAuthority, Continue, Goto, Release, history
<1>9. CASE RollbackFinish
  <2>1. disk["snapshot"] = activeCfg /\ disk["authority"] = activeCfg
    BY <1>9 DEF RollbackFinish, Protocol, BehindFence, TypeOK, File
  <2>2. activeCfg \in {None, committed}
    BY <1>9 DEF RollbackFinish, Protocol, ActiveOK
  <2>3. Recoverable(disk') \in {None, Recoverable(disk), committed}
    BY <1>9, <1>f, <2>1, <2>2
       DEF RollbackFinish, RemoveOk, RemoveErr, RemoveBeforeUnlink, RemoveAfterUnlink,
           AtomicWriteOk, Untouched, Recoverable
  <2> QED BY <1>9, <1>o, <2>3, AbstractCloseReopen DEF RollbackFinish, Continue, Release, history
<1> QED BY <1>1, <1>2, <1>3, <1>4, <1>5, <1>6, <1>7, <1>8, <1>9 DEF HolderStep

\* The apply protocol implements ConfigAuthority: the visible files recover
\* the committed configuration or nothing, and only finish_configuration_activation
\* after a confirmed probe replaces it.
THEOREM Refinement == Spec => ImplementsAuthority
<1>1. Init => Authority!Init
  BY DEF Init, Authority!Init, Recoverable, File
<1>2. RecoveryInv /\ [Next]_vars => [Authority!Next]_(Authority!authority)
  <2> SUFFICES ASSUME RecoveryInv, [Next]_vars PROVE Abstract
    BY DEF Abstract
  <2>1. TypeOK /\ Protocol
    BY DEF RecoveryInv, Protocol
  <2>2. CASE Next
    BY <2>1, <2>2, AbstractEnvironment, AbstractHolder DEF Next
  <2>3. CASE UNCHANGED vars
    BY <2>3, StutterUnchanged, AbstractStutter
  <2> QED BY <2>2, <2>3
<1> QED BY <1>1, <1>2, RecoveryInvariant, PTL DEF Spec, ImplementsAuthority, Authority!Spec
=============================================================================
