----------------------------- MODULE ProxyApply -----------------------------
(***************************************************************************)
(* The controller's apply protocol: core/src/runtime/apply.rs, the         *)
(* durable recovery files of configuration.rs, startup, recovery and       *)
(* shutdown of lifecycle.rs, and Caddy as engine.rs drives it.             *)
(*                                                                         *)
(* A proxy configuration is applied under one lock.  Its snapshot and an   *)
(* authority record are written behind a fence file, Caddy loads it and    *)
(* confirms its revision, and removing the fence commits it as what a      *)
(* restart recovers.  Every file operation and every call to Caddy is one  *)
(* step, so a crash, a power loss, a dying Caddy or a newer request can    *)
(* fall between any two of them, and each of them can fail.                *)
(***************************************************************************)
EXTENDS Naturals

CONSTANTS Config,      \* validated proxy configurations, one per revision
          CertConfig,  \* those with a host bound to the certificate
          Material,    \* versions of the certificate's key and chain
          None,        \* absent; also the revision of the closed baseline
          Down,        \* Caddy is not running
          Pending,     \* the contents of the fence file
          MaxSeq,      \* bound: apply requests accepted between two starts
          AckMeansLoaded  \* Caddy answers a load with 200 only once it is in effect

ASSUME ConstantsAssumption ==
    /\ CertConfig \subseteq Config
    /\ None \notin Config \cup Material
    /\ Pending \notin Config \cup {None}
    /\ MaxSeq \in Nat
    /\ AckMeansLoaded \in BOOLEAN

VARIABLES
    disk, stable,   \* the state directory, see SafeDir
    index,          \* the materials a restart may find named by the certificate index
    committed,      \* history: the configuration last committed by unlinking the fence
    up, stopping,   \* the controller process and its shutdown flag
    applySeq,       \* apply_sequence
    waiting,        \* spawned applies waiting for apply_lock
    pc, op,         \* the holder of apply_lock: next step, and its operation
    initialized, available, activeJson, activeCfg,  \* RuntimeState, active_configuration
    material,       \* the material the certificate store has committed, in memory
    published,      \* history: sequence of the last published apply of this process
    serving, late   \* Caddy: the config it serves, a load it may still carry out

File == {"fence", "snapshot", "authority"}

Value == Config \cup {Pending}

INSTANCE SafeDir

files   == <<disk, stable>>
memory  == <<initialized, available, activeJson, activeCfg>>
caddy   == <<serving, late>>
certs   == <<material, index>>
process == <<up, stopping>>
queue   == <<applySeq, waiting>>
history == <<committed, published>>
lock    == <<pc, op>>
vars    == <<files, certs, history, process, queue, lock, memory, caddy>>

-----------------------------------------------------------------------------
\* A rendered Caddy configuration.  It embeds the revision that the probe
\* endpoint returns, and names the material of a bound certificate.
Json == [cfg : Config \cup {None}, mat : Material \cup {None}]

Render(c, m) == [cfg |-> c, mat |-> IF c \in CertConfig THEN m ELSE None]

Baseline == Render(None, None)

\* restore_active_configuration: the snapshot counts only unfenced and with
\* the authority record of its own revision.
Recoverable(d) ==
    IF d["fence"] = None /\ d["snapshot"] = d["authority"] THEN d["snapshot"] ELSE None

\* fenced: a configuration activation, as against a certificate replacement or
\* the re-confirmation of what is already active and durable.
\* then: where an abort continues after its current part.
NoOp == [cfg |-> None, seq |-> 0, staged |-> None, json |-> Baseline,
         fenced |-> FALSE, then |-> "idle"]

InitialiseSteps == {"initialize", "startRestored", "startBaseline"}
ActivateSteps   == {"prepare", "fence", "snapshot", "authority", "load", "probe",
                    "commit", "finish", "publish"}
RollbackSteps   == {"rbFence", "rbSnapshot", "rbAuthority", "rbFinish"}
TrafficSteps    == {"reload", "reprobe", "restart"}
Step == {"idle", "ensure"} \cup InitialiseSteps \cup ActivateSteps
            \cup RollbackSteps \cup TrafficSteps

Init ==
    /\ disk = [f \in File |-> None]
    /\ stable = [f \in File |-> {None}]
    /\ committed = None
    /\ material \in Material
    /\ index = {material}
    /\ up = FALSE /\ stopping = FALSE
    /\ applySeq = 0 /\ waiting = {} /\ published = 0
    /\ pc = "idle" /\ op = NoOp
    /\ initialized = FALSE /\ available = FALSE
    /\ activeJson = Baseline /\ activeCfg = None
    /\ serving = Down /\ late = None

-----------------------------------------------------------------------------
\* apply_sequence moved on; certificate replacements carry no sequence (0).
NeverSuperseded(seq) == FALSE

Superseded(seq) == seq # 0 /\ seq # applySeq

\* Control of the lock holder.
Goto(step) == pc' = step /\ op' = op

Release == pc' = "idle" /\ op' = NoOp

\* Go on with the rest of an abort, or give the lock back.
Continue ==
    IF op.then = "idle" THEN Release
    ELSE pc' = op.then /\ op' = [op EXCEPT !.then = "idle"]

\* Enter an abort at `first`, then `rest`.
Abort(first, rest) == pc' = first /\ op' = [op EXCEPT !.then = rest]

\* restore_recovery_configuration runs only for a fenced operation.
FilesIfFenced == IF op.fenced THEN "rbFence" ELSE "idle"

RollbackIfFenced == IF op.fenced THEN Goto("rbFence") ELSE Release

\* engine.shutdown then start(json): the old child is gone whatever the result.
Restart(json) == serving' = json /\ late' = None

StopCaddy == serving' = Down /\ late' = None

-----------------------------------------------------------------------------
\* Requests.  apply() numbers the request and spawns a task that waits for
\* apply_lock; a newer number makes every older request stale.
RequestApply(c) ==
    /\ up /\ applySeq < MaxSeq
    /\ applySeq' = applySeq + 1
    /\ waiting' = waiting \cup {[seq |-> applySeq + 1, cfg |-> c]}
    /\ UNCHANGED <<files, certs, history, process, lock, memory, caddy>>

\* lock_wait elapsed: Busy.
LockTimeout(w) ==
    /\ up /\ w \in waiting /\ pc # "idle"
    /\ waiting' = waiting \ {w}
    /\ UNCHANGED <<applySeq, files, certs, history, process, lock, memory, caddy>>

\* The task got the lock: Busy when stale, Unavailable when stopping, else
\* apply_locked begins, initialising first when startup did not succeed.
AcquireApply(w) ==
    /\ up /\ w \in waiting /\ pc = "idle"
    /\ waiting' = waiting \ {w}
    /\ IF Superseded(w.seq) \/ stopping
       THEN UNCHANGED lock
       ELSE /\ pc' = IF initialized THEN "ensure" ELSE "initialize"
            /\ op' = [NoOp EXCEPT !.cfg = w.cfg, !.seq = w.seq]
    /\ UNCHANGED <<applySeq, files, certs, history, process, memory, caddy>>

\* apply_staged_for_active(m) when the active configuration uses the
\* certificate: the whole configuration is re-applied with the staged material.
AcquireStaged(m) ==
    /\ up /\ pc = "idle" /\ ~stopping
    /\ activeCfg \in CertConfig /\ m # material
    /\ pc' = "ensure"
    /\ op' = [NoOp EXCEPT !.cfg = activeCfg, !.staged = m]
    /\ UNCHANGED <<files, certs, history, process, queue, memory, caddy>>

\* commit_staged as the store's caller sees it: on an error the store keeps
\* its previous pointer, but the index file may already name the new one.
CommitStagedOk(m)  == material' = m /\ index' = {m}

CommitStagedErr(m) == material' = material /\ index' \in {index, index \cup {m}}

\* apply_staged_for_active(m) otherwise: only the store changes.
CommitUnused(m) ==
    /\ up /\ pc = "idle" /\ ~stopping
    /\ activeCfg \notin CertConfig /\ m # material
    /\ CommitStagedOk(m) \/ CommitStagedErr(m)
    /\ UNCHANGED <<files, history, process, queue, lock, memory, caddy>>

RecoverOnlyDead ==
    /\ up /\ pc = "idle" /\ ~stopping
    /\ serving = Down
    /\ pc' = IF initialized THEN "ensure" ELSE "initialize"
    /\ op' = NoOp
    /\ UNCHANGED <<files, certs, history, process, queue, memory, caddy>>

\* The recovery worker found Caddy gone or unconfirmed and took the lock.
Recover ==
    /\ up /\ pc = "idle" /\ ~stopping
    /\ ~(serving # Down /\ available)
    /\ pc' = IF initialized THEN "ensure" ELSE "initialize"
    /\ op' = NoOp
    /\ UNCHANGED <<files, certs, history, process, queue, memory, caddy>>

\* is_ready: the readiness probe was not confirmed, so recovery takes over.
\* A probe of another revision never confirms; any probe can time out.
ReadinessLost ==
    /\ up /\ pc = "idle"
    /\ available /\ serving # Down
    /\ available' = FALSE
    /\ UNCHANGED <<initialized, activeJson, activeCfg,
                   files, certs, history, process, queue, lock, caddy>>

-----------------------------------------------------------------------------
\* initialize_locked up to the choice of the configuration to start: the
\* recovered one, or the baseline when nothing is recoverable, a file could
\* not be read or it does not render.  Preparing directories and stores fails.
InitializeRestore ==
    /\ pc = "initialize"
    /\ \/ /\ ~stopping
          /\ \E c \in {None, Recoverable(disk)} :
                op' = [op EXCEPT !.json = Render(c, material)]
          /\ pc' = "startRestored"
       \/ Release
    /\ UNCHANGED <<files, certs, history, process, queue, memory, caddy>>

\* RuntimeState and active_configuration after a successful start.
Initialized(json) ==
    /\ initialized' = TRUE /\ available' = TRUE
    /\ activeJson' = json /\ activeCfg' = json.cfg

\* What follows a successful initialize_locked: apply_locked goes on.
AfterInitialize ==
    IF op.cfg = None THEN Release ELSE Goto("ensure")

\* engine.start: a child that still runs is only asked for its revision;
\* otherwise Caddy is spawned with the configuration and must confirm it.
\* A failed start leaves no child.
StartOk(json) ==
    /\ serving # Down => serving.cfg = json.cfg
    /\ serving' = IF serving = Down THEN json ELSE serving
    /\ late' = late

\* Rendering the per-host sources may fail after Caddy was started: the
\* runtime stays uninitialised with Caddy running.
StartRestored ==
    /\ pc = "startRestored"
    /\ \/ StartOk(op.json) /\ Initialized(op.json) /\ AfterInitialize
       \/ /\ StartOk(op.json) /\ op.json.cfg # None
          /\ Release /\ UNCHANGED memory
       \/ StopCaddy /\ Goto("startBaseline") /\ UNCHANGED memory
    /\ UNCHANGED <<files, certs, history, process, queue>>

\* The fallback: the closed baseline, or nothing at all.
StartBaseline ==
    /\ pc = "startBaseline"
    /\ \/ Restart(Baseline) /\ Initialized(Baseline) /\ AfterInitialize
       \/ StopCaddy /\ Release /\ UNCHANGED memory
    /\ UNCHANGED <<files, certs, history, process, queue>>

\* ensure_running_locked: nothing to do, or restart with the active config.
EnsureRunning ==
    /\ pc = "ensure"
    /\ \/ /\ ~stopping /\ serving # Down /\ available
          /\ IF op.cfg = None THEN Release ELSE Goto("prepare")
          /\ UNCHANGED <<available, caddy>>
       \/ /\ ~stopping /\ ~(serving # Down /\ available)
          /\ Restart(activeJson) /\ available' = TRUE
          /\ IF op.cfg = None THEN Release ELSE Goto("prepare")
       \/ /\ ~stopping /\ ~(serving # Down /\ available)
          /\ StopCaddy /\ available' = FALSE /\ Release
       \/ /\ stopping /\ Release
          /\ UNCHANGED <<available, caddy>>
    /\ UNCHANGED <<initialized, activeJson, activeCfg,
                   files, certs, history, process, queue>>

-----------------------------------------------------------------------------
PrepareUnauthorized ==
    /\ pc = "prepare" /\ ~Superseded(op.seq)
    /\ \E authorized \in {FALSE, Recoverable(disk) = op.cfg} :
       LET json   == Render(op.cfg, IF op.staged = None THEN material ELSE op.staged)
           fenced == op.staged = None /\ (json # activeJson \/ ~authorized)
       IN  /\ op' = [op EXCEPT !.json = json, !.fenced = fenced]
           /\ pc' = IF op.staged # None THEN "load"
                    ELSE IF fenced THEN "fence" ELSE "snapshot"
    /\ UNCHANGED <<files, certs, history, process, queue, memory, caddy>>

\* apply_locked up to the first write.  Rendering may fail, a newer request
\* may have arrived, and reading the recovery files may fail, which counts as
\* not authorised.  A certificate is replaced only under a durable policy.
Prepare ==
    /\ pc = "prepare"
    /\ \/ Release
       \/ /\ ~Superseded(op.seq)
          /\ \E authorized \in {FALSE, Recoverable(disk) = op.cfg} :
             LET json   == Render(op.cfg, IF op.staged = None THEN material ELSE op.staged)
                 fenced == op.staged = None /\ (json # activeJson \/ ~authorized)
             IN  /\ op.staged # None => authorized
                 /\ op' = [op EXCEPT !.json = json, !.fenced = fenced]
                 /\ pc' = IF op.staged # None THEN "load"
                          ELSE IF fenced THEN "fence" ELSE "snapshot"
    /\ UNCHANGED <<files, certs, history, process, queue, memory, caddy>>

FenceErrorIgnored ==
    /\ pc = "fence"
    /\ AtomicWriteOk("fence", Pending) \/ AtomicWriteErr("fence", Pending)
    /\ Goto("snapshot")
    /\ UNCHANGED <<certs, history, process, queue, memory, caddy>>

\* fence_configuration_activation
Fence ==
    /\ pc = "fence"
    /\ \/ AtomicWriteOk("fence", Pending) /\ Goto("snapshot")
       \/ AtomicWriteErr("fence", Pending) /\ Release
    /\ UNCHANGED <<certs, history, process, queue, memory, caddy>>

\* persist_active_configuration, first file
PersistSnapshot ==
    /\ pc = "snapshot"
    /\ \/ AtomicWriteOk("snapshot", op.cfg) /\ Goto("authority")
       \/ AtomicWriteErr("snapshot", op.cfg) /\ RollbackIfFenced
    /\ UNCHANGED <<certs, history, process, queue, memory, caddy>>

\* persist_active_configuration, second file.  An unchanged configuration is
\* not loaded again, only probed.
PersistAuthority ==
    /\ pc = "authority"
    /\ \/ /\ AtomicWriteOk("authority", op.cfg)
          /\ Goto(IF op.json = activeJson THEN "probe" ELSE "load")
       \/ AtomicWriteErr("authority", op.cfg) /\ RollbackIfFenced
    /\ UNCHANGED <<certs, history, process, queue, memory, caddy>>

\* What a POST /load does to Caddy: answered 200, and in effect unless the
\* acknowledgement is not to be trusted; refused (4xx) and nothing
\* changed; or no usable answer (timeout, 5xx, Caddy gone), and the new
\* configuration may be in effect, take effect later, or never.
LoadOk(json) ==
    /\ serving # Down
    /\ serving' = json \/ (~AckMeansLoaded /\ serving' = serving)
    /\ late' = late

LoadRejected == serving # Down /\ UNCHANGED caddy

LoadUnknown(json) ==
    \/ UNCHANGED caddy
    \/ serving # Down /\ serving' = json /\ late' = late
    \/ serving # Down /\ late' = json /\ serving' = serving

LoadNeverRestarts ==
    /\ pc = "load"
    /\ \/ LoadOk(op.json) /\ Goto("probe")
       \/ LoadRejected /\ RollbackIfFenced
       \/ LoadUnknown(op.json) /\ Abort("reload", FilesIfFenced)
    /\ UNCHANGED <<files, certs, history, process, queue, memory>>

\* engine.load in apply_locked.  Without a clear answer Caddy is restarted with
\* the verified configuration before the files are rolled back.
Load ==
    /\ pc = "load"
    /\ \/ LoadOk(op.json) /\ Goto("probe")
       \/ LoadRejected /\ RollbackIfFenced
       \/ LoadUnknown(op.json) /\ Abort("restart", FilesIfFenced)
    /\ UNCHANGED <<files, certs, history, process, queue, memory>>

AnyAnswer(rev) == serving # Down

\* engine.probe compares the served revision; it may also time out.
ProbeOk(rev) == serving # Down /\ serving.cfg = rev

Probe ==
    /\ pc = "probe"
    /\ \/ /\ ProbeOk(op.cfg)
          /\ Goto(IF op.staged # None THEN "commit"
                  ELSE IF op.fenced THEN "finish" ELSE "publish")
       \/ Abort("reload", FilesIfFenced)
    /\ UNCHANGED <<files, certs, history, process, queue, memory, caddy>>

\* commit_staged once Caddy confirmed the staged material.
Commit ==
    /\ pc = "commit"
    /\ \/ CommitStagedOk(op.staged) /\ Goto("publish")
       \/ CommitStagedErr(op.staged) /\ Abort("reload", "idle")
    /\ UNCHANGED <<files, history, process, queue, memory, caddy>>

FinishRollsBackUnlink ==
    /\ pc = "finish"
    /\ \/ /\ RemoveOk("fence")
          /\ committed' = op.cfg
          /\ Goto("publish")
       \/ /\ RemoveErr("fence")
          /\ committed' = committed
          /\ Abort("rbFence", "reload")
    /\ UNCHANGED <<published, certs, process, queue, memory, caddy>>

\* finish_configuration_activation: the unlink is the commit point, synced or not.
Finish ==
    /\ pc = "finish"
    /\ \/ /\ RemoveOk("fence") \/ RemoveAfterUnlink("fence")
          /\ committed' = op.cfg
          /\ Goto("publish")
       \/ /\ RemoveBeforeUnlink
          /\ committed' = committed
          /\ Abort("rbFence", "reload")
    /\ UNCHANGED <<published, certs, process, queue, memory, caddy>>

PublishStateOnly ==
    /\ pc = "publish"
    /\ disk' = disk
    /\ Sync \/ stable' = stable
    /\ available' = TRUE /\ activeJson' = op.json /\ activeCfg' = activeCfg
    /\ published' = IF op.seq = 0 THEN published ELSE op.seq
    /\ Release
    /\ UNCHANGED <<committed, initialized, certs, process, queue, caddy>>

\* The timestamp file, then RuntimeState and active_configuration.  Writing the
\* timestamp syncs the directory; its failure is only logged.
Publish ==
    /\ pc = "publish"
    /\ disk' = disk
    /\ Sync \/ stable' = stable
    /\ available' = TRUE /\ activeJson' = op.json /\ activeCfg' = op.cfg
    /\ published' = IF op.seq = 0 THEN published ELSE op.seq
    /\ Release
    /\ UNCHANGED <<committed, initialized, certs, process, queue, caddy>>

-----------------------------------------------------------------------------
RollbackFenceOnly ==
    /\ pc = "rbFence"
    /\ \/ AtomicWriteOk("fence", Pending) /\ Goto("rbFinish")
       \/ AtomicWriteErr("fence", Pending) /\ Continue
    /\ UNCHANGED <<certs, history, process, queue, memory, caddy>>

\* restore_recovery_configuration(previous): fence again, put the previous
\* snapshot and authority back or remove both, unfence.  An error anywhere
\* leaves recovery fenced.  activeCfg is still the previous configuration.
RollbackFence ==
    /\ pc = "rbFence"
    /\ \/ AtomicWriteOk("fence", Pending) /\ Goto("rbSnapshot")
       \/ AtomicWriteErr("fence", Pending) /\ Continue
    /\ UNCHANGED <<certs, history, process, queue, memory, caddy>>

RollbackSnapshot ==
    /\ pc = "rbSnapshot"
    /\ \/ AtomicWriteOk("snapshot", activeCfg) /\ Goto("rbAuthority")
       \/ AtomicWriteErr("snapshot", activeCfg) /\ Continue
    /\ UNCHANGED <<certs, history, process, queue, memory, caddy>>

RollbackAuthority ==
    /\ pc = "rbAuthority"
    /\ \/ AtomicWriteOk("authority", activeCfg) /\ Goto("rbFinish")
       \/ AtomicWriteErr("authority", activeCfg) /\ Continue
    /\ UNCHANGED <<certs, history, process, queue, memory, caddy>>

RollbackFinish ==
    /\ pc = "rbFinish"
    /\ RemoveOk("fence") \/ RemoveErr("fence")
    /\ Continue
    /\ UNCHANGED <<certs, history, process, queue, memory, caddy>>

-----------------------------------------------------------------------------
\* restore_verified_locked: load the previous configuration and have it
\* confirmed, or else restart Caddy with it.
Reload ==
    /\ pc = "reload"
    /\ \/ LoadOk(activeJson) /\ Goto("reprobe")
       \/ LoadRejected /\ Goto("restart")
       \/ LoadUnknown(activeJson) /\ Goto("restart")
    /\ UNCHANGED <<files, certs, history, process, queue, memory>>

ReprobeReloads ==
    /\ pc = "reprobe"
    /\ \/ ProbeOk(activeCfg) /\ Continue
       \/ Goto("reload")
    /\ UNCHANGED <<files, certs, history, process, queue, memory, caddy>>

Reprobe ==
    /\ pc = "reprobe"
    /\ \/ ProbeOk(activeCfg) /\ Continue
       \/ Goto("restart")
    /\ UNCHANGED <<files, certs, history, process, queue, memory, caddy>>

RestartVerified ==
    /\ pc = "restart"
    /\ \/ Restart(activeJson) /\ available' = TRUE
       \/ StopCaddy /\ available' = FALSE
    /\ Continue
    /\ UNCHANGED <<initialized, activeJson, activeCfg,
                   files, certs, history, process, queue>>

-----------------------------------------------------------------------------
\* Caddy on its own: it dies, or carries out a load whose caller gave up.
CaddyDies ==
    /\ serving # Down
    /\ StopCaddy
    /\ UNCHANGED <<files, certs, history, process, queue, lock, memory>>

LateLoad ==
    /\ serving # Down /\ late # None
    /\ serving' = late /\ late' = None
    /\ UNCHANGED <<files, certs, history, process, queue, lock, memory>>

\* begin_shutdown: refuse new work.  The holder of the lock goes on, unless it is
\* the recovery task (AbortRecovery); past its drain deadline shutdown_until stops
\* Caddy under it, which is a CaddyDies here.
BeginShutdown ==
    /\ up /\ ~stopping
    /\ stopping' = TRUE
    /\ UNCHANGED <<up, files, certs, history, queue, lock, memory, caddy>>

\* shutdown_until aborts the recovery task at whatever await it has reached.  If it
\* holds the lock, the lock is free again and RuntimeState keeps what it had, while
\* the child it was stopping or starting may be gone or be up already.
AbortRecovery ==
    /\ stopping /\ op.cfg = None /\ pc \in InitialiseSteps \cup {"ensure"}
    /\ \/ UNCHANGED caddy
       \/ pc \in {"startRestored", "startBaseline"} /\ StopCaddy
       \/ pc = "startRestored" /\ serving = Down /\ Restart(op.json)
       \/ pc = "startBaseline" /\ Restart(Baseline)
       \/ /\ pc = "ensure" /\ ~(serving # Down /\ available)
          /\ Restart(activeJson) \/ StopCaddy
    /\ Release
    /\ UNCHANGED <<files, certs, history, process, queue, memory>>

\* The controller exits, after shutdown_until or by a crash at any step; the
\* entrypoint then takes the whole container down, Caddy included.
Forget ==
    /\ up' = FALSE /\ stopping' = FALSE
    /\ applySeq' = 0 /\ waiting' = {} /\ published' = 0
    /\ Release
    /\ initialized' = FALSE /\ available' = FALSE
    /\ activeJson' = Baseline /\ activeCfg' = None
    /\ material' \in index /\ index' = {material'}
    /\ StopCaddy
    /\ committed' = committed

Crash ==
    /\ up
    /\ Forget
    /\ UNCHANGED files

PowerLoss ==
    /\ LosePower
    /\ Forget

\* serve(): initialize() runs first, holding the lock, before requests are accepted.
Boot ==
    /\ ~up
    /\ up' = TRUE
    /\ pc' = "initialize" /\ op' = NoOp
    /\ UNCHANGED <<stopping, files, certs, history, queue, memory, caddy>>

-----------------------------------------------------------------------------
HolderStep ==
    \/ InitializeRestore \/ StartRestored \/ StartBaseline \/ EnsureRunning
    \/ Prepare \/ Fence \/ PersistSnapshot \/ PersistAuthority
    \/ Load \/ Probe \/ Commit \/ Finish \/ Publish
    \/ RollbackFence \/ RollbackSnapshot \/ RollbackAuthority \/ RollbackFinish
    \/ Reload \/ Reprobe \/ RestartVerified

Next ==
    \/ \E c \in Config : RequestApply(c)
    \/ \E w \in waiting : LockTimeout(w) \/ AcquireApply(w)
    \/ \E m \in Material : AcquireStaged(m) \/ CommitUnused(m)
    \/ Recover \/ ReadinessLost \/ HolderStep
    \/ CaddyDies \/ LateLoad
    \/ BeginShutdown \/ AbortRecovery \/ Crash \/ PowerLoss \/ Boot

Spec == Init /\ [][Next]_vars

\* Fairness.  Every await under the lock has a deadline (run_stage, the control
\* limits of engine.rs), so its holder goes on; a waiting task gets the lock or
\* times out; the recovery worker retries for ever on a fair mutex.  Caddy and
\* the state directories are assumed to work again at some attempt.
RestoreSucceeds == InitializeRestore /\ pc' = "startRestored"

StartSucceeds == (StartRestored \/ StartBaseline) /\ initialized'

RestartSucceeds == EnsureRunning /\ available'

Fairness ==
    /\ WF_vars(Boot)
    /\ WF_vars(HolderStep)
    /\ WF_vars(\E w \in waiting : LockTimeout(w) \/ AcquireApply(w))
    /\ SF_vars(Recover)
    /\ SF_vars(RestoreSucceeds)
    /\ SF_vars(StartSucceeds)
    /\ SF_vars(RestartSucceeds)

LiveSpec == Spec /\ Fairness

-----------------------------------------------------------------------------
Request == [seq : 1..MaxSeq, cfg : Config]

Operation == [cfg : Config \cup {None}, seq : 0..MaxSeq, staged : Material \cup {None},
              json : Json, fenced : BOOLEAN, then : {"idle", "rbFence", "reload"}]

FileValue(f) == IF f = "fence" THEN {None, Pending} ELSE Config \cup {None}

\* The types of the controller's, the files' and Caddy's state.
TypeOK ==
    /\ disk \in [File -> Value \cup {None}]
    /\ stable \in [File -> SUBSET (Value \cup {None})]
    /\ \A f \in File : disk[f] \in stable[f] /\ stable[f] \subseteq FileValue(f)
    /\ committed \in Config \cup {None}
    /\ material \in index /\ index \subseteq Material
    /\ up \in BOOLEAN /\ stopping \in BOOLEAN
    /\ applySeq \in 0..MaxSeq /\ published \in 0..MaxSeq
    /\ waiting \subseteq Request
    /\ pc \in Step /\ op \in Operation
    /\ initialized \in BOOLEAN /\ available \in BOOLEAN
    /\ activeJson \in Json /\ activeCfg = activeJson.cfg
    /\ serving \in Json \cup {Down} /\ late \in Json \cup {None}

\* Whatever survives a power loss at this instant, a restart recovers the
\* configuration committed last or starts the closed baseline, never an
\* unconfirmed, rolled back or mixed one (restore_active_configuration).
RecoveryIsCommitted ==
    \A d \in Surviving : Recoverable(d) \in {None, committed}

\* From the fence to its removal a crash starts the closed baseline: "fence
\* startup until Caddy confirms it" (apply_locked).
UnconfirmedStaysFenced ==
    op.fenced /\ pc \in {"snapshot", "authority", "load", "probe", "finish"}
        => \A d \in Surviving : Recoverable(d) = None

\* Memory and disk agree between operations: a restart comes up with the
\* configuration being served or closed, and with the served one whenever no
\* fence is left (restore_recovery_configuration, finish_configuration_activation).
AuthorityNotSplit ==
    up /\ pc = "idle" /\ activeCfg # None =>
        /\ \A d \in Surviving : Recoverable(d) \in {None, activeCfg}
        /\ disk["fence"] = None => Recoverable(disk) = activeCfg

\* Between operations, a running Caddy that the controller reports available
\* serves the reported revision and nothing is left that could change it later,
\* whatever failed before: aborted or late loads, rollbacks, failed restarts
\* (restore_verified_locked, ensure_running_locked).
TrafficMatchesReport ==
    up /\ pc = "idle" /\ available /\ serving # Down =>
        serving.cfg = activeCfg /\ late = None

\* A request never overwrites the outcome of a newer one (apply_sequence).
NewerNeverOverwritten ==
    [][published' # 0 => published' >= published]_vars

\* A configuration is committed for recovery only while Caddy serves its
\* revision, unless Caddy died since it confirmed it (apply_locked: probe
\* before finish_configuration_activation).
CommittedWasConfirmed ==
    [][committed' # committed => serving = Down \/ serving.cfg = committed']_vars

\* While a configuration uses the certificate, new material is committed only
\* when a restart would recover that configuration and Caddy, unless it just
\* died, already serves the material (apply_locked with a staged certificate;
\* needs AckMeansLoaded: the probe tells revisions apart, not materials).
CertificateCommitIsBacked ==
    [][material' # material /\ up' /\ activeCfg \in CertConfig =>
          /\ Recoverable(disk) = activeCfg
          /\ serving \in {Down, Render(activeCfg, material')}]_vars

\* The durable side of the protocol implements the abstract promise: the
\* candidate counts as verified from Caddy's confirmation to the unlink.
Authority == INSTANCE ConfigAuthority WITH
    current  <- committed,
    durable  <- Recoverable(disk),
    verified <- IF pc = "finish" THEN op.cfg ELSE None

\* ProxyApply implements ConfigAuthority.
ImplementsAuthority == Authority!Spec

\* Request s is waiting for the lock or being applied.
PendingApply(s) ==
    \/ \E w \in waiting : w.seq = s
    \/ pc # "idle" /\ op.seq = s

\* Every accepted apply request ends: applied, refused, failed or lost with
\* the process; no abort path loses the lock or loops (apply, apply_locked).
AppliesEnd == \A s \in 1..MaxSeq : PendingApply(s) ~> ~PendingApply(s)

\* Unless the controller stops, traffic comes back: a Caddy that died, failed
\* its probe or could not be restarted is up and confirmed again without any
\* request (start_recovery_worker, recover).
TrafficRecovers ==
    up /\ ~stopping ~> ~up \/ stopping \/ (available /\ serving # Down)
=============================================================================
