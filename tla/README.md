# Verification of RentnerProxy

TLA+ modules, TLC models and TLAPS proofs for the parts of RentnerProxy that
decide which proxy configuration serves traffic, which one survives a restart,
and what administrators are told about it. Paths below are relative to `src/`.

## The system

RentnerProxy is a reverse-proxy manager in one container:

- the **web service** (`web/`, Bun) keeps the desired configuration in
  PostgreSQL and runs the background workers;
- the **controller** (`core/`, Rust) validates a configuration, renders it for
  Caddy, persists it and drives Caddy; it also owns the certificate store, ACME,
  DNS providers, dynamic DNS, CrowdSec and Docker discovery;
- **Caddy** is the controller's child process and the data plane. It is loaded
  through a Unix admin socket, and a second socket returns the revision it serves;
- **Valkey**, **CrowdSec** and the **backup supervisor** run next to them;
  `docker/production/entrypoint.sh` ends the container when any of them ends.

A change travels as follows. A mutation service commits it to the database and
calls `reconcile()`. One worker of the web service loads a snapshot and sends it
to the controller. The controller takes the apply lock, writes the snapshot
behind a fence file, has Caddy load it, asks Caddy which revision it serves,
removes the fence and reports the revision. The worker loads again, and answers
"applied" if nothing changed meanwhile. A drift check and the controller's
recovery worker repair what failures leave behind.

### Inventory

| Part | State | Operations | What is hard about it |
| --- | --- | --- | --- |
| Apply protocol (`core/src/runtime/apply.rs`, `configuration.rs`) | apply lock and sequence, active configuration, fence, snapshot and authority files | apply, certificate replacement, fence, persist, finish, rollback of files, rollback of traffic | crashes and failures between any two steps, superseded requests, late loads |
| State directory (`state.rs`) | files | atomic write, remove, sync | a visible rename or unlink that a power loss undoes |
| Runtime lifecycle (`lifecycle.rs`) | initialised, available, stopping | initialise, ensure running, recover, readiness, shutdown | fallback to the closed baseline, recovery without requests |
| Caddy process (`engine.rs`, `engine/maintenance.rs`) | child slot, stopping flag | start, load, probe, terminate, hand over to backups | unknown outcomes after timeouts, death at any time |
| Runtime reconciler (`web/src/server/Foundation/runtime-reconciler.server.ts`) | request counters, worker, wake-up, shared flight, drift timer | reconcile, worker loop, drift check, start, stop | shared answers, stale snapshots, lost wake-ups, late applies |
| Certificate store (`core/src/runtime/certificates/`) | index, materials, candidates and manifests, leases | stage, commit, discard, recover, collect | two stores to keep consistent, failures after a rename |
| ACME, retries, cancellation (`acme*`, `retry.rs`, `scheduling.rs`, `renewal.rs`) | orders, deadlines, attempts | issue, defer, cancel, renew | deadlines that combine, cancellation against completion |
| Manual DNS (`certificates/manual_dns*`) | order phases | publish, confirm, expire | long-lived state across restarts |
| Event journal and its synchronisation (`operations.rs`, `certificate-events.worker.ts`) | bounded journal, cursor, receipts | append, fetch, persist batch, prune | truncation and reset, duplicate batches |
| Certificate jobs (`certificate-jobs.*.ts`) | job rows with leases | claim, issue, save, bind, confirm, release | expired leases, late answers, crash between controller and database |
| CrowdSec provider (`crowdsec/*`, `supervisor.sh`) | desired and active provider, supervisor mode | switch, roll back | Caddy restarts under another provider, persistence failing after it |
| Dynamic DNS, Docker discovery | schedules, paused flags, plans | tick, execute, reconcile | stale plans |
| Backups and restore (`docker/production/backups/`) | journal, phase, state directories | export, validate, replace, resume | interruption between two renames |
| Everything else (rendering, diagnostics, logs, authentication, imports, notifications, live updates, UI) | - | - | pure functions, read-only views, or one transaction per request |

`PROJECT.json` lists the same parts with their files and what is modelled of
each, and every hazard with the line where it bites.

## Modules

| Module | Models |
| --- | --- |
| `SafeDir` | the state directory: what is visible, and what may survive a power loss |
| `ProxyApply` | the apply protocol, initialisation, recovery and shutdown, and Caddy as the controller sees it; uses `SafeDir` |
| `ConfigAuthority` | the abstract promise about restarts that `ProxyApply` implements |
| `RuntimeReconciler` | the web service's reconciliation worker and its callers, with the controller reduced to what the worker sees of `ProxyApply` |
| `MCProxyApply`, `MCRuntimeReconciler` | the TLC instances |
| `ProxyApplyTypes_proofs`, `ProxyApply_proofs`, `ProxyTraffic_proofs`, `RuntimeReconciler_proofs` | theorems and proofs |

Definitions that no other definition uses and that stand before a mapped one
(`NeverSuperseded`, `FenceErrorIgnored`, `EnqueueWithoutWake`, ...) are mutants:
plausible bugs of the definition that follows. Each property is refuted by TLC
when one of them takes its definition's place.

### ProxyApply

`disk` and `stable` are the fence, the configuration snapshot and the authority
record. `disk[f]` is what the process reads, `stable[f]` the set of
contents `f` may have after a power loss; a directory sync settles all of them.
`pc` and `op` are the holder of `apply_lock` and the operation it carries out;
`waiting` and `applySeq` are the spawned tasks before the lock and
`apply_sequence`. `initialized`, `available`, `activeJson` and `activeCfg` are
`RuntimeState` and `active_configuration`. `serving` is what Caddy serves, `late`
a load it may still carry out after its caller gave up. `material` is the
certificate material the store has committed in memory, `index` the materials a
restart may find in the index file. `committed` and `published` are history.

Each file operation and each call to Caddy is one action, because the process
can die, the power fail, Caddy die, or a request arrive between any two of them,
and because each can fail:

| Actions | Code |
| --- | --- |
| `RequestApply`, `LockTimeout`, `AcquireApply` | `apply`: number, wait for the lock, compare the number |
| `AcquireStaged`, `CommitUnused` | `apply_staged_for_active`, with or without a host that uses the certificate |
| `InitializeRestore`, `StartRestored`, `StartBaseline`, `EnsureRunning` | `initialize_locked`, `ensure_running_locked` |
| `Prepare`, `Fence`, `PersistSnapshot`, `PersistAuthority`, `Load`, `Probe`, `Commit`, `Finish`, `Publish` | `apply_locked` in its order |
| `RollbackFence`, `RollbackSnapshot`, `RollbackAuthority`, `RollbackFinish` | `restore_recovery_configuration` |
| `Reload`, `Reprobe`, `RestartVerified` | `restore_verified_locked` |
| `Recover`, `ReadinessLost` | the recovery worker, `is_ready` |
| `BeginShutdown`, `AbortRecovery`, `Crash`, `Boot` | `begin_shutdown`, `shutdown_until` while the recovery task holds the lock, its end or the death of the process, `serve` |
| `CaddyDies`, `LateLoad`, `PowerLoss` | the environment |

An abort has up to two parts, traffic and files, in an order that depends on
where the operation failed (`op.then`); `Continue` and `Abort` are that control.
`shutdown_until` leaves an apply that holds the lock running, since it is a spawned
task of its own, but aborts the recovery task wherever it is (`AbortRecovery`); past
the drain deadline it stops Caddy under the holder, which is a `CaddyDies`. The model
does not tell the initialisation of `serve` from one by the recovery task, so it also
allows a shutdown during the former, where the code would just be killed (`Crash`).
A rendered configuration is abstracted to its revision and to the material of
one certificate, present if the configuration has a host bound to it.

### RuntimeReconciler

The code is single-threaded, so one action is what runs between two awaits. A
database read or a controller call has one action for the moment its value is
determined and one for the continuation: `LoadReads` and `LoadReturns`,
`LatestReads` and `LatestReturns`. `pc`, `target`, `snapshot` and `latest` are the
worker; `requested` counts requests since the last completed one (the code's
`requested - completed`), which keeps the counter bounded; `wake` is
`wakeResolver`; `flight` is `publicFlight` with its waiter; `drift` is the check
in progress, which reads the database and the controller concurrently and hence
in either order. A caller is one administrator's change: `Save` is the transaction
of a mutation service (`updateProxyHostService` and its like), reduced to the
revision it makes the desired one, and `Reconcile` its call of `reconcile()`.

The controller is `arriving`, `newest`, `holder` and `active`: requests on the
way, the newest one waiting for the lock, the one applied now, and the active
revision. This is `ProxyApply` seen through its endpoint, by the properties
established there: a newer number makes older ones fail unless they hold the lock
(`NewerNeverOverwritten`), a failed apply leaves the active revision
(`TrafficMatchesReport`), a restart recovers it or the baseline
(`RecoveryIsCommitted`), every apply ends (`AppliesEnd`). A request the worker
gave up on stays there as late.

## What is checked

| Run | Configuration | Shows |
| --- | --- | --- |
| `apply_safety` | `ProxyApplySafety.cfg` | `RecoveryIsCommitted`, `UnconfirmedStaysFenced`, `AuthorityNotSplit`, `TrafficMatchesReport`, `NewerNeverOverwritten`, `CommittedWasConfirmed`, `ImplementsAuthority`, `TypeOK` (416,820 states) |
| `apply_certificate` | `ProxyApplyCertificate.cfg` | `CertificateCommitIsBacked` (409,380 states) |
| `apply_liveness` | `ProxyApplyLiveness.cfg` | `AppliesEnd`, `TrafficRecovers` (61,526 states) |
| `reconciler_safety` | `ReconcilerSafety.cfg` | `AppliedIsConfirmed`, `NoApplyAfterStop`, `ReconcilerTypeOK` (1.9 million states up to symmetry) |
| `reconciler_answers` | `ReconcilerAnswers.cfg` | `CallersAnswered` (213,792 states) |
| `reconciler_liveness` | `ReconcilerLiveness.cfg` | `Converges` (542,318 states) |

**Bounds.** `ProxyApply`: two configurations, of which one uses the certificate,
two materials and two numbered requests per life of the process (`MaxSeq`). Two
configurations are the previous one and the candidate; with the baseline that is
every configuration an operation or its rollback can confuse. Two requests are an
older and a newer one. Crashes, power losses, deaths of Caddy and failures of the
storage are unbounded, and so are certificate replacements. The liveness run has
one configuration, the one that uses the certificate: the abort paths do not
depend on which configuration they restore. `RuntimeReconciler`: two callers and
two revisions (the safety run), `MaxBacklog` requests that are not completed, and
`MaxFaults` failures, timeouts and restarts. A backlog of three is one request
from `start()`, the drift check or a caller more than two callers can share. The
liveness run has one caller, since `Converges` is about the last change only, and
two faults, enough for a timed-out request that is carried out after the one that
followed it. The answers run has no faults, since it gives the worker and the
controller no fairness: a hung call is one that never returns.

**Symmetry** of callers and revisions is used in the safety run only.

**Deadlock** is checked for `ProxyApply`. It is not for `RuntimeReconciler`: after
`stop()` the worker has left and nothing remains to be done.

**Fairness.** `ProxyApply`: the container restarts (`Boot`); the lock holder goes on
since every await under the lock has a deadline (`run_stage`, the control limits
of `engine.rs`); a task waiting for the lock gets it or times out; the recovery
worker, which retries for ever on a fair mutex, gets its turn (strong fairness);
and starting Caddy and reading the state directory succeed at some attempt
(strong fairness), without which no code could restore traffic. `AnswerSpec` has
fairness for timers and promise continuations only. `Converges` assumes that the
event loop runs its continuations, that `start()` is called and the interval
fires, and that calls to the database and the controller end; faults are finitely
many, by the bound. All of it is weak fairness.

### Properties

- `RecoveryIsCommitted`: whatever survives a power loss at this instant, a restart
  recovers the configuration committed last or the closed baseline.
- `UnconfirmedStaysFenced`: between the fence and its removal a restart comes up
  closed.
- `AuthorityNotSplit`: between operations memory and disk agree.
- `TrafficMatchesReport`: between operations an available Caddy serves the reported
  revision, and no load is left that could change it later.
- `NewerNeverOverwritten`: a request never overwrites a newer one's outcome.
- `CommittedWasConfirmed`: a configuration is committed only while Caddy serves its
  revision, unless Caddy died since it confirmed it.
- `CertificateCommitIsBacked`: while the active configuration uses the certificate,
  new material is committed only when a restart recovers that configuration and
  Caddy, unless it died, serves the material; if Caddy's 200 can be trusted.
- `ImplementsAuthority`: the files implement `ConfigAuthority`.
- `AppliesEnd`, `TrafficRecovers`: no abort path loses the lock, and traffic comes
  back without a request.
- `AppliedIsConfirmed`: when a flight settles as applied, the controller has confirmed
  a revision desired at or after the change of everyone who shares it.
- `NoApplyAfterStop`: a stopped worker sends nothing.
- `CallersAnswered`: every caller gets a status, even if nothing answers.
- `Converges`: the controller ends up with the desired configuration.

### Observations

These are consequences of the code that no document contradicts.

- The probe tells revisions apart, not materials. A certificate replacement is
  confirmed by Caddy's 200 to the load alone, hence `AckMeansLoaded` in
  `apply_certificate`; without it `CertificateCommitIsBacked` does not hold.
- Initialisation with a running child only verifies the revision. If rendering
  the host sources failed after a successful start and certificate material was
  committed before the next attempt, Caddy serves the older material until the
  next apply. `TrafficMatchesReport` is about the revision for this reason.
- A fence whose write failed after the rename stays. Certificate replacements are
  refused and a restart comes up closed until the next successful apply.
- After a fallback to the baseline a failing apply's rollback removes the recovery
  snapshot, as the active configuration is then the baseline.
- A caller that joins a flight between its settlement and its `finally()` gets that
  flight's status. This takes a continuation in the same microtask drain;
  `AppliedIsConfirmed` is about the callers aboard at settlement.

## What is proved

For every set of configurations, materials, callers and revisions and every value
of the bounds, from the named assumptions on the constants
(`ConstantsAssumption`, `ReconcilerAssumption`) only:

| Theorem | States |
| --- | --- |
| `TypeCorrect`, `RecoverySafe`, `FenceSafe`, `AuthoritySafe` | the invariants `TypeOK`, `RecoveryIsCommitted`, `UnconfirmedStaysFenced`, `AuthorityNotSplit` |
| `Refinement` | `Spec => ImplementsAuthority` |
| `TrafficSafe`, `CommitSafe` | `TrafficMatchesReport`, `CommittedWasConfirmed` |
| `NewestWins` | `NewerNeverOverwritten` |
| `CertificateSafe` | if `AckMeansLoaded`, `Spec => CertificateCommitIsBacked` |
| `ReconcilerTypeCorrect`, `AppliedIsEarned` | `ReconcilerTypeOK`, `AppliedIsConfirmed` |

**Recovery.** `RecoveryIsCommitted` is not inductive: a step that removes the fence
is safe only because of what was settled behind it. `RecoveryInv` adds it.
`FenceGuardsFiles`: if the fence may be absent after a power loss, a snapshot and an
authority that may survive together name the committed configuration.
`BehindFence`: from the fence to the commit or the end of the rollback the fence is
on stable storage, and the files written so far are settled. `AbortOrder`: which
part of an abort may still follow. `OperationOK`: what the operation holds at each
step; in particular an operation without a fence re-applies what disk recovers.
`ActiveOK`: the active configuration is the committed one, and what disk recovers
unless a fence is left. The proof has one step
per action; types come first (`ProxyApplyTypes_proofs`), since they need
`OperationOK`.

**Refinement.** `current` is `committed`, `durable` what `disk` recovers, `verified`
the candidate between the probe and the unlink. Each step is one of `Verify`,
`Commit`, `Abandon`, `Close` and `Reopen`, or a stutter.

**Traffic.** `TrafficInv` says that a load that may still be carried out exists only
in the steps before the restart that ends it, and what Caddy can serve at each
step. `QueueInv` relates the holder's number to the published one. `StagedInv`
follows a certificate replacement from the lock to its commit.

**Reconciler.** `EarnedInv` says that while the worker's target is the newest
request, its snapshot was desired at or after the change of every caller aboard the
flight, and that past the apply the snapshot is the confirmed revision. Joining a
flight counts a request, so the worker's comparison of its target with the counter
is what makes the premise hold when it completes a target.

Liveness (`AppliesEnd`, `TrafficRecovers`, `CallersAnswered`, `Converges`) is outside
the proof system's reach and is model-checked only. `NoApplyAfterStop` is
model-checked only so far.

## What is not modelled

- Rendering, validation and revision hashing: pure functions; equal contents have
  equal revisions, and the model identifies a configuration with its revision.
- The disabled mode of the reconciler (`enabled === false`), which does nothing, and
  drift checks that overlap because one took longer than the interval.
- The hand-over of Caddy to the backup supervisor (`engine/maintenance.rs`).
- `apply_crowdsec`, which takes the same lock and restarts Caddy with the active
  configuration and another provider.
- The certificate store beyond the commit of staged material.
- In the appliance a controller restart restarts the web service too; a controller
  that restarts alone, as in native development, is the harder case and is modelled.

## Plan

1. `CertificateStore`: leases, candidates, manifests, the index and its failures,
   recovery at start, collection of unused material; refinement of the part that
   `ProxyApply` models.
2. `CertificateEvents`: the bounded journal with truncation and reset, the cursor, the
   receipts; no event is audited twice, none is skipped unless a reset says so.
3. `CertificateJobs`: leases against late answers; a job issues at most once per
   operation, and binds only what was issued for it.
4. `CaddyProcess`: the child slot, `stopping`, termination and the hand-over to
   backups, at the granularity of the slot's lock.
5. `CrowdSecSwitch`: the provider switch under the apply lock, with its rollback.
6. Retry scheduling (`scheduling.rs`) as pure operators against a reference.
7. `RestoreJournal`: replacing the state directories and resuming after a crash.
8. Dynamic DNS and Docker discovery workers.
9. Proofs: `NoApplyAfterStop`, the certificate store's invariant and its refinement,
   the lease and cursor invariants.
