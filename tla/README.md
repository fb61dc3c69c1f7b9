# Haowork: models and proofs

TLA+ modules for Haowork, the governance layer for AI-native development whose
source is in `src/`. Every statement about the code below is read from the Go
source; paths are relative to `src/internal`.

## 1. Inventory

### Components, their state and their operations

| Component | State | Operations | What makes it correct |
| --- | --- | --- | --- |
| Governance reducer (`model/`) | none: a `ProjectState` computed from a history | `Reduce`, one apply function per event type | an event is admitted only in the state its transition needs; one replay for everybody |
| Team Core policy (`team/policy.go`) | none | `Authorize` | work of contributors and agents happens under a current lease; decisions only by the right human |
| Team Core service (`team/service.go`, `materializer.go`) | accepted log, canonical log, manifest goal version, writable flag | `Push`, `Pull`, `Status`, `ResolveConflict`, the commands, `New`, `Recover` | the accepted log reduces, holds every event once, is what was materialized |
| Conflicts (`team/conflict.go`) | conflicts in the project state | `DetectConflict`, `authorizeConflictResolution` | what diverges is decided by a human, once |
| Device synchronisation (`teamsync`) | replica, outbox, cursor per device | `Engine.Sync`, `Repository.Append`, `Outbox.Update`, `SaveConfig` | the replica is a prefix of the accepted log, the outbox tells the truth, nothing is lost |
| Team API (`teamapi`) | none | HTTP client and server of Team Core | a verdict reaches the engine |
| Application service (`app`) | the mutex of a process, the memory of its verifier, executor sessions | plan, approve, context, run, evidence, attribution, completion, approval, mission, binding, SCM commands | what was checked still holds when it is appended |
| Event store (`eventstore`) | a hash-chained file and its lock | append, batch append, import, read | what was answered as stored is read by everybody |
| Trace (`trace`) | append-only ledger | append, roots, observations, repair of a tail | one record per external key |
| Skills (`skillapi`, `skillruntime`) | the calls that are served | policy, approval, adapter, audit, promotion | a skill runs only as it was decided |
| Transfer (`transfer`, `transferhost`) | previews in memory, approvals and bindings in the log | preview, confirm, import, request, decide, return, export | what crosses is what a human confirmed or approved |
| Core Bridge (`corebridge`) | one document of missions and runs, in memory and in a file | start, sessions, evidence, the view of the MCP host | what is served has its history, what was answered stays |
| Local Core (`localcore`, `cli`) | core.json, three locks, processes | serve, ensure, open, stop | one core, and everybody finds it |
| Local API (`localapi`), index (`index`) | an index, subscribers, requests | write, history, snapshot, event stream | an answer is not older than its question, a page whose last fetch was answered is not behind what it was told |
| SCM (`app/scm.go`, `scm`, `model/scm.go`) | repository, commits and bindings in the log | register, observe, propose, confirm, reject, verify history | history is superseded, not rewritten |
| GitHub observer (`githubscm`, `app/scm_remote.go`) | observed facts in the log, a cursor with ETags in a file | connect, sync | no fact is skipped for good |
| AgentTeams bridge (`agentteamsbridge`) | resources in Kubernetes, a session per run | start, delegate, poll a room, cancel | a stop is not undone, an event acts once |
| Evidence, context slices, changes, CLI, benchmark, workbench | files | verify, select, scan, print | sequential computations and I/O |

### How they interact

A command or an API handler calls the application service, which reads a
history, reduces it and appends events. In a project that is joined to a team,
its repository is `teamsync.Repository`: it reads the replica of the accepted
log followed by the device's pending batches, and appends to the outbox.
`Engine.Sync` moves batches from the outbox to Team Core through
`teamapi.Client` and the accepted log into the replica. Team Core serialises
its calls with one mutex; behind it are two files (accepted and canonical log),
the manifest and a SQLite index. On a device there is no such mutex: the
replica, the outbox and the configuration have a lock per file and operation,
and the Local API server and each command line process run engines of their own.

On one project, the command line, the Local Core and the transfer host are
processes with an application service each. `mutationMu` serialises the
commands of one of them; between them there is only the event store, which
appends if the log is as long as the command read it. Outside the log the
services meet at files (`core.json` and its locks, the trace, the bridge's
document, the observer's cursor) and at systems of others: Kubernetes, a Matrix
room, GitHub, the refs of a repository.

### What is hard

- calls of the command API that read their baseline, let go of the lock and
  push against whatever was accepted since;
- batches that are judged on an old base and appended at the head;
- an answer that is lost, a request that is handled after its client gave up, a
  batch that is pushed again after a restart or after a conflict;
- attempts that stop between two of the files they write;
- two engines on one device;
- a materialization that fails or dies half-way, or never begins because the log
  could not be read again, and the restart after it;
- commands of two processes, prepared on the same log, of which one appends what
  was right only before the other;
- an append that leaves a piece of a line, a repair that dies, a replacement of a
  file that fails after the memory has moved on;
- a call that is repeated under its id while the state it was decided on moves;
- what a human saw and confirmed, and what is done when he has;
- two actors on a system that keeps no transaction for them: two syncs and their
  cursor, two bridges and one team, a core that ends while another starts.

`PROJECT.json` lists these hazards line by line with the properties about them.
One has no property: the cursor of a page is saved with its first event, and a
process that ends there never sees the others (`agentteamsbridge/transport.go:329`).
The model has that loss; no document promises otherwise, so there is nothing to
refute.

## 2. Modules

### Team collaboration

```
Governance ── TeamCore ─┬─ TeamCommands ── MCTeamCommands
                        ├─ TeamSync ─┬──── MCTeamSync
 SharedLog ─────────────┼────────────┘
                        └─ TeamCoreProofs ─┬─ CommandsProofs (of TeamCommands)
                                           └─ TeamSyncProofs ── SharedLogProofs
                                                (of TeamSync and its refinement)
```

**Governance** is the reducer and the policy as pure operators. `Reduce` folds
`Apply` over a history; `ok` is FALSE from the first event that is not admitted,
where `model.Reduce` returns an error. `Admits…` are the checks of the apply
functions and `ApplyType` their effects; `Authorize` is `Policy.Authorize`. What
is abstracted: a requirement has one task, so that one status stands for both;
a run is identified with its task; a task has one criterion, so that verifying
its evidence makes it Verified and invalidating it takes the task, a completed
one too, back to Verifying; a lease starts when it is issued, and its
context is current as long as it and its task are; scopes are paths, already
normalised; the principal is the actor of the event, since
`validatePrincipalClaims` refuses anything else; every actor but `"agent"` is
human. An event is a record of the fields these rules read.

**TeamCore** is the service: `accepted` and `canonical` are the two logs,
`manifest` the goal version in the manifest, `mode` the writable flag or the
absence of the process, `now` the injected clock. `Verdict` is everything
`Push` decides under the lock, in the order of the code: writable, reducible,
stored before (`StoredAt`), baseline, the preview event by event on the base
(`Preview`: policy, goal, transition), an open conflict of this batch,
`DetectConflict`, append. `Perform` appends and then materializes, as
`materializeAcceptedLocked` does for a new and for a stored batch alike.
`Commit` has one disjunct for each way the materialization can go: `Materialize`
(all of it), `LeaveUnread` (the log cannot be read again, or the caller's context
has ended: the call fails, and the service stays writable with its facts behind
the log), `StopMaterializing` (an I/O error or the end of the process after
any of its steps; the process is then read-only or gone), `CannotMaterialize`
(a log that does not reduce, or a canonical log that is not its prefix).
`Replied` tells whether the caller gets an answer.
`Restart` is `New` and `Recover`. `Resolutions` gives what `ResolveConflict`
may append for each action.

**TeamCommands** puts callers around it. `Build` is `commandState` and the event
that `pushCommand` makes, or what a device read from its replica; `Deliver` is
`Push`, in a later step, so that anything can happen between them; a device's
batch may be delivered `MaxTries` times, an API command once. `Resolve` is
`ResolveConflict`; a manual merge resubmits the retained candidate, which is the
replacement that can do most harm.

**TeamSync** puts devices around it. `pc[s]` follows `Engine.Sync`; each action
is one file operation or one remote call: `Start` (status), `Pull`, `Import`,
`Reconcile`/`Settle` (`reconcilePulled`, one outbox update per step),
`SavePulled`, `Preflight`/`Screen`/`Screened`, `Push`, `ImportPushed`,
`RecordVerdict`, `Advance`, `Finish`. The outbox is kept as the file is, a
sequence of records of which the last of a batch counts, because the order of
the entries follows from it. `Stop` ends an attempt anywhere; `PushUnheard` loses
the answer; `PushLate` and `DeliverLate` let Team Core handle a request whose
client is gone; `PushStale` is the stale baseline that another process on the
accepted log causes. `seen` is the cursor in the engine's memory: a server's
engine keeps it from one attempt to the next, a command's reads the saved one
(`Start` allows both). `Transport = "direct"` hands verdicts to the engine as
results; `"http"` is `teamapi.Client`, which makes errors of rejections and
conflicts (`Reported`).

**SharedLog** is what synchronisation promises: one log that only grows and
holds a record once, replicas that are growing prefixes of it, and batches held
to be confirmed only by a node whose replica has them. `TeamSync` implements it
(`ImplementsSharedLog`, with `accepted`, `local` and the accepted entries of the
outbox as the mapping), and so do two engines on one device.

### One project

```
Lifecycle ── MissionRules ── ProjectCommands ── Project ─┬─ MCProject
                                                         └─ ProjectProofs
```

**Lifecycle** and **MissionRules** are the rest of the reducer, each apply
function an operator that gives the set of states an event may lead to: one, or
none when the reducer returns an error. Lifecycle follows a task from plan to
completion (contexts, run, steps, checkpoints, executor events, evidence with
`recomputeTaskVerification`, attributed changes, the goal); MissionRules has the
agents and their runtime bindings, leases, approvals and missions, and the
dispatch of `Reduce`. A requirement has one task, a task at most one run (it
leaves Approved for good), the hash of an envelope or slice is its content, and
skills are granted as scopes are. These modules and Governance overlap in goals,
leases and tasks and are kept apart: Governance has what conflicts between
devices turn on (paths, terminal states, policy), Lifecycle what happens on one
log, and no state of one is needed to judge the other.

**ProjectCommands** has one operator per command of `app`: the batches it may
append in a state and workspace. A topology is bound as a whole: either all its
bindings are there already, or every agent of it gets a revision. A requested
approval names a mission, and may carry any risk and a hash that is not the
mission's. **Project** makes processes of them. A command
reads and prepares in one step (`WriteCommand`, `VerifyCommand`, …), may confirm
the workspace (`ConfirmChanges`), and appends if the log is as long as it read
it (`AppendIfUnchanged`): in between, anything of the other process, the host of
Team Core (`HostAppends`), the files (`EditFiles`) and the room (`LeaderPosts`)
can happen. `RunExecutorCommand` opens a session; `SyncPage`, `ConsumeEvent` and
`PollsRunOut` are its pages, where every event of a page carries the page's
cursor; `Restart` is the end of a process and its successor.
`ProjectSpec(start, limits)` is the specification from a log that reduces to
`start` and with the commands that `limits` allows; `MCProject` takes it at its
eight situations, the theorems at every log and all limits.

### Services

```
EventStore                 TraceLedger ── SkillRuntime     Transfer   CoreBridge
LocalCore   Provenance   RemoteObserver   LocalView   MissionTeam
                        all of them ── MCServices

BridgeProofs: MissionTeam, CoreBridge          StoreProofs: SkillRuntime (with its
ExchangeProofs: Provenance, RemoteObserver,                 trace), EventStore,
                Transfer                                    LocalView, LocalCore
```

These services share no state that their properties relate, so `MCServices`
runs one of them per behaviour, in eleven parts. Each service has a specification
of its own (`StoreSpec`, `SkillSpec`, `TransferSpec`, `BridgeSpec`, `CoreSpec`,
`ProvenanceSpec`, `RemoteSpec`, `ViewSpec`, `MissionTeamSpec`): the initial states
and the steps of its part of `MCServices`. The theorems are about these.

**EventStore** is the file: lines that carry hashes of all before them, an end
that is a newline, a line without one (`"open"`, which the scanner still reads)
or a piece. Every operation under the file lock is one step; what it leaves when
it fails is another (`FailedAppend`, `FailedBatch`, `FailedImport`). One event is
appended in place, a batch replaces the file.

**TraceLedger** is the trace file with its external keys and the repair that
writes the file again in place; **SkillRuntime** the call on top of it, one
action per record that it writes: `HandleToolsCall` looks the binding up,
`Invoke` decides, then root, decision, approval or start, adapter, finish,
audit, promotion, answer. `Governs` changes what the policy reads between any
two of them, a call may be served again or twice at once, `ServerDies` anywhere.

**Transfer** is a zone that receives capsules (`PreviewImport`, `ApplyImport`,
`CommitImport` agent by agent, `EndImport`) on what `Open` loaded once, while
configuration, bindings and goal move; and that returns its work
(`RequestApproval`, `DecideApproval`, `BuildReturn`, `Export`). A hash is what it
covers; what a verification of signature, digests and claims can find wrong is
one input.

**CoreBridge** keeps `document` in memory and `stateFile` on disk. `RegisterMission`
ensures the governance history in between, `StartSession` and `RecordRun` merge the
events of sessions that may run at once; `NotPersisted` is the replacement that
fails, which can leave no file at all.

**LocalCore** has the three lock files, `core.json` as the key in it, and the
commands `serve`, `open`, `stop` and the goroutine of `Ensure`, each a sequence of
lock, look, check, compare, remove, write. Checks of a core can fail without it
being gone, a wait can end, a process can be killed; its locks go, `core.json`
stays.

**Provenance** prepares SCM events on one snapshot of the log and one look at the
repository, whose branch moves and whose unreachable objects are pruned, and
appends if the log is unchanged. **RemoteObserver** is a sync with GitHub:
`PrepareSync` reads log and GitHub, `AppendFacts` appends, `CommitSync` saves the
cursor it had prepared, and another process may do all of it in between. One
local repository, one monitored branch, one pull request that stays open; log
and GitHub are read at one moment per sync; an ETag is the content it stands
for; a refused sync is no step; missions, tasks and evidence are facts of the
governance log that are current or not, and the payload hash of an approval is
the binding's id. Identity and fingerprint checks, pages, rate limits and the
look-back window are left out.

**LocalView** is what a Workbench sees: requests refresh the index from a log
they have read before (`RefreshIndex`, `RebuildIndex`), search it or fall back to
the log (`AnswerHistory`); a write appends, reads a snapshot and tells it
(`Snapshot`, `BroadcastCurrentState`); a message is dropped while the stream has
not taken the one before (`Offer`), or is on its way (`SendMessage`), and the page
that hears it shows it and fetches the project (`HearMessage`). A fetch is taken by a server that
is open, reads the log, and answers (`FetchProject`, `TakeProject`), or fails
anywhere (`FailFetch`); several may be under way, and the page shows
whatever arrived last. On a device the log ends in pending batches that a sync
settles, so that it can shrink; a page sees only the version of the log, so its
part runs on one log that is not a device's.

**MissionTeam** is the team of a mission in Kubernetes. A start applies its
resources one by one (`GetToApply` and `Apply` are the read and the update of
`apply`), reads the topology back, logs in as the human and delegates; a
cancelled session lists, stops (`StopObject`) and waits. The controller writes
phases in between and an operator may remove a resource. `copies` says whose
last version a bridge holds, which is what a resourceVersion tells. The identity
of a resource (mission, hash, controller, environment) is one value, one worker
stands for four, and `Discover`, the shape of resources, rooms, principals and
uploads are things that can fail (`Refused`).

The **MC** modules give the instances. Operators such as `HoldsLeaseOnce` or
`SavePulledFirst` that stand before the definition they vary are bugs that a
property is shown to catch; nothing else refers to them.

## 3. Runs

| Run | Instance and bounds | Shows |
| --- | --- | --- |
| `commands_leased` | owner, lead, contributor; one leased task; four requests: a run under the lease, approval of a goal change, renewal of the lease, its revocation by a batch that may come twice; two deliveries of a device batch, one fault, clock 0..1, log up to 10; about 431,000 states, three minutes | the log always reduces, retries get the same answer, nothing lands without its authority, at most one open conflict, what was answered as accepted is materialized, and whatever was interrupted a restart can repair |
| `commands_unscoped` | a completed task and the lease on it; four requests: rejection and approval of one goal change, a scoped proposal under the lease, a batch that invalidates the task's evidence and renews the lease; two deliveries of a device batch, no fault, clock 0..1, log up to 14; about 274,000 states | the log stops reducing only through a batch on a base that has moved, and what was decided about a conflict stays decided (but for the batches named under "Behaviours worth knowing") |
| `sync_http` | two devices with one engine each, three batches on one path, one stop or lost or late push, a second process on the log; about 184,000 states | replicas are prefixes, nothing accepted hides behind a cursor, no rejection is false, and the refinement of SharedLog |
| `sync_engines` | two engines on one device, two batches, one crash or failed materialization; about 130,000 states | with shared files, an accepted entry is in the replica, and the refinement still holds |
| `sync_live` | two devices, a batch each, direct transport, one stop, clock 0..1; about 41,000 states | every batch is judged, every acceptance reaches its device |
| `project` | two processes, eight situations (see below), 3 to 8 events; about 1,272,000 states, two and a half minutes | seven properties of what a project's log can come to hold |
| `services` | eleven parts, see below; about 1,677,000 states, three to four minutes | thirteen properties of the services |
| `commands_race` | two rejections of one change at once | **violation** of `AcceptedReducible` |
| `sync_preflight` | two engines on one device, no fault | **violation** of `RejectedIsNotAccepted` |
| `sync_verdict` | two devices, a conflict over HTTP | **violation** of `VerdictRecorded` |
| `sync_projection` | one stop after an import | **violation** of `ProjectionDistinct` |
| `project_replay` | the instance of `project` | **violation** of `LogReplays` |

Why the bounds are enough: each hazard needs at most two actors and one fault.
With two deliveries a batch is judged, retried, and retried after a conflict was
resolved; with one clock step a lease can be valid at the base and expired at
the head. The seed of `commands_leased` takes 5 events of its log of 10: all four
requests can be accepted, or a conflict be opened, resolved, and followed by a
retry. The seed of `commands_unscoped` takes 9 of 14, and leaves room for a conflict
about the completed task, its resolution, the two events that open the task again,
and the batch that is retried. That this happens shows the same instance with a proposal that names no
scope: TLC finds it accepted after its conflict was decided and the task opened
again, the exception that `DecidedStaysDecided` makes. In
`sync_http` one stop separates any two file operations, and both devices push
to the same path so that one of them conflicts. `MaxLog` stops only the start of
a call. Deadlock checking is off in every run: requests, deliveries, work and
changes are finite, and a system with nothing left to do stops. The instances
have no symmetry: actors have roles, requests differ.

**`project`** begins in one of eight situations, each with the operations that
make its hazards: from nothing to a finished run; candidates, evidence,
completion, goal and edits; scans, attributions, verification and edits; a
delegated run with a resumption and a restart; a delegated run while the goal
moves; steps and checkpoints; leases, approvals and missions, with two people;
bootstrapping and binding. A room holds two events, which one page or two may
bring.

| Property | States |
| --- | --- |
| `OnlyUncheckedBreakTheLog` | only the three commands of finding 5 can append what the reducer refuses; every other one is right however old its projection |
| `CompletionJustified` | a contextual task completes only on verified evidence of this run, goal and workspace, with every change credited |
| `ReopenedByEvidenceOnly` | a completed task is reopened only by a decision against a record |
| `EventActsOnce` | a run is stopped only by an executor event that was not recorded before |
| `SessionLeavesNoHole` | a session never goes on past an event it could not record |
| `RiskyMissionsApproved` | a risky mission was approved as it stands, by somebody else of the right rank |
| `RetryAddsNoRevision` | bindings are revised only when an agent of the topology moves: a repeated or raced topology adds no revision |

**`services`** has one part per service, so that its size is a sum:

| Part | Bounds | Property |
| --- | --- | --- |
| store | two writers, three events, two overlapping batches | `AnswersStay`: what was answered as stored is read later, in its place. `OnlyTornAppendsSpoil`: only a single append that failed can end the history |
| skill | two servers, two calls on one trace, each twice, one change of goal or lease | `RanAsDecided`: an adapter runs only after a recorded decision that allows it |
| import | two capsules, two agents, two imports, clock 0..1, two goals | `ImportAsConfirmed` |
| return | two bases, two entries, one approval | `ReturnAsApproved` |
| bridge | two requests at a time, two missions that give an agent different functions, a room of two | `MissionsFounded`, `EvidenceStays` |
| core | two processes, three cores | `CoreIsKnown`: one core serves, and `core.json` names it |
| provenance | two clients, one commit, missions of both kinds of confirmation, two proposals | `SupersededTakesBindings` |
| remote | two syncs, one move of the branch, two changes of the pull request | `CursorFollowsLog`: the cursor never spares GitHub from repeating what the log lacks |
| history | two requests, two changes of the log | `HistoryCurrent` |
| page | two requests, two changes, two fetches under way, two messages on their way | `LastAnswerCatchesUp`: a page that has heard all and shows the answer to its last fetch is not behind what it was told |
| team | two bridges, a manager and a worker, one removal, a human's name that is taken or not | `StopNotOverwritten`: a start that did not read a stop does not undo it |

Two writers, servers, syncs or bridges give every race of a pair; one commit is
observed, superseded and observed again; a capsule of two agents stops in the
middle; two versions of a log make an index older, equal and newer than what a
request reads, and two messages the second of which is dropped; three keys are a
core, its successor, and one that starts while both end.

### Fairness

Only `TeamSync!FairSpec` states fairness: a user who has pending work syncs again,
and an attempt that runs goes on (weak fairness of each engine's `Attempt`).
The engine itself has no retry loop (engine.go:41), so this is an assumption on
its callers, and the two liveness properties say what repeated attempts achieve.
Faults are bounded, so that they end. Team Core is never assumed to be started
again: `team serve` keeps a read-only service up and repairs nothing
(`cli/team_commands.go:33`), so that only an operator brings it back. That its
files are always such that he can is a safety property (`RestartCanRepair`).
`project` and `services` state no fairness either: nothing in the code retries
there, so what a page comes to show is stated for the moment when its last fetch
was answered (`LastAnswerCatchesUp`).

### Findings

1. **Two decisions, one log that no longer replays** (`commands_race`). The
   preview of a batch stops at its base and conflict detection knows scopes,
   leases, goal versions and terminal tasks, so two rejections of one goal
   change are both appended. `Status`, `Push` and `Recover` fail from then on.
   `OnlyMovedBaseBreaks` confines it: only a batch on a moved base does this.
2. **An accepted batch recorded as rejected** (`sync_preflight`). Two engines on
   one device; the preflight of one runs between the import and the outbox
   update of the other.
3. **A verdict taken for being offline** (`sync_verdict`). `teamapi.Client`
   returns conflicts and rejections as errors; the engine keeps the entry
   pending and everything behind it waits.
4. **A projection with a batch twice** (`sync_projection`), when an attempt ends
   between import and outbox update; offline commands fail until the next
   successful attempt.
5. **A log that no longer replays on one project** (`project_replay`). A second
   candidate verified when its task is verified, a mission issued again under
   its explicit id, and the bridge step of a run that is not running are
   appended without being reduced. `OnlyUncheckedBreakTheLog` confines it.

`sync_http` runs on the same transport as finding 3 and with one engine per
device, where `RejectedIsNotAccepted` holds; `sync_live` uses the direct
transport, on which finding 3 does not arise.

### Behaviours worth knowing

What the models do as the code does, and no document speaks against plainly
enough to call it a finding. The properties are stated around them, with the
exception named in their comment.

- *Team Core.* A service that a failed materialization has made read-only stays so,
  and `team serve` stays up with it, until an operator starts it again. When
  `materializeAcceptedLocked` cannot read the log again, or its context has ended,
  the call fails but the service stays writable: the batch is in the log, the facts
  are behind it, and the next materialization or restart brings them up.
- *Decisions.* Nothing remembers what was decided about a conflict. A decided batch
  stays out because its goal has passed, or because the event that opened the
  conflict has its scope. A batch that names no scope has neither, and comes in
  after all when the cause of its conflict goes away: a lease that was renewed to
  end sooner (`applyLeaseRenewed` takes any `ExpiresAt`) is renewed again, or a
  completed task is opened again because its evidence is invalidated.
  `DecidedStaysDecided` leaves these batches out.
- *Project.* When one agent of a topology moves, every agent of it gets a new
  binding revision, those that stay where they are included. `RequestApproval`
  prepares no mission: what it is asked for is compared only when the mission is
  issued. Refusing a second candidate of a completed task reopens it
  (`recomputeTaskVerification`). `Complete` invalidates evidence of another
  workspace before it asks for the authority to complete. A `cancelled`
  executor event leaves its task Running. After a goal change a task verified by
  legacy evidence can still complete. A process that ends inside a page loses
  the rest of the page. The verifier remembers a pass whose append failed. A
  mission whose `afterWrite` fails is reported as an error although it is in
  the log, which invites finding 5.
- *Event store.* A line that is torn or lacks its newline makes the next
  append, acknowledged as it is, the end of the history.
- *Trace.* A process that dies while it removes a tail loses records.
- *Skills.* A call that waited for an approval can never run under the same id,
  since its decision is recorded; an audit record repeated with another time
  diverges; the candidate sink of the MCP deployment always fails.
- *Transfer.* An import applied again is not recognised: it binds against the
  configuration loaded at `Open`, one batch after the other and unreduced. After
  a goal change every import spoils the zone's log. `Export` signs a manifest
  that looks like a return without an approval.
- *Core Bridge.* A mission that was refused stays in memory and is saved by a
  later request. An unbound retry starts a run again, and two starts at one time
  both do. The fallback of the replacement can remove the file.
- *Local Core.* After a check that failed for a moment, a new `serve` removes the
  metadata of the live core and waits for its lock holding the startup lock, so
  that `stop` blocks. `Ensure` may return before its goroutine serves.
- *SCM.* A binding still proposed when its commit is superseded can be confirmed
  afterwards. `stateHasSCMEvidence` compares with a status no event gives, so
  that invalidated evidence supports a binding. `VerifySCMHistory` fails as a
  whole when an observed object is pruned, and a superseded commit stays so when
  it is reachable again.
- *GitHub.* A cursor behind the log and a branch that moves refuse every later
  sync, since the previous commit does not match. When the list of pull requests
  changes and the commits answer 304, the pull request has no commits and is
  refused until a push. A second connect is always refused, also when the first
  one could not save its configuration. After a deletion of the branch is
  recorded every sync fails, and a branch re-created at the same commit stays
  deleted.
- *Local API.* The projection of a device shrinks when a batch is settled; when it
  has grown to the same length again its watermark is the one the index has, and
  `/api/v1/history` answers with events that are gone. Sync and conflict handlers
  neither refresh the index nor tell the page; `afterWrite` runs on the request's
  context, so a client that leaves tells nobody. The page
  shows whatever arrives last and does not repeat a fetch that failed: after a
  dropped message it stays behind when its last fetch fails or is overtaken by the
  answer to an earlier one, until something makes it fetch again.
- *AgentTeams.* `isObservedStopped` is satisfied by the `spec.state` that
  `stopObject` has just written, so the wait observes nothing. `BindHuman` spends
  the AppService token on its first attempt: a second start of the process can
  never log in, but has already applied, and revived, the team. A delegation
  that is sent again takes a new checkpoint behind the answer to the first one.
  A start that ends half-way leaves its resources, and a process that ends leaves
  its team running.

## 4. Proofs

Eight modules hold the theorems. Each is proved for every value of the constants
that satisfies the named assumptions, and each is about the definition that a run
checks on a small instance. Where a theorem states a run's property, TLC had found
no violation of it before it was proved; the strengthenings below are what TLC
cannot tell about.

### Team collaboration

| Theorem | Statement | About |
| --- | --- | --- |
| `CommandsInvariance` | `Spec => []CommandsInv` | batches whole and at one place; the state the log replays to is sound |
| `CommandTypes`, `FactsFollowTheLog`, `EventsAreAcceptedOnce`, `AnswersAreStable`, `OneConflictIsOpen`, `DecisionsLast` | `TypeOK`, `Materialized`, `AcceptedOnce`, `RetryStable`, `OneOpenConflict`, `DecidedStaysDecided` | follow from it |
| `RepairIsPossible` | `Spec => []RestartCanRepair` | wherever a call or the process stopped, `New` and `Recover` find facts that are a prefix of the log and a manifest that is not ahead of it |
| `OnlyStaleBatchesBreak` | `Spec => OnlyMovedBaseBreaks` | the confinement of finding 1 |
| `Invariance` (TeamSync) | `Spec => [](Inv /\ FunctionsOK)` | what an engine holds at each label |
| `TypeCorrect`, `ReplicasArePrefixes`, `CursorsStayBehind` | `TypeOK`, `ReplicaPrefix`, `CursorInReplica` | follow from it |
| `SharedInvariance` | `Spec => [](Inv /\ SharedInv)` | batches and ranges |
| `AcceptedEntriesAreHeld` | `Spec => []AcceptedIsInReplica` | the outbox tells the truth about acceptance |
| `Refinement` | `Spec => ImplementsSharedLog` | devices, engines and service implement SharedLog |
| `NothingIsHidden` | `OneEnginePerDevice => (Spec => []NothingHidden)` | a saved cursor never passes a batch the outbox has no verdict of |
| `RejectionsAreTrue` | `OneEnginePerDevice => (Spec /\ []LateRequestsFirst => []RejectedIsNotAccepted)` | what an outbox gives up was not accepted and never is |
| `EventsLandAuthorized` | `Spec => [][AuthorizedWhereReplayed]_vars` | an event of a caller that lands where the log replays up to it has its authority there |
| `AcceptedAsAuthorized` | `Spec /\ []AcceptedReducible => AuthorizedAtAcceptance` | so on a log that replays, all of them have |

`TeamCoreProofs` holds what both sides need: lemmas on sequences, prefixes and
ranges; that the accepted log only grows (`CommitAppends`); and the facts about a
batch. `AtOnePlace` says that a log has the events of a batch in a row at one
place, or none of them; a log where that holds of every batch keeps it when a
batch that is nowhere is appended (`BatchIsStored`) and when the service appends
events of its own (`StoredStays`). `VerdictOnBatch` lists what `Push` can do to a
batch: store it, open a conflict, find it where it is, or refuse it and append
nothing.

**TeamCommands.** No property alone is inductive. `RetryStable` needs that a stored
batch is found again, so `Kept` says of every event of the log whose it is: of the seed,
of the service (whose ids are positions), or of one batch, which stands at one place.
`OneOpenConflict` and `DecidedStaysDecided` turn on what `Reduce` computes, so `Sound`
relates the log to the state it replays to: the state is of its type (`IsState`), its
conflicts are those that events opened (`ConflictsOpened`), such an event is about a
batch that was built before, and carries its events and scope (`Openings`), decisions
are about such events, and a batch with an open conflict, or with a conflict that
carries a scope or is about a stale goal (`Remembered`), is not in the log
(`OpenKeptOut`, `ConflictKeptOut`). The last is the heart: when such a batch is pushed
again, `DetectConflict` finds a conflict again (`DetectedAgain`), because its scope
overlaps the event that opened the conflict, which the batch's base does not have, or
because its goal stays behind. `Materialized` and `RestartCanRepair` follow from
`FactsOK`: the facts are a prefix of the log, also where they were left behind
(`LeaveUnread`), and hold whatever a writable service has told, since a call that could
not read the log tells nothing.

To follow `Reduce` over a history, a fold, the proofs use its states: the fold is
the last state of a trace that starts with the first state and has one `Apply` for
each event (`ReplayRuns`), and no other sequence of states is (`RunIsUnique`). What
holds of the first state and is kept by `Apply` (`ApplyEffect`) therefore holds of
the last, by induction on the numbers up to the length of the history (`UpTo`), which
is stated for a set of numbers and so needs no operator as parameter. The same trace
with the codes of `PreviewCode` shows that a batch which the preview admits on the
head replays there (`PreviewReplays`), which is `OnlyStaleBatchesBreak`.

`Push` asks the policy on the base of a batch, and appends at the head.
`EventsLandAuthorized` is therefore about what changes the policy's answer in
between. What the reducer knows of a lease (its subject, task and scope) and of a
task (its runner and goal) never changes once it is known (`Knows`, `Later`), so a
refusal at the head would come of the goal, of the lease having ended, or of the
clock, and these are what `DetectConflict` looks at again; a step that moves a task
names it, so that its lease is the one looked at. The events of the batch itself do
the same on the base and on the head. Where the log does not replay (finding 1) the
reduced state stays what it was before the first event that was not admitted, and
says nothing of the head: hence `AuthorizedWhereReplayed` for all behaviours, and
`AuthorizedAtAcceptance` as a run checks it for those in which the log replays.

**TeamSync.** `ReplicaPrefix` alone is not inductive: an import takes what the engine
holds in `pulled` or what its `answer` names, so `Inv` also says that what an engine has
pulled is a part of the accepted log that starts after `seen` (`EnginesOK`), that the
answer it is about to import names a range within the log, and that `seen` and the saved
cursor lie within the replica. `SharedInv` adds what the batches need: a batch is at one
place and every event of the log is of the seed, the service or a batch (`LogInv`),
different batches have different names (`NamesInv`), a range that an outbox entry names
is the place of its batch (`RangesInv`), and so is what an engine holds of an answer or
of a pull before it writes it down (`HeldInv`). A batch is in the log whole and at one
place or not at all, so that the pull and the push, which learn of an acceptance in
different ways, record the same range. The refinement follows: an accepted entry's
records are in the replica, and no step takes an acceptance back.

`NothingHidden` needs one more strengthening, `SettledInv`. A position of the log is
settled for a device when it divides no batch and every batch before it has its
verdict in the outbox (`Settled`). The saved cursor is at such a position, and `SettledAt`
says of each engine what makes the next one settled: `seen` is; what it pulled
ends where no batch is divided, and what of it is reconciled has its record; a
verdict that moves the cursor is written down first (`Recorded`). The
theorem assumes one engine per device (`OneEnginePerDevice`), as in the instance of
`sync_http`: with two, one can import a batch and not have settled it yet while
the other records a verdict behind it and moves the cursor, so `SettledInv` is not
kept. That alone does not refute the property: variants of `sync_engines` that checked
it found no violation.

`RejectedIsNotAccepted` rests on `JudgedInv`: what a device gave up is not pending, not
with a request that is under way, and nowhere in the log (`GivenUpForGood`); and once
an engine has pulled, what is pending is nowhere but for its own push, what it sends
is pending, and a refusal it is about to record is of a batch that is nowhere
(`JudgedAt`). Both hypotheses are needed. With a second engine, that one's import falls
between a pull and a preflight (finding 2). And with one engine, a request that its
client gave up can be handled after the next attempt has refused the batch: when two
owners reject one goal change, the preflight of the one whose request is under way
refuses its batch locally, and Team Core, whose base is older, accepts it. TLC finds
this as a violation of the property without `LateRequestsFirst`, which says that a
request that outlived its client is handled before its device's next attempt; the
instance of `sync_http` does not reach it, because its batches change no goal. With the
hypothesis, TLC found `JudgedInv` kept on three instances (up to 724,000 states).

### One project

| Theorem | Statement | About |
| --- | --- | --- |
| `ProjectInvariant` | `[]ProjectInv` | the reduced state is consistent, and what every process has prepared fits the log it read |
| `UncheckedOnlyBreakTheLog` | `OnlyUncheckedBreakTheLog` | the confinement of finding 5 |
| `CompletionsJustified` | `CompletionJustified` | a completion that is appended is justified at the moment it is |
| `ReopenedOnlyByEvidence` | `ReopenedByEvidenceOnly` | what is completed stays so but for a decision against a record |
| `EventsActOnce` | `EventActsOnce` | an executor event stops a run once |
| `SessionsLeaveNoHole` | `[]SessionLeavesNoHole` | a session that goes on has recorded all before |
| `RisksAreApproved` | `[]RiskyMissionsApproved` | no risky mission without its approval |
| `RetriesAddNoRevision` | `RetryAddsNoRevision` | a topology whose agents all stay where they are adds no revision, repeated or raced |

Each is of the form `ProjectSpec(ReducedBatch(Initialized, history), limits) => ...` for
every history of well-formed events (`WellFormedBatch`) and all limits: `ReducedBatch`
reduces as far as the reducer admits, so the log need not replay. The reducer would
admit a revision that repeats the one before it; that the commands revise bindings only
when an agent moves is what `RetriesAddNoRevision` says: they look at the bindings, and
append only if the log has not grown since. `ProjectInvariant` has a state that is
`Sound` in place of the history, and `InitializedIsSound` and `BatchIsConsistent` lead
from one to the other.

`ProjectInv` is proved in four steps. Each event of the reducer, admitted in a
consistent state, leads to a consistent one (`Consistent`: a run's status fits its
task's, evidence is of a task under verification or verified, a candidate of the current
goal) and keeps what later events may rely on (`Good`: no run is stopped twice by an
event, a decided approval stays as it is, bindings change by their own event only). A
batch is a run of such events, followed by induction on the numbers up to its length, as
in TeamCommands. Each command offers only batches that the reducer takes in the state it
read, except the three of finding 5. And a process holds what it prepared together with
the length of the log that it read: the log is still that long, in which case the state
is the one it read, or longer, in which case its append is refused; a session stands at
an event before which all of its pages are recorded, whatever others append. TLC had
checked `ProjectInv` on all the states of the instance of `project` before it was
proved.

### Services

| Theorem | Statement | Inductive invariant |
| --- | --- | --- |
| `AnswersOfTheStoreStay` | `StoreSpec => []AnswersStay` | `StoreInv`: the lines are numbered and their ids distinct; while the file can be read, every answered event is at its place; no id was answered with two |
| `OnlyTornAppendsLeaveAnOpenEnd` | `StoreSpec => []OnlyTornAppendsSpoil` | with the shape of the file |
| `AdaptersRanAsDecided` | `SkillSpec => []RanAsDecided` | `SkillInv`: unless a repair of the tail was cut short, a call in an allowed phase has its decision in the ledger, one that goes on has its start, and a start is recorded only behind a decision |
| `ReturnIsAsApproved` | `TransferSpec => []ReturnAsApproved` | `ReturnInv`: a decided approval was decided by an owner other than the requester, and a signed return has the hash of an approved one |
| `ImportIsAsConfirmed` | `TransferSpec => []ImportAsConfirmed` | `ImportInv`: what an import has written is the first of what was confirmed, a preview not yet written is what the loaded configuration asks for, and of an agent that has not drifted the configuration has the current revision |
| `ServedMissionsAreFounded` | `BridgeSpec => []MissionsFounded` | `MissionsInv`: every mission in memory but the refused has its project and agents in the log, and the file has no other missions |
| `EvidenceIsKept` | `BridgeSpec => []EvidenceStays` | `RunsInv`: the events of a run are the first of its room, in memory and in the file; memory has every event of the file, until the file was removed; a session that ended joins where its run stands |
| `ReadsAreCurrent` | `MissionTeamSpec => []TeamInv` | a bridge that holds the version of a resource has read the resource as it is |
| `StopIsNotOverwritten` | `MissionTeamSpec => StopNotOverwritten` | follows from it |
| `PreparedIsOfItsLog` | `ProvenanceSpec => []ProvenanceInv` | what is prepared names every confirmed binding of the commits it supersedes, unless the log has grown |
| `NoBindingOutlivesItsCommit` | `ProvenanceSpec => SupersededTakesBindings` | follows from it |
| `CursorIsNeverAhead` | `RemoteSpec => []CursorFollowsLog` | `RemoteInv`: the log as a prepared sync would leave it has everything the prepared cursor skips, as long as the log has not grown since; once appended, the log has it |
| `HistoryIsCurrent`, `PageHasCaughtUp` | `ViewSpec => []HistoryCurrent`, `[]LastAnswerCatchesUp` | `ViewInv`: of the versions held by index, requests and log the longer has the events of the shorter, while no pending batch was settled; of a page with a stream and no message on its way, the last fetch, once it has read the log, has what was told, and so does the page when it shows that answer |
| `TheCoreIsKnown` | `CoreSpec => []CoreIsKnown` | `CoreInv`: whoever looks at or changes `core.json` does it under the startup lock, its own or that of the `Ensure` waiting for it; a core serves under its lock; and the key about to be removed is not one of a core that serves, doubted ones excepted |

### Assumptions

TLC evaluates each of them in the runs of its module.

- `RolesAssumption`, `SeedAssumption`, `SyncAssumption`, `WorkAssumption`: the types of
  the constants, and that the history a service is set up on replays.
- `NamesAssumption` (in TeamCommands and TeamSync): no two batches share an id, and
  the seed and the service use none of theirs. Ids have a time and 48 random bits
  (`idgen/generator.go`).
- `RequestsAssumption` (TeamCommands): callers submit steps of their work, and one
  that moves a task names the task; conflicts are opened and resolved by the service
  alone, which builds those events itself.
- `IdsAssumption`, `FunctionsAssumption`, `RoomAssumption` (the project's modules): the
  empty id is no task's and no function's, evidence has finitely many ids, the baseline
  is one of the workspace's versions, and the size of a room is a number.
- `TopologiesAssumption` (Project): a topology gives finitely many of the agents a
  function that exists.
- `HistoriesAssumption`: batches and chains of the event store are sequences.
- `ArchivesAssumption`, `SettingsAssumption`: the types of capsules and settings; a
  binding has a revision of at least 1, since `transferhost/provider.go:197` refuses
  any other.
- `RequestsAssumption` (CoreBridge): a request names a project, and rooms are finite.
- `IdentityAssumption`: `"nobody"`, which stands for a resource that is not there, is
  no identity, and a team has at least one resource that runs.
- `CommitsAssumption`, `MaxPullAssumption`, `ProcessesAssumption`: finitely many
  commits are observed, the bound is a number, and nobody is not a process.

### Only model-checked

- `AcceptedReducible` is false in general (finding 1); a run shows it on an instance
  without the race.
- `RejectedIsNotAccepted` beyond the two hypotheses of `RejectionsAreTrue`, and
  `AuthorizedAtAcceptance` once the log does not replay: both are false there.
- `NothingHidden` where several engines serve one device is neither proved nor part of
  a run.
- Liveness (`EveryBatchJudged`, `AcceptanceReachesDevice`,
  `VerdictRecorded`), which the proof system does not do under fairness.

## 5. Not modelled

- Team collaboration: authentication, JSON and HTTP framing, `LeaseUnconfirmed`,
  the sync report, the skills and environments of a lease, cancelled tasks, the
  identity scopes of conflicts (design, evidence). `DetectTransferConflicts` is a
  pure function that only tests call.
- Reducer: missions and approvals that are cancelled or invalidated by an event no
  command emits, capsule events.
- Services: signatures, digests and archive formats; schemas, registry documents
  and credentials of skills; replay and redaction of the trace; an external
  `Starter` of the Local Core (`LocalManager.Ensure` is called by tests only);
  sessions, uploads and routing of the Local API; the SQL of the index; Matrix,
  S3 and Higress requests, the rendering of Kubernetes resources and the legacy
  client of the AgentTeams bridge.
- Sequential computations on files: context slices, the scanner, benchmarks,
  patch skills, physical acceptance, the command line's parsing and printing.

Every component and its status is in `PROJECT.json`.

## 6. Plan

Done: all modules of section 2 and the theorems of section 4. Next:

1. **TeamSync**: `NothingHidden` where several engines serve one device, which needs an
   invariant that follows a batch through an import of one engine and a verdict of the
   other at once.
2. **Project**: `TypeOK` as a theorem. The other theorems do without it, since what
   they need of a state's type is part of `Sound`.

Liveness stays with TLC.
