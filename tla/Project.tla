------------------------------ MODULE Project ------------------------------
(***************************************************************************)
(* Several processes over one project's log: the command line, Local Core, *)
(* the transfer host, each with its own application service.  mutationMu   *)
(* serialises the commands of a process; between processes there is only   *)
(* the compare-and-append of the event store.  So a command is two steps:  *)
(* it reads the log and the workspace and prepares a batch, and later      *)
(* appends the batch if the log still has the length it read.  Nothing     *)
(* reduces the extended log before it is written, except for the batch of  *)
(* an executor event.                                                      *)
(***************************************************************************)
EXTENDS ProjectCommands

CONSTANTS Processes, Actors, Drafts, MaxRoom,
          Risks,               \* the risk levels an approval may be requested at
          Topologies,          \* what is bound: by agent, [function, env, principal]
          CheckpointRequired   \* MatrixCheckpointRequired, of the production bridge

ASSUME RoomAssumption == MaxRoom \in Nat

ASSUME TopologiesAssumption ==
  \A topology \in Topologies :
    /\ DOMAIN topology \subseteq Agents /\ IsFiniteSet(DOMAIN topology)
    /\ \A a \in DOMAIN topology : topology[a].function \in Functions

VARIABLES
  st,       \* Reduce of the project's log
  count,    \* the length of the log
  files,    \* the workspace: the version of every file
  cmd,      \* per process, the command that holds its mutationMu
  session,  \* per process, the executor session it consumes
  checked,  \* per process, the digest its verifier last passed, by record
  room,     \* the events the delivery leader has posted, by run
  bound     \* what this behaviour may use, never changed: the operations, the
            \* actors, and the number of events it may add to the log

vars == <<st, count, files, cmd, session, checked, room, bound>>

Idle == [phase |-> "idle"]
NoSession == [task |-> None]

ProjectInit(start, limits) ==
  /\ st = start
  /\ count = 0
  /\ files = [p \in Paths |-> Baseline]
  /\ cmd = [p \in Processes |-> Idle]
  /\ session = [p \in Processes |-> NoSession]
  /\ checked = [p \in Processes |-> [e \in Evidence |-> None]]
  /\ room = [t \in Tasks |-> <<>>]
  /\ bound = limits
-----------------------------------------------------------------------------
(***************************************************************************)
(* A command takes mutationMu, reads a log that reduces, and prepares.     *)
(***************************************************************************)
Ready(p, operation) ==
  /\ operation \in bound.operations
  /\ cmd[p] = Idle /\ st.ok
  /\ count < bound.events

Prepare(p, batches, scan) ==
  \E batch \in batches :
    cmd' = [cmd EXCEPT ![p] = [phase |-> IF scan = None THEN "append" ELSE "confirm",
                               batch |-> batch, read |-> count, scan |-> scan,
                               starts |-> None, consumes |-> FALSE]]

WriteCommand(p, operation, batches) ==
  /\ Ready(p, operation)
  /\ Prepare(p, batches, None)
  /\ UNCHANGED <<st, count, files, session, checked, room, bound>>

PlanCommand(p)  == WriteCommand(p, "plan", Plan(st))
ApproveCommand(p) ==
  \E a \in bound.actors : WriteCommand(p, "approve", Approve(st, a))
BuildContextCommand(p) == WriteCommand(p, "context", BuildContext(st))
StartRunCommand(p) ==
  \E a \in bound.actors : WriteCommand(p, "run", StartRun(st, a))
FinishRunCommand(p) ==
  \E a \in bound.actors : WriteCommand(p, "finish", FinishRun(st, a))
RecordScanCommand(p) == WriteCommand(p, "scan", RecordScan(files))
AttributeChangeCommand(p) == WriteCommand(p, "attribute", AttributeChange(st))
RecordCandidateCommand(p) ==
  WriteCommand(p, "candidate", RecordEvidenceCandidate(st))

\* Verify and Complete scan again, after the checks, before they append.
VerifyCommand(p) ==
  /\ Ready(p, "verify")
  /\ Prepare(p, Verify(st, files), files)
  /\ UNCHANGED <<st, count, files, session, checked, room, bound>>

CompleteCommand(p) ==
  /\ Ready(p, "complete")
  /\ \E t \in Tasks, a \in bound.actors :
       LET batches == Complete(st, files, t, a) IN
       Prepare(p, batches,
               IF \A b \in batches : Completes(b) THEN files ELSE None)
  /\ UNCHANGED <<st, count, files, session, checked, room, bound>>

\* The verifier remembers a pass before the event is appended.
VerifyEvidenceCommand(p) ==
  /\ Ready(p, "evidence")
  /\ \E e \in Evidence, sound \in BOOLEAN :
       LET batches == VerifyEvidence(st, files, e, checked[p][e], sound) IN
       /\ Prepare(p, batches, None)
       /\ checked' = IF \A b \in batches : b[1].type = "evidence.verified"
                     THEN [checked EXCEPT ![p][e] = files] ELSE checked
  /\ UNCHANGED <<st, count, files, session, room, bound>>

RequestApprovalCommand(p) ==
  \E d \in Drafts, risk \in Risks, a \in bound.actors :
    WriteCommand(p, "request", RequestApproval(st, d, risk, a))
DecideApprovalCommand(p) ==
  \E a \in bound.actors, x \in Approvals, v \in {"approved", "rejected"} :
    WriteCommand(p, "decide", DecideApproval(st, x, v, a))
IssueMissionCommand(p) ==
  \E d \in Drafts, a \in bound.actors : WriteCommand(p, "mission", IssueMission(st, d, a))
BindRuntimeCommand(p) ==
  \E topology \in Topologies, a \in bound.actors :
    WriteCommand(p, "bind", BindRuntimeTopology(st, topology, a))
BootstrapCommand(p) ==
  \E topology \in Topologies, a \in bound.actors :
    WriteCommand(p, "bootstrap", BootstrapRuntimeTopology(st, topology, a))
-----------------------------------------------------------------------------
(***************************************************************************)
(* RunExecutor and the AgentTeams session.  An event of a session carries  *)
(* the cursor of the page it came in, so the cursor moves past the whole   *)
(* page when its first event is recorded.                                  *)
(***************************************************************************)
CurrentExecutionRun(s, t, actor) ==
  /\ s.run[t].status # "none" /\ s.run[t].goal = s.goal
  /\ s.task[t].goal = s.goal
  /\ s.run[t].context # None /\ CurrentContext(s, s.run[t].context, t)
  /\ OwnsRun(s, t, actor)

\* resolveMissionManagerBinding
ManagerBound(s, t) ==
  LET mine == {m \in s.missions : m.task = t} IN
  /\ Cardinality(mine) = 1
  /\ \A m \in mine :
       /\ m.goal = s.run[t].goal /\ m.context = s.run[t].context
       /\ "manager" \in DOMAIN m.assign
       /\ LET history == s.binding[m.assign["manager"]] IN
          /\ history # <<>>
          /\ Last(history).active /\ Last(history).env = m.env

StepCommand(s, actor) ==
  {<<[type |-> x[1], task |-> x[2], step |-> x[3]]>> :
     x \in {y \in {"run.step.started", "run.step.finished"} \X Tasks \X Steps :
              /\ CurrentExecutionRun(s, y[2], actor)
              /\ s.run[y[2]].status = "Running"
              /\ IF y[1] = "run.step.started" THEN s.step[y[3]].run = None
                 ELSE s.step[y[3]] = [run |-> y[2], status |-> "started"]}}

StepsCommand(p) == \E a \in bound.actors : WriteCommand(p, "steps", StepCommand(st, a))

ResumeRun(s, actor) ==
  {<<[type |-> "run.resumed", task |-> t, cursor |-> s.run[t].cursor]>> :
     t \in {u \in Tasks : /\ CurrentExecutionRun(s, u, actor)
                          /\ s.run[u].status \in {"Paused", "Failed"}
                          /\ s.run[u].cursor # 0}}

ResumeRunCommand(p) ==
  \E a \in bound.actors : WriteCommand(p, "resume", ResumeRun(st, a))

CreateCheckpoint(s, actor, cursors) ==
  {<<[type |-> "checkpoint.created", task |-> x[1], step |-> None, cursor |-> x[2]]>> :
     x \in {y \in Tasks \X cursors :
              /\ CurrentExecutionRun(s, y[1], actor)
              /\ s.run[y[1]].status = "Running"}}

CreateCheckpointCommand(p) ==
  \E a \in bound.actors :
    WriteCommand(p, "checkpoint", CreateCheckpoint(st, a, 1..MaxRoom))

BridgeStep == CHOOSE s \in Steps : TRUE

\* Where the transport starts to read: the run's cursor, or the end of the
\* room when there is none or a fresh checkpoint is required.
StartCursor(s, t) ==
  IF CheckpointRequired \/ s.run[t].cursor = 0 THEN Len(room[t]) ELSE s.run[t].cursor

OpenSession(t) ==
  [task |-> t, since |-> StartCursor(st, t), first |-> StartCursor(st, t),
   page |-> <<>>, more |-> TRUE]

\* RunExecutor first makes sure of the bridge step, under the lock.
RunExecutorCommand(p) ==
  /\ Ready(p, "execute") /\ session[p] = NoSession
  /\ \E t \in Tasks, a \in bound.actors :
       /\ CurrentExecutionRun(st, t, a) /\ ManagerBound(st, t)
       /\ IF st.step[BridgeStep].run = t
          THEN session' = [session EXCEPT ![p] = OpenSession(t)] /\ UNCHANGED cmd
          ELSE /\ st.step[BridgeStep].run = None
               /\ cmd' = [cmd EXCEPT ![p] =
                    [phase |-> "append", read |-> count, scan |-> None,
                     batch |-> <<[type |-> "run.step.started", task |-> t,
                                  step |-> BridgeStep]>>,
                     starts |-> t, consumes |-> FALSE]]
               /\ UNCHANGED session
  /\ UNCHANGED <<st, count, files, checked, room, bound>>

\* Events: the next page of the room, when the last one is used up.
SyncPage(p) ==
  LET s == session[p] IN
  /\ s # NoSession /\ s.page = <<>> /\ s.more
  /\ \E next \in s.since + 1 .. Len(room[s.task]) :
       session' = [session EXCEPT
         ![p].page = [i \in 1 .. next - s.since |-> s.since + i],
         ![p].since = next,
         ![p].more = next < Len(room[s.task])]
  /\ UNCHANGED <<st, count, files, cmd, checked, room, bound>>

\* Empty pages end the session after EmptyMatrixPollLimit polls.
PollsRunOut(p) ==
  LET s == session[p] IN
  /\ s # NoSession /\ s.page = <<>> /\ s.since >= Len(room[s.task])
  /\ session' = [session EXCEPT ![p] = NoSession]
  /\ UNCHANGED <<st, count, files, cmd, checked, room, bound>>

ExecutorBatch(t, source, cursor) ==
  <<[type |-> "checkpoint.created", task |-> t, step |-> BridgeStep, cursor |-> cursor],
    [type |-> "executor.event.received", task |-> t, step |-> BridgeStep,
     kind |-> room[t][source], source |-> source, cursor |-> cursor]>>

\* consumeExecutorEvent: an event the log has is skipped; one that cannot be
\* recorded ends the session.
ConsumeEvent(p) ==
  LET s == session[p]
      batch == ExecutorBatch(s.task, Head(s.page), s.since)
      rest == IF Len(s.page) = 1 /\ ~s.more THEN NoSession
              ELSE [s EXCEPT !.page = Tail(@)]
  IN /\ cmd[p] = Idle /\ s # NoSession /\ s.page # <<>>
     /\ count < bound.events
     /\ IF ~st.ok \/ ~CurrentExecutionRun(st, s.task, st.run[s.task].actor)
        THEN session' = [session EXCEPT ![p] = NoSession] /\ UNCHANGED cmd
        ELSE IF HasExecutorEvent(st, s.task, Head(s.page))
        THEN session' = [session EXCEPT ![p] = rest] /\ UNCHANGED cmd
        ELSE IF ~ReducedBatch(st, batch).ok
        THEN session' = [session EXCEPT ![p] = NoSession] /\ UNCHANGED cmd
        ELSE /\ cmd' = [cmd EXCEPT ![p] =
                  [phase |-> "append", read |-> count, scan |-> None,
                   batch |-> batch, starts |-> None, consumes |-> TRUE]]
             /\ UNCHANGED session
     /\ UNCHANGED <<st, count, files, checked, room, bound>>
-----------------------------------------------------------------------------
(***************************************************************************)
(* The second half of a command.                                           *)
(***************************************************************************)
\* confirmCurrentChanges: the workspace must still be what was scanned.
ConfirmChanges(p) ==
  /\ cmd[p].phase = "confirm"
  /\ cmd' = [cmd EXCEPT ![p] = IF files = @.scan THEN [@ EXCEPT !.phase = "append"]
                                                ELSE Idle]
  /\ UNCHANGED <<st, count, files, session, checked, room, bound>>

\* Mutant: the rest of the page goes with its first event.
AfterAppendDropsPage(p) ==
  LET s == session[p] IN
  IF cmd[p].starts # None THEN OpenSession(cmd[p].starts)
  ELSE IF ~cmd[p].consumes THEN s
  ELSE [s EXCEPT !.page = <<>>]

AfterAppend(p) ==
  LET s == session[p] IN
  IF cmd[p].starts # None THEN OpenSession(cmd[p].starts)
  ELSE IF ~cmd[p].consumes THEN s
  ELSE IF Len(s.page) = 1 /\ ~s.more THEN NoSession
  ELSE [s EXCEPT !.page = Tail(@)]

\* AppendIfUnchanged and AppendBatchIfUnchanged, atomic under the store's
\* file lock: the batch is written when the log has not grown.
\* Mutant: a log that only grew is taken to be unchanged.
LogOnlyGrew(p) == count >= cmd[p].read

LogUnchanged(p) == count = cmd[p].read

AppendIfUnchanged(p) ==
  /\ cmd[p].phase = "append"
  /\ cmd' = [cmd EXCEPT ![p] = Idle]
  /\ IF LogUnchanged(p)
     THEN /\ st' = ReducedBatch(st, cmd[p].batch)
          /\ count' = count + Len(cmd[p].batch)
          /\ session' = [session EXCEPT ![p] = AfterAppend(p)]
     ELSE /\ session' = [session EXCEPT ![p] = IF cmd[p].consumes THEN NoSession ELSE @]
          /\ UNCHANGED <<st, count>>
  /\ UNCHANGED <<files, checked, room, bound>>
-----------------------------------------------------------------------------
(***************************************************************************)
(* The surroundings of the service.                                        *)
(***************************************************************************)
\* Team Core materializes an accepted batch into the log of its host.
HostAppends ==
  LET leased == {<<[type |-> "lease.issued", lease |-> l, subject |-> d.assign["build"],
                    task |-> d.task, context |-> d.context, env |-> d.env,
                    scope |-> d.scope]>> : l \in MissionLeases, d \in Drafts}
      revoked == {<<[type |-> "lease.revoked", lease |-> l]>> : l \in MissionLeases}
      goal == {<<[type |-> "goal.change.proposed"]>>, <<[type |-> "goal.change.approved"]>>}
  IN \E batch \in (IF "lease" \in bound.operations THEN leased \cup revoked ELSE {}) \cup
                  (IF "goal" \in bound.operations THEN goal ELSE {}) :
       /\ count < bound.events /\ st.ok
       /\ ReducedBatch(st, batch).ok
       /\ st' = ReducedBatch(st, batch)
       /\ count' = count + Len(batch)
       /\ UNCHANGED <<files, cmd, session, checked, room, bound>>

EditFiles ==
  /\ "edit" \in bound.operations
  /\ \E p \in Paths, v \in Versions :
       v # files[p] /\ files' = [files EXCEPT ![p] = v]
  /\ UNCHANGED <<st, count, cmd, session, checked, room, bound>>

\* The delivery leader posts to the room while a session is open.
LeaderPosts ==
  \E t \in Tasks, kind \in Kinds :
    /\ \E p \in Processes : session[p].task = t
    /\ Len(room[t]) < MaxRoom
    /\ room' = [room EXCEPT ![t] = Append(@, kind)]
    /\ UNCHANGED <<st, count, files, cmd, session, checked, bound>>

\* A process dies and its successor starts with nothing in memory.
Restart(p) ==
  /\ "restart" \in bound.operations
  /\ cmd' = [cmd EXCEPT ![p] = Idle]
  /\ session' = [session EXCEPT ![p] = NoSession]
  /\ checked' = [checked EXCEPT ![p] = [e \in Evidence |-> None]]
  /\ UNCHANGED <<st, count, files, room, bound>>

ProcessStep(p) ==
  \/ PlanCommand(p) \/ ApproveCommand(p) \/ BuildContextCommand(p)
  \/ StartRunCommand(p) \/ FinishRunCommand(p) \/ RecordScanCommand(p)
  \/ AttributeChangeCommand(p) \/ RecordCandidateCommand(p) \/ VerifyCommand(p)
  \/ CompleteCommand(p) \/ VerifyEvidenceCommand(p) \/ RequestApprovalCommand(p)
  \/ DecideApprovalCommand(p) \/ IssueMissionCommand(p) \/ BindRuntimeCommand(p)
  \/ BootstrapCommand(p) \/ StepsCommand(p) \/ ResumeRunCommand(p)
  \/ CreateCheckpointCommand(p) \/ RunExecutorCommand(p) \/ SyncPage(p)
  \/ PollsRunOut(p) \/ ConsumeEvent(p) \/ ConfirmChanges(p) \/ AppendIfUnchanged(p) \/ Restart(p)

Next == (\E p \in Processes : ProcessStep(p)) \/ HostAppends \/ EditFiles \/ LeaderPosts

\* A project whose log reduces to start, within limits.
ProjectSpec(start, limits) == ProjectInit(start, limits) /\ [][Next]_vars
-----------------------------------------------------------------------------
(***************************************************************************)
(* Properties.                                                             *)
(***************************************************************************)
\* What every variable holds: service.go's and verifier.go's fields.
TypeOK ==
  /\ st.ok \in BOOLEAN /\ count \in Nat
  /\ files \in [Paths -> Versions]
  /\ \A p \in Processes :
       /\ cmd[p].phase \in {"idle", "confirm", "append"}
       /\ session[p].task \in Tasks \cup {None}
       /\ checked[p] \in [Evidence -> [Paths -> Versions] \cup {None}]
  /\ \A t \in Tasks :
       /\ st.task[t].status \in {"none", "Draft", "Approved", "Running",
                                 "Verifying", "Verified", "Completed"}
       /\ room[t] \in Seq(Kinds)

\* The log always reduces: what AppendIfUnchanged is said to ensure
\* (eventstore/jsonl.go).
LogReplays == st.ok

(***************************************************************************)
(* A log stops to reduce only by three commands that append what they did  *)
(* not check: a second candidate verified once the task is verified, a     *)
(* mission issued again under its id, and the bridge step of a run that no *)
(* longer runs.  No other command, prepared on a projection however old,   *)
(* can write an event the reducer refuses (service.go, evidence.go,        *)
(* approval.go, execution.go).                                             *)
(***************************************************************************)
Unchecked(c) ==
  \/ /\ c.batch[1].type = "evidence.verified"
     /\ st.task[c.batch[1].task].status \in {"Verified", "Completed"}
  \/ /\ c.batch[1].type = "mission.issued"
     /\ \E m \in st.missions : m.id = c.batch[1].envelope.id
  \/ /\ c.starts # None
     /\ st.run[c.starts].status # "Running"

OnlyUncheckedBreakTheLog ==
  [][st.ok /\ ~st'.ok =>
       \E p \in Processes : cmd[p].phase = "append" /\ Unchecked(cmd[p])]_vars

(***************************************************************************)
(* An executor event acts once: however often a room delivers it, to       *)
(* whichever process, and across resumed runs and restarts, a run is       *)
(* stopped only by an event that was not recorded before (execution.go,    *)
(* reducer.go).                                                            *)
(***************************************************************************)
EventActsOnce ==
  [][\A t \in Tasks :
       (/\ st'.run[t].status \in {"Paused", "Failed", "Cancelled"}
        /\ st'.run[t].status # st.run[t].status) =>
       \E x \in st'.received :
         /\ x.run = t
         /\ \A y \in st.received : <<y.run, y.source>> # <<t, x.source>>]_vars

(***************************************************************************)
(* A session leaves no hole behind it: every event of the pages it read,   *)
(* up to the one it is at, is in the log.  A session that failed to record *)
(* one is gone (RunExecutor cancels it), so it never goes on past it.      *)
(***************************************************************************)
SessionLeavesNoHole ==
  st.ok => \A p \in Processes : session[p] # NoSession =>
    \A i \in session[p].first + 1 .. session[p].since - Len(session[p].page) :
      HasExecutorEvent(st, session[p].task, i)

(***************************************************************************)
(* A task with contextual evidence is completed only while a verified      *)
(* record of its run, at the current goal and of the workspace confirmed   *)
(* for this completion, is in the log, with every change credited: nothing *)
(* another process did since the command read the log can undo that        *)
(* (Complete in service.go).                                               *)
(***************************************************************************)
CompletionJustified ==
  [][\A t \in Tasks :
       (st'.task[t].status = "Completed" /\ st.task[t].status = "Verified") =>
       \E p \in Processes :
         /\ cmd[p].phase = "append" /\ Completes(cmd[p].batch)
         /\ ~Uncredited(st, cmd[p].scan, t)
         /\ Contextual(st, t) # {} =>
              HasCurrentVerifiedEvidence(st, t, cmd[p].scan)]_vars

\* A completed task is reopened only by a decision against evidence, never
\* by a goal change, a scan or a late executor event (recomputeTaskVerification).
ReopenedByEvidenceOnly ==
  [][\A t \in Tasks :
       (st.task[t].status = "Completed" /\ st'.task[t].status # "Completed") =>
       \E e \in Evidence : /\ st.evidence[e].task = t
                           /\ st.evidence[e].status \in {"candidate", "verified"}
                           /\ st'.evidence[e].status = "invalidated"]_vars

(***************************************************************************)
(* A risky mission was approved as it stands: one approved request carries *)
(* its hash, decided by a person of the rank its risk asks for who is not  *)
(* the requester (approval.go, applyMissionIssued).                        *)
(***************************************************************************)
RiskyMissionsApproved ==
  \A m \in st.missions : ApprovalRequired(m.risk) =>
    \E a \in Approvals :
      /\ st.approval[a].status = "approved" /\ st.approval[a].hash = m
      /\ st.approval[a].requester # st.approval[a].decider
      /\ HasRole(st.approval[a].decider,
                 IF m.risk = "L3" THEN {"owner"} ELSE {"lead", "reviewer"})

(***************************************************************************)
(* The bindings are revised only when the runtime of an agent changes: a   *)
(* topology that is bound already, retried by the bridge or raced by       *)
(* another process, adds no revision to any of its agents                  *)
(* (BindRuntimeTopology and appendIfUnchanged; an agent that stays where   *)
(* it is gets a revision along with one that moves).                       *)
(***************************************************************************)
RetryAddsNoRevision ==
  [][st'.binding # st.binding =>
       \E a \in Agents :
         /\ st'.binding[a] # <<>>
         /\ st.binding[a] # <<>> => Last(st'.binding[a]) # Last(st.binding[a])]_vars
=============================================================================
