--------------------------- MODULE ProjectProofs ---------------------------
(***************************************************************************)
(* For every number of processes, tasks, records and files, from whatever  *)
(* log a project has: what the commands append, and what the executor's    *)
(* sessions record, keeps what the properties of Project say.              *)
(*                                                                         *)
(* The argument has four parts.  The reducer, event by event: each event   *)
(* keeps the shape of the state and changes runs, approvals, completed     *)
(* tasks and bindings only as its type may (Good), and runs and evidence   *)
(* go with the status of their task (Consistent).  Batches: a recursive    *)
(* function is a chain of such events (BatchRuns).  The commands: each     *)
(* offers a batch the reducer admits in the state it was prepared in       *)
(* (Offers), apart from the three that check too little.  The processes:   *)
(* a command that still can be appended has read the whole log, so it      *)
(* offers now what it offered then (ProjectInv).                           *)
(***************************************************************************)
EXTENDS Project, FiniteSetTheorems, SequenceTheorems, WellFoundedInduction, TLAPS

\* The events of a log, and the parts of the state they reduce to.
EventTypes ==
  {"goal.change.proposed", "goal.change.approved", "requirement.planned",
   "requirement.approved", "context.issued", "context.superseded", "run.started",
   "run.step.started", "run.step.finished", "checkpoint.created",
   "executor.event.received", "run.resumed", "run.finished", "evidence.recorded",
   "evidence.candidate.recorded", "evidence.verified", "evidence.invalidated",
   "task.completed", "changes.scanned", "change.attributed",
   "agent.identity.registered", "agent.runtime.bound", "lease.issued",
   "lease.revoked", "approval.requested", "approval.decided",
   "approval.invalidated", "mission.issued"}

Fields ==
  {"goal", "change", "task", "context", "run", "step", "received", "evidence",
   "changed", "credited", "agent", "binding", "lease", "approval", "missions", "ok"}

IsSequence(s) == s \in Seq(Range(s))

LEMMA MemberIsSequence ==
  ASSUME NEW S, NEW s \in Seq(S)
  PROVE  IsSequence(s)
BY SeqOfRange DEF IsSequence

\* The domain of a sequence.
LEMMA SequenceDomain ==
  ASSUME NEW s, IsSequence(s)
  PROVE  Len(s) \in Nat /\ DOMAIN s = 1..Len(s)
BY LenProperties DEF IsSequence

\* A table of records, by id.
Table(f, ids, fields) == DOMAIN f = ids /\ \A i \in ids : DOMAIN f[i] = fields

TaskTable(f) == Table(f, Tasks, {"status", "goal"})
ContextTable(f) == Table(f, Contexts, {"task", "goal", "superseded"})
RunTable(f) == Table(f, Tasks, {"status", "goal", "context", "actor", "cursor"})
StepTable(f) == Table(f, Steps, {"run", "status"})
EvidenceTable(f) == Table(f, Evidence, {"status", "task", "context", "goal", "digest"})
LeaseTable(f) ==
  Table(f, MissionLeases, {"status", "subject", "task", "context", "env", "goal", "scope"})
ApprovalTable(f) ==
  Table(f, Approvals, {"status", "subject", "hash", "risk", "requester", "decider"})

BindingTable(f) == DOMAIN f = Agents /\ \A a \in Agents : IsSequence(f[a])

\* What the fields are: each step of the reducer leaves them so.
Shape(s) ==
  /\ DOMAIN s = Fields /\ s.ok \in BOOLEAN
  /\ DOMAIN s.change = {"status", "base"}
  /\ TaskTable(s.task) /\ ContextTable(s.context) /\ RunTable(s.run)
  /\ StepTable(s.step) /\ EvidenceTable(s.evidence)
  /\ DOMAIN s.agent = Agents /\ BindingTable(s.binding)
  /\ LeaseTable(s.lease) /\ ApprovalTable(s.approval)

\* What a step of the reducer changes besides F is nothing.
Same(s, t, F) == DOMAIN t = Fields /\ \A f \in Fields \ F : t[f] = s[f]

Stopped == {"Paused", "Failed", "Cancelled"}

\* A run is stopped by an event that was not received before.
ActsOnce(s, t) ==
  /\ s.received \subseteq t.received
  /\ \A k \in Tasks :
       (t.run[k].status \in Stopped /\ t.run[k].status # s.run[k].status) =>
         \E x \in t.received :
           x.run = k /\ \A y \in s.received : <<y.run, y.source>> # <<k, x.source>>

\* Who decides an approval may, and did not ask for it.
DecidedProperly(s) ==
  \A a \in Approvals : s.approval[a].status = "approved" =>
    /\ s.approval[a].requester # s.approval[a].decider
    /\ CanDecideApproval(s.approval[a].decider, s.approval[a].risk)

\* A risky mission has an approval of its very envelope.
RisksApproved(s) ==
  \A m \in s.missions : ApprovalRequired(m.risk) =>
    \E a \in Approvals : /\ s.approval[a].status = "approved"
                         /\ s.approval[a].hash = m /\ s.approval[a].risk = m.risk

ApprovalsKept(s, t) ==
  /\ DecidedProperly(s) => DecidedProperly(t)
  /\ RisksApproved(s) => RisksApproved(t)

\* A task is completed, and reopened, by events of two types.
TasksKept(s, e, t) ==
  \A k \in Tasks :
    /\ t.task[k].status = "Completed" /\ s.task[k].status # "Completed" =>
         e.type = "task.completed" /\ e.task = k
    /\ s.task[k].status = "Completed" /\ t.task[k].status # "Completed" =>
         e.type = "evidence.invalidated" /\ e.task = k

\* A decision against evidence is of a record of its task, and of no other.
EvidenceKept(s, e, t) ==
  e.type = "evidence.invalidated" =>
    /\ s.evidence[e.evidence].status # "none"
    /\ s.evidence[e.evidence].task = e.task
    /\ \A i \in Evidence :
         /\ t.evidence[i].task = s.evidence[i].task
         /\ t.evidence[i].status = IF i = e.evidence THEN "invalidated" ELSE s.evidence[i].status

\* Bindings change by one type of event.
BindingsKept(s, e, t) ==
  e.type # "agent.runtime.bound" => t.binding = s.binding

\* Event e takes s to t and does nothing it may not.
Good(s, e, t) ==
  /\ Shape(t) /\ t.ok = s.ok /\ ActsOnce(s, t) /\ ApprovalsKept(s, t)
  /\ TasksKept(s, e, t) /\ EvidenceKept(s, e, t) /\ BindingsKept(s, e, t)

\* An event that changes the fields F only has to keep what is about them.
LEMMA Assemble ==
  ASSUME NEW s, NEW e, NEW t, NEW F, Shape(s), Same(s, t, F), "ok" \notin F,
         "change" \in F => DOMAIN t.change = {"status", "base"},
         "task" \in F => TaskTable(t.task) /\ TasksKept(s, e, t),
         "context" \in F => ContextTable(t.context),
         "run" \in F => RunTable(t.run) /\ ActsOnce(s, t),
         "received" \in F => ActsOnce(s, t),
         "step" \in F => StepTable(t.step),
         "evidence" \in F => EvidenceTable(t.evidence),
         "agent" \in F => DOMAIN t.agent = Agents,
         "binding" \in F => BindingTable(t.binding) /\ e.type = "agent.runtime.bound",
         "lease" \in F => LeaseTable(t.lease),
         "approval" \in F => ApprovalTable(t.approval) /\ ApprovalsKept(s, t),
         "missions" \in F => ApprovalsKept(s, t),
         EvidenceKept(s, e, t)
  PROVE  Good(s, e, t)
<1>1. \A f \in Fields \ F : t[f] = s[f]
  BY DEF Same
<1>2. Shape(t)
  <2>1. DOMAIN t = Fields /\ t.ok \in BOOLEAN
    BY <1>1 DEF Same, Shape, Fields
  <2>2. DOMAIN t.change = {"status", "base"} /\ TaskTable(t.task) /\ ContextTable(t.context)
    BY <1>1 DEF Shape, Fields
  <2>3. RunTable(t.run) /\ StepTable(t.step) /\ EvidenceTable(t.evidence)
    BY <1>1 DEF Shape, Fields
  <2>4. DOMAIN t.agent = Agents /\ BindingTable(t.binding)
    BY <1>1 DEF Shape, Fields
  <2>5. LeaseTable(t.lease) /\ ApprovalTable(t.approval)
    BY <1>1 DEF Shape, Fields
  <2>6. QED
    BY <2>1, <2>2, <2>3, <2>4, <2>5 DEF Shape
<1>3. t.ok = s.ok
  BY <1>1 DEF Fields
<1>4. ActsOnce(s, t)
  <2>1. CASE "run" \in F \/ "received" \in F
    BY <2>1
  <2>2. CASE "run" \notin F /\ "received" \notin F
    <3>1. t.run = s.run /\ t.received = s.received
      BY <1>1, <2>2 DEF Fields
    <3>2. QED
      BY <3>1 DEF ActsOnce
  <2>3. QED
    BY <2>1, <2>2
<1>5. ApprovalsKept(s, t)
  <2>1. CASE "approval" \in F \/ "missions" \in F
    BY <2>1
  <2>2. CASE "approval" \notin F /\ "missions" \notin F
    <3>1. t.approval = s.approval /\ t.missions = s.missions
      BY <1>1, <2>2 DEF Fields
    <3>2. QED
      BY <3>1 DEF ApprovalsKept, DecidedProperly, RisksApproved
  <2>3. QED
    BY <2>1, <2>2
<1>6. TasksKept(s, e, t)
  <2>1. CASE "task" \in F
    BY <2>1
  <2>2. CASE "task" \notin F
    <3>1. t.task = s.task
      BY <1>1, <2>2 DEF Fields
    <3>2. QED
      BY <3>1 DEF TasksKept
  <2>3. QED
    BY <2>1, <2>2
<1>7. BindingsKept(s, e, t)
  BY <1>1 DEF BindingsKept, Fields
<1>8. QED
  BY <1>2, <1>3, <1>4, <1>5, <1>6, <1>7 DEF Good

-----------------------------------------------------------------------------
(***************************************************************************)
(* The reducer, one apply function at a time: what it changes is good.     *)
(***************************************************************************)
LEMMA GoalChangeProposedKept ==
  ASSUME NEW s, Shape(s), NEW e, e.type = "goal.change.proposed",
         NEW t \in ApplyGoalChangeProposed(s, e)
  PROVE  Good(s, e, t)
<1>1. DOMAIN s = Fields
  BY DEF Shape
<1>2. /\ Same(s, t, {"change"})
      /\ t.change = [status |-> "proposed", base |-> s.goal]
  BY <1>1 DEF ApplyGoalChangeProposed, When, Same, Fields
<1>3. QED
  BY <1>2, Assemble DEF EvidenceKept, Shape

LEMMA RequirementPlannedKept ==
  ASSUME NEW s, Shape(s), NEW e, e.type = "requirement.planned",
         NEW t \in ApplyRequirementPlanned(s, e)
  PROVE  Good(s, e, t)
<1>1. DOMAIN s = Fields
  BY DEF Shape
<1>2. /\ Same(s, t, {"task"})
      /\ t.task = [s.task EXCEPT ![e.task] = [status |-> "Draft", goal |-> s.goal]]
  BY <1>1 DEF ApplyRequirementPlanned, When, Same, Fields
<1>3. s.task[e.task].status = "none"
  BY DEF ApplyRequirementPlanned, When
<1>4. TaskTable(t.task)
  BY <1>2 DEF Shape, TaskTable, Table
<1>5. TasksKept(s, e, t)
  BY <1>2, <1>3 DEF TasksKept, Shape, TaskTable, Table
<1>6. QED
  BY <1>2, <1>4, <1>5, Assemble DEF EvidenceKept

LEMMA RequirementApprovedKept ==
  ASSUME NEW s, Shape(s), NEW e, e.type = "requirement.approved",
         NEW t \in ApplyRequirementApproved(s, e)
  PROVE  Good(s, e, t)
<1>1. DOMAIN s = Fields
  BY DEF Shape
<1>2. /\ Same(s, t, {"task"})
      /\ t.task = [s.task EXCEPT ![e.task].status = "Approved"]
  BY <1>1 DEF ApplyRequirementApproved, When, Same, Fields
<1>3. s.task[e.task].status = "Draft"
  BY DEF ApplyRequirementApproved, When
<1>4. TaskTable(t.task)
  BY <1>2 DEF Shape, TaskTable, Table
<1>5. TasksKept(s, e, t)
  BY <1>2, <1>3 DEF TasksKept, Shape, TaskTable, Table
<1>6. QED
  BY <1>2, <1>4, <1>5, Assemble DEF EvidenceKept

LEMMA ContextIssuedKept ==
  ASSUME NEW s, Shape(s), NEW e, e.type = "context.issued", NEW t \in ApplyContextIssued(s, e)
  PROVE  Good(s, e, t)
<1>1. DOMAIN s = Fields
  BY DEF Shape
<1>2. /\ Same(s, t, {"context"})
      /\ t.context = [s.context EXCEPT ![e.context] =
          [task |-> e.task, goal |-> e.goal, superseded |-> FALSE]]
  BY <1>1 DEF ApplyContextIssued, When, Same, Fields
<1>3. ContextTable(t.context)
  BY <1>2 DEF Shape, ContextTable, Table
<1>4. QED
  BY <1>2, <1>3, Assemble DEF EvidenceKept

LEMMA ContextSupersededKept ==
  ASSUME NEW s, Shape(s), NEW e, e.type = "context.superseded",
         NEW t \in ApplyContextSuperseded(s, e)
  PROVE  Good(s, e, t)
<1>1. DOMAIN s = Fields
  BY DEF Shape
<1>2. /\ Same(s, t, {"context"})
      /\ t.context = [s.context EXCEPT ![e.context].superseded = TRUE]
  BY <1>1 DEF ApplyContextSuperseded, When, Same, Fields
<1>3. ContextTable(t.context)
  BY <1>2 DEF Shape, ContextTable, Table
<1>4. QED
  BY <1>2, <1>3, Assemble DEF EvidenceKept

LEMMA RunStartedKept ==
  ASSUME NEW s, Shape(s), NEW e, e.type = "run.started", NEW t \in ApplyRunStarted(s, e)
  PROVE  Good(s, e, t)
<1>1. DOMAIN s = Fields
  BY DEF Shape
<1>2. /\ Same(s, t, {"task", "run"})
      /\ t.task = [s.task EXCEPT ![e.task].status = "Running"]
      /\ t.run = [s.run EXCEPT ![e.task] = [status |-> "Running", goal |-> s.goal,
          context |-> e.context, actor |-> e.actor, cursor |-> 0]]
  BY <1>1 DEF ApplyRunStarted, When, Same, Fields
<1>3. s.task[e.task].status = "Approved"
  BY DEF ApplyRunStarted, When
<1>4. TaskTable(t.task)
  BY <1>2 DEF Shape, TaskTable, Table
<1>5. TasksKept(s, e, t)
  BY <1>2, <1>3 DEF TasksKept, Shape, TaskTable, Table
<1>6. RunTable(t.run)
  BY <1>2 DEF Shape, RunTable, Table
<1>7. ActsOnce(s, t)
  <2>1. t.received = s.received
    BY <1>2 DEF Same, Fields
  <2>2. QED
    BY <1>2, <2>1 DEF ActsOnce, Shape, RunTable, Table, Stopped
<1>8. QED
  BY <1>2, <1>4, <1>5, <1>6, <1>7, Assemble DEF EvidenceKept

LEMMA RunStepStartedKept ==
  ASSUME NEW s, Shape(s), NEW e, e.type = "run.step.started", NEW t \in ApplyRunStepStarted(s, e)
  PROVE  Good(s, e, t)
<1>1. DOMAIN s = Fields
  BY DEF Shape
<1>2. /\ Same(s, t, {"step"})
      /\ t.step = [s.step EXCEPT ![e.step] = [run |-> e.task, status |-> "started"]]
  BY <1>1 DEF ApplyRunStepStarted, When, Same, Fields
<1>3. StepTable(t.step)
  BY <1>2 DEF Shape, StepTable, Table
<1>4. QED
  BY <1>2, <1>3, Assemble DEF EvidenceKept

LEMMA RunStepFinishedKept ==
  ASSUME NEW s, Shape(s), NEW e, e.type = "run.step.finished", NEW t \in ApplyRunStepFinished(s, e)
  PROVE  Good(s, e, t)
<1>1. DOMAIN s = Fields
  BY DEF Shape
<1>2. /\ Same(s, t, {"step"})
      /\ t.step = [s.step EXCEPT ![e.step].status = "finished"]
  BY <1>1 DEF ApplyRunStepFinished, When, Same, Fields
<1>3. StepTable(t.step)
  BY <1>2 DEF Shape, StepTable, Table
<1>4. QED
  BY <1>2, <1>3, Assemble DEF EvidenceKept

LEMMA CheckpointCreatedKept ==
  ASSUME NEW s, Shape(s), NEW e, e.type = "checkpoint.created",
         NEW t \in ApplyCheckpointCreated(s, e)
  PROVE  Good(s, e, t)
<1>1. DOMAIN s = Fields
  BY DEF Shape
<1>2. /\ Same(s, t, {"run"})
      /\ t.run = [s.run EXCEPT ![e.task].cursor = e.cursor]
  BY <1>1 DEF ApplyCheckpointCreated, When, Same, Fields
<1>3. RunTable(t.run)
  BY <1>2 DEF Shape, RunTable, Table
<1>4. ActsOnce(s, t)
  <2>1. t.received = s.received
    BY <1>2 DEF Same, Fields
  <2>2. QED
    BY <1>2, <2>1 DEF ActsOnce, Shape, RunTable, Table, Stopped
<1>5. QED
  BY <1>2, <1>3, <1>4, Assemble DEF EvidenceKept

LEMMA RunResumedKept ==
  ASSUME NEW s, Shape(s), NEW e, e.type = "run.resumed", NEW t \in ApplyRunResumed(s, e)
  PROVE  Good(s, e, t)
<1>1. DOMAIN s = Fields
  BY DEF Shape
<1>2. /\ Same(s, t, {"run"})
      /\ t.run = [s.run EXCEPT ![e.task].status = "Running"]
  BY <1>1 DEF ApplyRunResumed, When, Same, Fields
<1>3. RunTable(t.run)
  BY <1>2 DEF Shape, RunTable, Table
<1>4. ActsOnce(s, t)
  <2>1. t.received = s.received
    BY <1>2 DEF Same, Fields
  <2>2. QED
    BY <1>2, <2>1 DEF ActsOnce, Shape, RunTable, Table, Stopped
<1>5. QED
  BY <1>2, <1>3, <1>4, Assemble DEF EvidenceKept

LEMMA RunFinishedKept ==
  ASSUME NEW s, Shape(s), NEW e, e.type = "run.finished", NEW t \in ApplyRunFinished(s, e)
  PROVE  Good(s, e, t)
<1>1. DOMAIN s = Fields
  BY DEF Shape
<1>2. /\ Same(s, t, {"run", "task"})
      /\ t.run = [s.run EXCEPT ![e.task].status = "Finished"]
      /\ t.task = [s.task EXCEPT ![e.task].status = "Verifying"]
  BY <1>1 DEF ApplyRunFinished, When, Same, Fields
<1>3. s.task[e.task].status = "Running"
  BY DEF ApplyRunFinished, When
<1>4. RunTable(t.run)
  BY <1>2 DEF Shape, RunTable, Table
<1>5. ActsOnce(s, t)
  <2>1. t.received = s.received
    BY <1>2 DEF Same, Fields
  <2>2. QED
    BY <1>2, <2>1 DEF ActsOnce, Shape, RunTable, Table, Stopped
<1>6. TaskTable(t.task)
  BY <1>2 DEF Shape, TaskTable, Table
<1>7. TasksKept(s, e, t)
  BY <1>2, <1>3 DEF TasksKept, Shape, TaskTable, Table
<1>8. QED
  BY <1>2, <1>4, <1>5, <1>6, <1>7, Assemble DEF EvidenceKept

LEMMA EvidenceRecordedKept ==
  ASSUME NEW s, Shape(s), NEW e, e.type = "evidence.recorded", NEW t \in ApplyEvidenceRecorded(s, e)
  PROVE  Good(s, e, t)
<1>1. DOMAIN s = Fields
  BY DEF Shape
<1>2. /\ Same(s, t, {"evidence", "task"})
      /\ t.evidence = [s.evidence EXCEPT ![e.evidence] =
          [status |-> "legacy", task |-> e.task, context |-> None,
           goal |-> 0, digest |-> None]]
      /\ t.task = [s.task EXCEPT ![e.task].status = IF e.passed THEN "Verified" ELSE @]
  BY <1>1 DEF ApplyEvidenceRecorded, When, Same, Fields
<1>3. s.task[e.task].status = "Verifying"
  BY DEF ApplyEvidenceRecorded, When
<1>4. EvidenceTable(t.evidence)
  BY <1>2 DEF Shape, EvidenceTable, Table
<1>5. TaskTable(t.task)
  BY <1>2 DEF Shape, TaskTable, Table
<1>6. TasksKept(s, e, t)
  BY <1>2, <1>3 DEF TasksKept, Shape, TaskTable, Table
<1>7. QED
  BY <1>2, <1>4, <1>5, <1>6, Assemble DEF EvidenceKept

LEMMA EvidenceCandidateRecordedKept ==
  ASSUME NEW s, Shape(s), NEW e, e.type = "evidence.candidate.recorded",
         NEW t \in ApplyEvidenceCandidateRecorded(s, e)
  PROVE  Good(s, e, t)
<1>1. DOMAIN s = Fields
  BY DEF Shape
<1>2. /\ Same(s, t, {"evidence"})
      /\ t.evidence = [s.evidence EXCEPT ![e.evidence] =
          [status |-> "candidate", task |-> e.task, context |-> e.context,
           goal |-> e.goal, digest |-> None]]
  BY <1>1 DEF ApplyEvidenceCandidateRecorded, When, Same, Fields
<1>3. EvidenceTable(t.evidence)
  BY <1>2 DEF Shape, EvidenceTable, Table
<1>4. QED
  BY <1>2, <1>3, Assemble DEF EvidenceKept

LEMMA TaskCompletedKept ==
  ASSUME NEW s, Shape(s), NEW e, e.type = "task.completed", NEW t \in ApplyTaskCompleted(s, e)
  PROVE  Good(s, e, t)
<1>1. DOMAIN s = Fields
  BY DEF Shape
<1>2. /\ Same(s, t, {"task"})
      /\ t.task = [s.task EXCEPT ![e.task].status = "Completed"]
  BY <1>1 DEF ApplyTaskCompleted, When, Same, Fields
<1>3. TaskTable(t.task)
  BY <1>2 DEF Shape, TaskTable, Table
<1>4. TasksKept(s, e, t)
  BY <1>2 DEF TasksKept, Shape, TaskTable, Table
<1>5. QED
  BY <1>2, <1>3, <1>4, Assemble DEF EvidenceKept

LEMMA ChangesScannedKept ==
  ASSUME NEW s, Shape(s), NEW e, e.type = "changes.scanned", NEW t \in ApplyChangesScanned(s, e)
  PROVE  Good(s, e, t)
<1>1. DOMAIN s = Fields
  BY DEF Shape
<1>2. /\ Same(s, t, {"changed"})
      /\ t.changed = e.files
  BY <1>1 DEF ApplyChangesScanned, When, Same, Fields
<1>3. QED
  BY <1>2, Assemble DEF EvidenceKept

LEMMA ChangeAttributedKept ==
  ASSUME NEW s, Shape(s), NEW e, e.type = "change.attributed", NEW t \in ApplyChangeAttributed(s, e)
  PROVE  Good(s, e, t)
<1>1. DOMAIN s = Fields
  BY DEF Shape
<1>2. /\ Same(s, t, {"credited"})
  BY <1>1 DEF ApplyChangeAttributed, When, Same, Fields
<1>3. QED
  BY <1>2, Assemble DEF EvidenceKept

LEMMA AgentIdentityRegisteredKept ==
  ASSUME NEW s, Shape(s), NEW e, e.type = "agent.identity.registered",
         NEW t \in ApplyAgentIdentityRegistered(s, e)
  PROVE  Good(s, e, t)
<1>1. DOMAIN s = Fields
  BY DEF Shape
<1>2. /\ Same(s, t, {"agent"})
      /\ t.agent = [s.agent EXCEPT ![e.agent] = e.function]
  BY <1>1 DEF ApplyAgentIdentityRegistered, When, Same, Fields
<1>3. QED
  BY <1>2, Assemble DEF EvidenceKept, Shape

LEMMA LeaseIssuedKept ==
  ASSUME NEW s, Shape(s), NEW e, e.type = "lease.issued", NEW t \in ApplyLeaseIssued(s, e)
  PROVE  Good(s, e, t)
<1>1. DOMAIN s = Fields
  BY DEF Shape
<1>2. /\ Same(s, t, {"lease"})
      /\ t.lease = [s.lease EXCEPT ![e.lease] =
          [status |-> "active", subject |-> e.subject, task |-> e.task,
           context |-> e.context, env |-> e.env, goal |-> s.goal,
           scope |-> e.scope]]
  BY <1>1 DEF ApplyLeaseIssued, When, Same, Fields
<1>3. LeaseTable(t.lease)
  BY <1>2 DEF Shape, LeaseTable, Table
<1>4. QED
  BY <1>2, <1>3, Assemble DEF EvidenceKept

LEMMA LeaseRevokedKept ==
  ASSUME NEW s, Shape(s), NEW e, e.type = "lease.revoked", NEW t \in ApplyLeaseRevoked(s, e)
  PROVE  Good(s, e, t)
<1>1. DOMAIN s = Fields
  BY DEF Shape
<1>2. /\ Same(s, t, {"lease"})
      /\ t.lease = [s.lease EXCEPT ![e.lease].status = "revoked"]
  BY <1>1 DEF ApplyLeaseRevoked, When, Same, Fields
<1>3. LeaseTable(t.lease)
  BY <1>2 DEF Shape, LeaseTable, Table
<1>4. QED
  BY <1>2, <1>3, Assemble DEF EvidenceKept

\* A goal change stales contexts, evidence and leases, and nothing else.
LEMMA GoalChangeApprovedKept ==
  ASSUME NEW s, Shape(s), NEW e, e.type = "goal.change.approved",
         NEW t \in {StaleLeases(u) : u \in ApplyGoalChangeApproved(s, e)}
  PROVE  Good(s, e, t)
<1>1. DOMAIN s = Fields
  BY DEF Shape
<1>. DEFINE r == [s EXCEPT !.change.status = "approved", !.goal = @ + 1]
            u == MarkOlderBindingsStale(r)
<1>2. t = StaleLeases(u)
  BY DEF ApplyGoalChangeApproved, When
<1>3. Same(s, r, {"change", "goal"}) /\ r.change = [s.change EXCEPT !.status = "approved"]
  BY <1>1 DEF Same, Fields
<1>4. Shape(r)
  <2>1. Same(s, r, {"change", "goal"}) /\ DOMAIN r.change = {"status", "base"}
    BY <1>3 DEF Shape
  <2>. HIDE DEF r
  <2>2. Good(s, e, r)
    BY <2>1, Assemble DEF EvidenceKept
  <2>3. QED
    BY <2>2 DEF Good
<1>. HIDE DEF r
<1>5. /\ Same(r, u, {"context", "evidence"})
      /\ DOMAIN u.context = Contexts
      /\ \A c \in Contexts : DOMAIN u.context[c] = DOMAIN r.context[c]
      /\ u.evidence = [i \in Evidence |->
            IF r.evidence[i].status # "none" /\ r.evidence[i].goal < r.goal
            THEN [r.evidence[i] EXCEPT !.status = "stale"] ELSE r.evidence[i]]
  <2>1. DOMAIN r = Fields
    BY <1>3 DEF Same
  <2>2. Same(r, u, {"context", "evidence"})
    BY <2>1 DEF MarkOlderBindingsStale, Same, Fields
  <2>3. /\ DOMAIN u.context = Contexts
        /\ \A c \in Contexts : DOMAIN u.context[c] = DOMAIN r.context[c]
    BY <2>1 DEF MarkOlderBindingsStale, Fields
  <2>4. u.evidence = [i \in Evidence |->
            IF r.evidence[i].status # "none" /\ r.evidence[i].goal < r.goal
            THEN [r.evidence[i] EXCEPT !.status = "stale"] ELSE r.evidence[i]]
    BY <2>1 DEF MarkOlderBindingsStale, Fields
  <2>5. QED
    BY <2>2, <2>3, <2>4
<1>. HIDE DEF u
<1>6. ContextTable(u.context)
  BY <1>4, <1>5 DEF Shape, ContextTable, Table
<1>7. EvidenceTable(u.evidence)
  BY <1>4, <1>5 DEF Shape, EvidenceTable, Table
<1>8. /\ Same(u, t, {"lease"})
      /\ t.lease = [l \in MissionLeases |->
            IF u.lease[l].status = "active" /\ u.lease[l].goal < u.goal
            THEN [u.lease[l] EXCEPT !.status = "stale"] ELSE u.lease[l]]
  <2>1. DOMAIN u = Fields
    BY <1>5 DEF Same
  <2>2. QED
    BY <1>2, <2>1 DEF StaleLeases, Same, Fields
<1>9. LeaseTable(t.lease)
  <2>1. u.lease = r.lease
    BY <1>5 DEF Same, Fields
  <2>2. QED
    BY <1>4, <1>8, <2>1 DEF Shape, LeaseTable, Table
<1>10. Same(s, t, {"change", "goal", "context", "evidence", "lease"})
  BY <1>3, <1>5, <1>8 DEF Same, Fields
<1>11. DOMAIN t.change = {"status", "base"} /\ t.context = u.context /\ t.evidence = u.evidence
  BY <1>4, <1>5, <1>8 DEF Same, Fields, Shape
<1>12. QED
  BY <1>6, <1>7, <1>9, <1>10, <1>11, Assemble DEF EvidenceKept

\* A room's event stops the run only when it was not received before.
LEMMA ExecutorEventReceivedKept ==
  ASSUME NEW s, Shape(s), NEW e, e.type = "executor.event.received",
         NEW t \in ApplyExecutorEventReceived(s, e)
  PROVE  Good(s, e, t) /\ HasExecutorEvent(t, e.task, e.source)
<1>1. DOMAIN s = Fields
  BY DEF Shape
<1>2. CASE HasExecutorEvent(s, e.task, e.source)
  <2>1. t = s
    BY <1>2 DEF ApplyExecutorEventReceived
  <2>2. Same(s, t, {})
    BY <1>1, <2>1 DEF Same
  <2>3. QED
    BY <1>2, <2>1, <2>2, Assemble DEF EvidenceKept
<1>3. CASE ~HasExecutorEvent(s, e.task, e.source)
  <2>. DEFINE new == [run |-> e.task, source |-> e.source, kind |-> e.kind,
                      cursor |-> e.cursor]
              status == CASE e.kind = "paused"    -> "Paused"
                          [] e.kind = "failed"    -> "Failed"
                          [] e.kind = "cancelled" -> "Cancelled"
                          [] OTHER                -> s.run[e.task].status
  <2>1. /\ Same(s, t, {"received", "run"})
        /\ t.received = s.received \cup {new}
        /\ t.run = [s.run EXCEPT ![e.task].status = status]
    BY <1>1, <1>3 DEF ApplyExecutorEventReceived, When, Same, Fields
  <2>. HIDE DEF status
  <2>2. RunTable(t.run)
    BY <2>1 DEF Shape, RunTable, Table
  <2>3. new \in t.received /\ new.run = e.task /\ new.source = e.source
    BY <2>1
  <2>. HIDE DEF new
  <2>4. \A y \in s.received : <<y.run, y.source>> # <<e.task, e.source>>
    BY <1>3 DEF HasExecutorEvent
  <2>5. \A k \in Tasks : t.run[k].status # s.run[k].status => k = e.task
    BY <2>1 DEF Shape, RunTable, Table
  <2>6. ActsOnce(s, t)
    BY <2>1, <2>3, <2>4, <2>5 DEF ActsOnce
  <2>7. HasExecutorEvent(t, e.task, e.source)
    BY <2>3 DEF HasExecutorEvent
  <2>8. QED
    BY <2>1, <2>2, <2>6, <2>7, Assemble DEF EvidenceKept
<1>4. QED
  BY <1>2, <1>3

\* Any decision on a record recomputes its task.
LEMMA UpdateEvidenceStatusKept ==
  ASSUME NEW s, Shape(s), NEW e, NEW status, NEW t \in UpdateEvidenceStatus(s, e, status),
         \/ status = "invalidated" /\ e.type = "evidence.invalidated"
         \/ /\ status = "verified" /\ e.type = "evidence.verified"
            /\ s.task[e.task].status = "Verifying"
  PROVE  Good(s, e, t)
<1>1. DOMAIN s = Fields
  BY DEF Shape
<1>. DEFINE record == s.evidence[e.evidence]
            r == [s EXCEPT !.evidence[e.evidence].status = status,
                           !.evidence[e.evidence].digest =
                             IF e.digest = None THEN @ ELSE e.digest]
<1>2. /\ record.status # "none" /\ record.task = e.task
      /\ t = RecomputeTaskVerification(r, e.task)
  BY DEF UpdateEvidenceStatus, When
<1>3. /\ Same(s, r, {"evidence"})
      /\ r.evidence = [s.evidence EXCEPT ![e.evidence].status = status,
                           ![e.evidence].digest =
                             IF e.digest = None THEN @ ELSE e.digest]
  BY <1>1 DEF Same, Fields
<1>. HIDE DEF r
<1>. DEFINE verified == \E i \in Evidence : /\ r.evidence[i].task = e.task
                                            /\ r.evidence[i].status = "verified"
<1>4. /\ Same(r, t, {"task"})
      /\ t.task = [r.task EXCEPT ![e.task].status =
                     IF verified THEN "Verified"
                     ELSE IF @ \in {"Verified", "Completed"} THEN "Verifying" ELSE @]
  <2>1. DOMAIN r = Fields
    BY <1>3 DEF Same
  <2>. HIDE DEF verified
  <2>2. QED
    BY <1>2, <2>1 DEF RecomputeTaskVerification, Same, Fields, verified
<1>. HIDE DEF verified
<1>5. Same(s, t, {"evidence", "task"}) /\ t.evidence = r.evidence /\ r.task = s.task
  BY <1>3, <1>4 DEF Same, Fields
<1>6. EvidenceTable(t.evidence) /\ TaskTable(t.task)
  BY <1>3, <1>4, <1>5 DEF Shape, EvidenceTable, TaskTable, Table
<1>7. TasksKept(s, e, t)
  BY <1>4, <1>5 DEF TasksKept, Shape, TaskTable, Table
<1>8. EvidenceKept(s, e, t)
  BY <1>2, <1>3, <1>5 DEF EvidenceKept, Shape, EvidenceTable, Table
<1>9. QED
  BY <1>5, <1>6, <1>7, <1>8, Assemble

\* A binding follows those of its agent, and changes nothing else.
LEMMA RuntimeIsBound ==
  ASSUME NEW s, Shape(s), NEW e, NEW t \in ApplyRuntimeBound(s, e)
  PROVE  /\ Same(s, t, {"binding"}) /\ BindingTable(t.binding)
         /\ \A a \in Agents : a # e.agent => t.binding[a] = s.binding[a]
         /\ e.agent \in Agents => /\ t.binding[e.agent] # <<>>
                                  /\ Last(t.binding[e.agent]) = Active(e)
<1>. DEFINE g == e.agent
            h == s.binding[g]
            new == [env |-> e.env, principal |-> e.principal, active |-> TRUE]
            ended == [i \in DOMAIN h |-> IF i = Len(h) THEN [h[i] EXCEPT !.active = FALSE]
                                                       ELSE h[i]]
            longer == Append(ended, new)
<1>1. DOMAIN s = Fields /\ BindingTable(s.binding)
  BY DEF Shape
<1>2. t = [s EXCEPT !.binding[g] = longer]
  BY DEF ApplyRuntimeBound, When
<1>. HIDE DEF longer
<1>3. Same(s, t, {"binding"}) /\ t.binding = [s.binding EXCEPT ![g] = longer]
  BY <1>1, <1>2 DEF Same, Fields
<1>4. \A a \in Agents : t.binding[a] = IF a = g THEN longer ELSE s.binding[a]
  BY <1>1, <1>3 DEF BindingTable
<1>5. ASSUME g \in Agents
      PROVE  IsSequence(longer) /\ longer # <<>> /\ Last(longer) = new
  <2>1. Len(h) \in Nat /\ DOMAIN h = 1..Len(h)
    BY <1>1, <1>5, SequenceDomain DEF BindingTable
  <2>. DEFINE S == {ended[i] : i \in 1..Len(h)} \cup {new}
  <2>2. ended \in [1..Len(h) -> S] /\ new \in S
    BY <2>1
  <2>. HIDE DEF S, new
  <2>3. ended \in Seq(S) /\ Len(ended) = Len(h)
    BY <2>1, <2>2
  <2>. HIDE DEF ended
  <2>4. /\ longer \in Seq(S) /\ Len(longer) = Len(h) + 1
        /\ longer[Len(h) + 1] = new
    BY <2>1, <2>2, <2>3, AppendProperties DEF longer
  <2>5. longer # <<>>
    BY <2>1, <2>4, EmptySeq
  <2>6. QED
    BY <2>4, <2>5, MemberIsSequence DEF Last
<1>. HIDE DEF longer, h
<1>6. BindingTable(t.binding)
  BY <1>1, <1>3, <1>4, <1>5 DEF BindingTable
<1>7. QED
  BY <1>3, <1>4, <1>5, <1>6 DEF Active

\* A binding of an agent changes the bindings alone.
LEMMA RuntimeBoundKept ==
  ASSUME NEW s, Shape(s), NEW e, e.type = "agent.runtime.bound", NEW t \in ApplyRuntimeBound(s, e)
  PROVE  Good(s, e, t)
BY RuntimeIsBound, Assemble DEF EvidenceKept

\* A request is undecided, and takes an id of its own.
LEMMA ApprovalRequestedKept ==
  ASSUME NEW s, Shape(s), NEW e, e.type = "approval.requested",
         NEW t \in ApplyApprovalRequested(s, e)
  PROVE  Good(s, e, t)
<1>1. DOMAIN s = Fields
  BY DEF Shape
<1>2. /\ s.approval[e.approval].status = "none"
      /\ Same(s, t, {"approval"})
      /\ t.approval = [s.approval EXCEPT ![e.approval] =
          [status |-> "requested", subject |-> e.subject, hash |-> e.hash,
           risk |-> e.risk, requester |-> e.actor, decider |-> None]]
  BY <1>1 DEF ApplyApprovalRequested, When, Same, Fields
<1>3. ApprovalTable(t.approval)
  BY <1>2 DEF Shape, ApprovalTable, Table
<1>4. \A a \in Approvals :
        /\ t.approval[a].status = "approved" => t.approval[a] = s.approval[a]
        /\ s.approval[a].status = "approved" => t.approval[a] = s.approval[a]
  BY <1>2 DEF Shape, ApprovalTable, Table
<1>5. t.missions = s.missions
  BY <1>2 DEF Same, Fields
<1>6. ApprovalsKept(s, t)
  BY <1>4, <1>5 DEF ApprovalsKept, DecidedProperly, RisksApproved
<1>7. QED
  BY <1>2, <1>3, <1>6, Assemble DEF EvidenceKept

\* An invalidated request was not approved.
LEMMA ApprovalInvalidatedKept ==
  ASSUME NEW s, Shape(s), NEW e, e.type = "approval.invalidated",
         NEW t \in ApplyApprovalInvalidated(s, e)
  PROVE  Good(s, e, t)
<1>1. DOMAIN s = Fields
  BY DEF Shape
<1>2. /\ s.approval[e.approval].status = "requested"
      /\ Same(s, t, {"approval"})
      /\ t.approval = [s.approval EXCEPT ![e.approval].status = "invalidated"]
  BY <1>1 DEF ApplyApprovalInvalidated, Decides, When, Same, Fields
<1>3. ApprovalTable(t.approval)
  BY <1>2 DEF Shape, ApprovalTable, Table
<1>4. \A a \in Approvals :
        /\ t.approval[a].status = "approved" => t.approval[a] = s.approval[a]
        /\ s.approval[a].status = "approved" => t.approval[a] = s.approval[a]
  BY <1>2 DEF Shape, ApprovalTable, Table
<1>5. t.missions = s.missions
  BY <1>2 DEF Same, Fields
<1>6. ApprovalsKept(s, t)
  BY <1>4, <1>5 DEF ApprovalsKept, DecidedProperly, RisksApproved
<1>7. QED
  BY <1>2, <1>3, <1>6, Assemble DEF EvidenceKept

\* Who decides may, and is not the requester.
LEMMA ApprovalDecidedKept ==
  ASSUME NEW s, Shape(s), NEW e, e.type = "approval.decided", NEW t \in ApplyApprovalDecided(s, e)
  PROVE  Good(s, e, t)
<1>1. DOMAIN s = Fields
  BY DEF Shape
<1>. DEFINE asked == s.approval[e.approval]
<1>2. /\ asked.status = "requested" /\ asked.requester # e.actor
      /\ CanDecideApproval(e.actor, asked.risk)
      /\ Same(s, t, {"approval"})
      /\ t.approval = [s.approval EXCEPT ![e.approval].status = e.decision,
                                         ![e.approval].decider = e.actor]
  BY <1>1 DEF ApplyApprovalDecided, Decides, When, Same, Fields
<1>3. ApprovalTable(t.approval)
  BY <1>2 DEF Shape, ApprovalTable, Table
<1>4. \A a \in Approvals :
        /\ a # e.approval => t.approval[a] = s.approval[a]
        /\ a = e.approval => /\ t.approval[a].requester = asked.requester
                             /\ t.approval[a].risk = asked.risk
                             /\ t.approval[a].decider = e.actor
        /\ s.approval[a].status = "approved" => t.approval[a] = s.approval[a]
  BY <1>2 DEF Shape, ApprovalTable, Table
<1>5. t.missions = s.missions
  BY <1>2 DEF Same, Fields
<1>6. DecidedProperly(s) => DecidedProperly(t)
  BY <1>2, <1>4 DEF DecidedProperly
<1>7. RisksApproved(s) => RisksApproved(t)
  BY <1>4, <1>5 DEF RisksApproved
<1>8. QED
  BY <1>2, <1>3, <1>6, <1>7, Assemble DEF EvidenceKept, ApprovalsKept

\* A mission is issued behind its approval.
LEMMA MissionIssuedKept ==
  ASSUME NEW s, Shape(s), NEW e, e.type = "mission.issued", NEW t \in ApplyMissionIssued(s, e)
  PROVE  Good(s, e, t)
<1>1. DOMAIN s = Fields
  BY DEF Shape
<1>2. /\ ApprovalRequired(e.envelope.risk) => HasApprovedMissionApproval(s, e.envelope)
      /\ Same(s, t, {"missions"})
      /\ t.missions = s.missions \cup {e.envelope}
  BY <1>1 DEF ApplyMissionIssued, When, Same, Fields
<1>3. t.approval = s.approval
  BY <1>2 DEF Same, Fields
<1>4. DecidedProperly(s) => DecidedProperly(t)
  BY <1>3 DEF DecidedProperly
<1>5. RisksApproved(s) => RisksApproved(t)
  BY <1>2, <1>3 DEF RisksApproved, HasApprovedMissionApproval
<1>6. QED
  BY <1>2, <1>4, <1>5, Assemble DEF EvidenceKept, ApprovalsKept
-----------------------------------------------------------------------------
\* What an event that the reducer applies does.
LEMMA AppliedIsGood ==
  ASSUME NEW s, Shape(s), NEW e, e.type \in EventTypes, NEW t \in ApplyEvent(s, e)
  PROVE  Good(s, e, t)
<1>1. CASE e.type \in {"goal.change.proposed", "goal.change.approved"}
  BY <1>1, GoalChangeProposedKept, GoalChangeApprovedKept DEF ApplyEvent
<1>2. CASE e.type \in {"requirement.planned", "requirement.approved"}
  BY <1>2, RequirementPlannedKept, RequirementApprovedKept DEF ApplyEvent
<1>3. CASE e.type \in {"context.issued", "context.superseded"}
  BY <1>3, ContextIssuedKept, ContextSupersededKept DEF ApplyEvent
<1>4. CASE e.type \in {"run.started", "run.resumed", "run.finished"}
  BY <1>4, RunStartedKept, RunResumedKept, RunFinishedKept DEF ApplyEvent
<1>5. CASE e.type \in {"run.step.started", "run.step.finished"}
  BY <1>5, RunStepStartedKept, RunStepFinishedKept DEF ApplyEvent
<1>6. CASE e.type \in {"checkpoint.created", "executor.event.received"}
  BY <1>6, CheckpointCreatedKept, ExecutorEventReceivedKept DEF ApplyEvent
<1>7. CASE e.type \in {"evidence.recorded", "evidence.candidate.recorded"}
  BY <1>7, EvidenceRecordedKept, EvidenceCandidateRecordedKept DEF ApplyEvent
<1>8. CASE e.type = "evidence.verified"
  <2>1. t \in UpdateEvidenceStatus(s, e, "verified") /\ s.task[e.task].status = "Verifying"
    BY <1>8 DEF ApplyEvent, ApplyEvidenceVerified, ValidContextualEvidence
  <2>2. QED
    BY <1>8, <2>1, UpdateEvidenceStatusKept
<1>9. CASE e.type = "evidence.invalidated"
  BY <1>9, UpdateEvidenceStatusKept DEF ApplyEvent, ApplyEvidenceInvalidated
<1>10. CASE e.type \in {"task.completed", "changes.scanned", "change.attributed"}
  BY <1>10, TaskCompletedKept, ChangesScannedKept, ChangeAttributedKept DEF ApplyEvent
<1>11. CASE e.type \in {"agent.identity.registered", "agent.runtime.bound"}
  BY <1>11, AgentIdentityRegisteredKept, RuntimeBoundKept DEF ApplyEvent
<1>12. CASE e.type \in {"lease.issued", "lease.revoked"}
  BY <1>12, LeaseIssuedKept, LeaseRevokedKept DEF ApplyEvent
<1>13. CASE e.type \in {"approval.requested", "approval.decided", "approval.invalidated"}
  BY <1>13, ApprovalRequestedKept, ApprovalDecidedKept, ApprovalInvalidatedKept DEF ApplyEvent
<1>14. CASE e.type = "mission.issued"
  BY <1>14, MissionIssuedKept DEF ApplyEvent
<1>15. QED
  BY <1>1, <1>2, <1>3, <1>4, <1>5, <1>6, <1>7, <1>8, <1>9, <1>10, <1>11, <1>12, <1>13,
     <1>14 DEF EventTypes

\* One event of a log: applied, refused, or behind a refused one.
LEMMA ReducedCases ==
  ASSUME NEW s, Shape(s), NEW e, e.type \in EventTypes
  PROVE  \/ ~s.ok /\ Reduced(s, e) = s
         \/ /\ s.ok /\ ApplyEvent(s, e) = {} /\ ~Reduced(s, e).ok
            /\ Same(s, Reduced(s, e), {"ok"}) /\ Shape(Reduced(s, e))
         \/ s.ok /\ Reduced(s, e) \in ApplyEvent(s, e) /\ Good(s, e, Reduced(s, e))
<1>1. CASE ~s.ok
  BY <1>1 DEF Reduced
<1>2. CASE s.ok /\ ApplyEvent(s, e) = {}
  <2>. DEFINE t == [s EXCEPT !.ok = FALSE]
  <2>1. Reduced(s, e) = t
    BY <1>2 DEF Reduced
  <2>2. DOMAIN s = Fields
    BY DEF Shape
  <2>3. Same(s, t, {"ok"}) /\ t.ok = FALSE
    BY <2>2 DEF Same, Fields
  <2>. HIDE DEF t
  <2>4. Shape(t)
    BY <2>3 DEF Shape, Same, Fields
  <2>5. QED
    BY <1>2, <2>1, <2>3, <2>4
<1>3. CASE s.ok /\ ApplyEvent(s, e) # {}
  <2>1. Reduced(s, e) \in ApplyEvent(s, e)
    BY <1>3, Zenon DEF Reduced
  <2>2. QED
    BY <1>3, <2>1, AppliedIsGood
<1>4. QED
  BY <1>1, <1>2, <1>3

\* What holds between the ends of any piece of the log.
Grown(s, t) == Shape(t) /\ ActsOnce(s, t) /\ ApprovalsKept(s, t)

\* One event more.
LEMMA ReducedGrown ==
  ASSUME NEW s, Shape(s), NEW e, e.type \in EventTypes
  PROVE  Grown(s, Reduced(s, e))
<1>. DEFINE t == Reduced(s, e)
<1>. SUFFICES Grown(s, t)
  OBVIOUS
<1>0. \/ t = s
      \/ Same(s, t, {"ok"}) /\ Shape(t)
      \/ Good(s, e, t)
  BY ReducedCases
<1>. HIDE DEF t
<1>1. CASE t = s
  BY <1>1 DEF Grown, ActsOnce, ApprovalsKept
<1>2. CASE Same(s, t, {"ok"}) /\ Shape(t)
  <2>1. /\ t.received = s.received /\ t.run = s.run
        /\ t.approval = s.approval /\ t.missions = s.missions
    BY <1>2 DEF Same, Fields
  <2>2. ActsOnce(s, t)
    BY <2>1 DEF ActsOnce
  <2>3. ApprovalsKept(s, t)
    BY <2>1 DEF ApprovalsKept, DecidedProperly, RisksApproved
  <2>4. QED
    BY <1>2, <2>2, <2>3 DEF Grown
<1>3. CASE Good(s, e, t)
  BY <1>3 DEF Good, Grown
<1>4. QED
  BY <1>0, <1>1, <1>2, <1>3

\* Pieces of the log join.
LEMMA GrownTransitive ==
  ASSUME NEW s, NEW t, NEW u, Grown(s, t), Grown(t, u)
  PROVE  Grown(s, u)
<1>1. s.received \subseteq t.received /\ t.received \subseteq u.received
  BY DEF Grown, ActsOnce
<1>2. ASSUME NEW k \in Tasks, u.run[k].status \in Stopped, u.run[k].status # s.run[k].status
      PROVE  \E x \in u.received :
               x.run = k /\ \A y \in s.received : <<y.run, y.source>> # <<k, x.source>>
  <2>1. CASE u.run[k].status = t.run[k].status
    <3>1. PICK x \in t.received :
            x.run = k /\ \A y \in s.received : <<y.run, y.source>> # <<k, x.source>>
      BY <1>2, <2>1 DEF Grown, ActsOnce
    <3>2. QED
      BY <1>1, <3>1
  <2>2. CASE u.run[k].status # t.run[k].status
    <3>1. PICK x \in u.received :
            x.run = k /\ \A y \in t.received : <<y.run, y.source>> # <<k, x.source>>
      BY <1>2, <2>2 DEF Grown, ActsOnce
    <3>2. QED
      BY <1>1, <3>1
  <2>3. QED
    BY <2>1, <2>2
<1>3. ActsOnce(s, u)
  BY <1>1, <1>2 DEF ActsOnce
<1>4. Shape(u) /\ ApprovalsKept(s, u)
  BY DEF Grown, ApprovalsKept
<1>5. QED
  BY <1>3, <1>4 DEF Grown
-----------------------------------------------------------------------------
\* A batch of events the reducer knows.
Typed(batch) ==
  IsSequence(batch) /\ \A k \in 1..Len(batch) : batch[k].type \in EventTypes

\* There is a least element in every set of numbers that is not empty.
LEMMA LeastOf ==
  ASSUME NEW T \in SUBSET Nat, T # {}
  PROVE  \E x \in T : \A y \in T : x <= y
<1>1. PICK x \in T : \A y \in T : ~(<<y, x>> \in OpToRel(<, Nat))
  BY WFMin, NatLessThanWellFounded, Zenon
<1>2. \A y \in T : ~(y < x)
  BY <1>1 DEF OpToRel
<1>3. QED
  BY <1>2

\* Induction on the numbers up to m, for a set of them.
LEMMA UpTo ==
  ASSUME NEW m \in Nat, NEW N, 0 \in N, \A n \in 0..m - 1 : n \in N => n + 1 \in N
  PROVE  \A n \in 0..m : n \in N
<1>. DEFINE S == {n \in 0..m : n \notin N}
<1>1. ASSUME S # {} PROVE FALSE
  <2>1. S \subseteq Nat
    OBVIOUS
  <2>2. PICK x \in S : \A y \in S : x <= y
    BY <1>1, <2>1, LeastOf
  <2>. HIDE DEF S
  <2>3. x \in 0..m /\ x \notin N
    BY <2>2 DEF S
  <2>4. x - 1 \in 0..m - 1
    BY <2>3
  <2>5. x - 1 \in N
    BY <2>2, <2>3, <2>4 DEF S
  <2>6. QED
    BY <2>3, <2>4, <2>5
<1>2. QED
  BY <1>1

\* The states of a batch, one after each event.
IsTrace(f, s, b, m) == f = [n \in 0..m |-> IF n = 0 THEN s ELSE Reduced(f[n - 1], b[n])]

\* There is a function that follows the recursion of ReducedBatch.
LEMMA TraceExists ==
  ASSUME NEW s, NEW b, NEW m \in Nat
  PROVE  \E f : IsTrace(f, s, b, m)
<1>. DEFINE N == {n \in 0..m : \E f : IsTrace(f, s, b, n)}
<1>1. 0 \in N
  <2>. DEFINE f == [n \in 0..0 |-> s]
  <2>1. f = [n \in 0..0 |-> IF n = 0 THEN s ELSE Reduced(f[n - 1], b[n])]
    OBVIOUS
  <2>2. IsTrace(f, s, b, 0)
    BY <2>1 DEF IsTrace
  <2>3. QED
    BY <2>2
<1>2. ASSUME NEW n \in 0..m - 1, n \in N
      PROVE  n + 1 \in N
  <2>1. PICK f : IsTrace(f, s, b, n)
    BY <1>2
  <2>. DEFINE g == [i \in 0..n + 1 |-> IF i <= n THEN f[i] ELSE Reduced(f[n], b[n + 1])]
  <2>2. \A i \in 0..n : f[i] = IF i = 0 THEN s ELSE Reduced(f[i - 1], b[i])
    BY <2>1 DEF IsTrace
  <2>3. \A i \in 0..n + 1 : g[i] = IF i = 0 THEN s ELSE Reduced(g[i - 1], b[i])
    <3>1. TAKE i \in 0..n + 1
    <3>2. CASE i <= n
      BY <2>2, <3>2
    <3>3. CASE i = n + 1
      BY <3>3
    <3>4. QED
      BY <3>2, <3>3
  <2>4. g = [i \in 0..n + 1 |-> g[i]]
    OBVIOUS
  <2>. HIDE DEF g
  <2>5. IsTrace(g, s, b, n + 1)
    BY <2>3, <2>4 DEF IsTrace
  <2>6. QED
    BY <2>5
<1>. HIDE DEF N
<1>3. m \in N
  BY <1>1, <1>2, UpTo
<1>4. QED
  BY <1>3 DEF N

Runs(f, s, b, m) == f[0] = s /\ \A n \in 0..m - 1 : f[n + 1] = Reduced(f[n], b[n + 1])

\* ReducedBatch is the end of a chain of reduced events.
LEMMA BatchRuns ==
  ASSUME NEW s, NEW b, IsSequence(b)
  PROVE  \E f : Runs(f, s, b, Len(b)) /\ ReducedBatch(s, b) = f[Len(b)]
<1>. DEFINE Chosen(r, n) == CHOOSE t \in {Reduced(x, b[n]) : x \in {r}} : TRUE
            f == CHOOSE f : f = [n \in 0..Len(b) |-> IF n = 0 THEN s
                     ELSE CHOOSE t \in {Reduced(r, b[n]) : r \in {f[n - 1]}} : TRUE]
<1>1. ReducedBatch(s, b) = f[Len(b)]
  BY DEF ReducedBatch
<1>2. \A r, n : Chosen(r, n) = Reduced(r, b[n])
  OBVIOUS
<1>3. Len(b) \in Nat
  BY SequenceDomain
<1>4. PICK g : IsTrace(g, s, b, Len(b))
  BY <1>3, TraceExists
<1>5. g = [n \in 0..Len(b) |-> IF n = 0 THEN s ELSE Chosen(g[n - 1], n)]
  <2>. HIDE DEF Chosen
  <2>1. QED
    BY <1>2, <1>4, Zenon DEF IsTrace
<1>6. f = [n \in 0..Len(b) |-> IF n = 0 THEN s ELSE Chosen(f[n - 1], n)]
  BY <1>5, Zenon
<1>7. IsTrace(f, s, b, Len(b))
  <2>. HIDE DEF Chosen, f
  <2>1. QED
    BY <1>2, <1>6, Zenon DEF IsTrace
<1>. HIDE DEF f
<1>8. \A n \in 0..Len(b) : f[n] = IF n = 0 THEN s ELSE Reduced(f[n - 1], b[n])
  BY <1>7 DEF IsTrace
<1>9. \A n \in 0..Len(b) - 1 : n + 1 \in 0..Len(b) /\ (n + 1) - 1 = n /\ n + 1 # 0
  BY <1>3
<1>10. Runs(f, s, b, Len(b))
  BY <1>3, <1>8, <1>9 DEF Runs
<1>11. QED
  BY <1>1, <1>10

\* A batch of one event, and of two.
LEMMA OneEvent ==
  ASSUME NEW s, NEW e
  PROVE  /\ IsSequence(<<e>>) /\ Len(<<e>>) = 1 /\ <<e>>[1] = e
         /\ ReducedBatch(s, <<e>>) = Reduced(s, e)
<1>1. IsSequence(<<e>>) /\ Len(<<e>>) = 1 /\ <<e>>[1] = e
  BY DEF IsSequence, Range
<1>2. PICK f : Runs(f, s, <<e>>, 1) /\ ReducedBatch(s, <<e>>) = f[1]
  BY <1>1, BatchRuns
<1>3. 0 \in 0..1 - 1 /\ 0 + 1 = 1
  OBVIOUS
<1>4. QED
  BY <1>1, <1>2, <1>3 DEF Runs

LEMMA TwoEvents ==
  ASSUME NEW s, NEW d, NEW e
  PROVE  /\ IsSequence(<<d, e>>) /\ Len(<<d, e>>) = 2
         /\ <<d, e>>[1] = d /\ <<d, e>>[2] = e
         /\ ReducedBatch(s, <<d, e>>) = Reduced(Reduced(s, d), e)
<1>1. IsSequence(<<d, e>>) /\ Len(<<d, e>>) = 2 /\ <<d, e>>[1] = d /\ <<d, e>>[2] = e
  BY DEF IsSequence, Range
<1>2. PICK f : Runs(f, s, <<d, e>>, 2) /\ ReducedBatch(s, <<d, e>>) = f[2]
  BY <1>1, BatchRuns
<1>3. 0 \in 0..2 - 1 /\ 1 \in 0..2 - 1 /\ 0 + 1 = 1 /\ 1 + 1 = 2
  OBVIOUS
<1>4. QED
  BY <1>1, <1>2, <1>3 DEF Runs

\* What a batch does, by induction along its chain.
LEMMA BatchGrown ==
  ASSUME NEW s, Shape(s), NEW b, Typed(b)
  PROVE  Grown(s, ReducedBatch(s, b))
<1>. DEFINE m == Len(b)
<1>1. PICK f : Runs(f, s, b, m) /\ ReducedBatch(s, b) = f[m]
  BY BatchRuns DEF Typed
<1>2. m \in Nat /\ \A k \in 1..m : b[k].type \in EventTypes
  BY SequenceDomain DEF Typed
<1>. HIDE DEF m
<1>. DEFINE N == {n \in 0..m : Grown(s, f[n])}
<1>3. 0 \in N
  BY <1>1, <1>2 DEF Runs, Grown, ActsOnce, ApprovalsKept
<1>4. ASSUME NEW n \in 0..m - 1, n \in N
      PROVE  n + 1 \in N
  <2>1. Grown(s, f[n]) /\ n + 1 \in 1..m
    BY <1>2, <1>4
  <2>2. f[n + 1] = Reduced(f[n], b[n + 1]) /\ b[n + 1].type \in EventTypes
    BY <1>1, <1>2, <1>4, <2>1 DEF Runs
  <2>3. Grown(f[n], f[n + 1])
    BY <2>1, <2>2, ReducedGrown DEF Grown
  <2>4. QED
    BY <1>2, <2>1, <2>3, GrownTransitive
<1>. HIDE DEF N
<1>5. \A n \in 0..m : n \in N
  BY <1>2, <1>3, <1>4, UpTo
<1>6. QED
  BY <1>1, <1>2, <1>5 DEF N

-----------------------------------------------------------------------------
(***************************************************************************)
(* How the run of a task and its evidence go with the status of the task:  *)
(* what the commands rely on without checking it.                          *)
(***************************************************************************)
Judged == {"Verifying", "Verified", "Completed"}
Interrupted == {"Running", "Paused", "Failed", "Cancelled"}

RunFits(run, task) ==
  \/ run = "none" /\ task \in {"none", "Draft", "Approved"}
  \/ run \in Interrupted /\ task = "Running"
  \/ run = "Finished" /\ task \in Judged

EvidenceFits(s, e) ==
  s.evidence[e].status # "none" =>
    /\ s.evidence[e].task \in Tasks /\ s.task[s.evidence[e].task].status \in Judged
    /\ s.evidence[e].status = "candidate" => s.evidence[e].goal = s.goal

Consistent(s) ==
  /\ s.goal \in Nat
  /\ \A k \in Tasks : RunFits(s.run[k].status, s.task[k].status) /\ s.run[k].cursor \in Nat
  /\ \A e \in Evidence : EvidenceFits(s, e)

\* An event of a known type, about a task and a record that there may be.
EvidenceEvents ==
  {"evidence.recorded", "evidence.candidate.recorded", "evidence.verified",
   "evidence.invalidated"}

WellFormed(e) ==
  /\ e.type \in EventTypes
  /\ e.type = "executor.event.received" => e.task \in Tasks
  /\ e.type = "checkpoint.created" => e.cursor \in Nat
  /\ e.type \in EvidenceEvents => e.evidence \in Evidence /\ e.task \in Tasks

\* Nothing but these four fields is looked at.
LEMMA ConsistentSame ==
  ASSUME NEW s, NEW t, Consistent(s),
         t.goal = s.goal, t.task = s.task, t.run = s.run, t.evidence = s.evidence
  PROVE  Consistent(t)
BY DEF Consistent, EvidenceFits

\* The events that change neither tasks, runs, evidence nor the goal.
LEMMA OtherEventsConsistent ==
  ASSUME NEW s, Shape(s), Consistent(s), NEW e, NEW t \in ApplyEvent(s, e),
         e.type \in EventTypes \ ({"goal.change.approved", "requirement.planned",
           "requirement.approved", "run.started", "executor.event.received", "run.resumed",
           "run.finished", "task.completed", "checkpoint.created"} \cup EvidenceEvents)
  PROVE  Consistent(t)
<1>1. DOMAIN s = Fields
  BY DEF Shape
<1>. DEFINE Kept == /\ t.goal = s.goal /\ t.task = s.task
                    /\ t.run = s.run /\ t.evidence = s.evidence
<1>2. CASE e.type = "goal.change.proposed"
  <2>1. t \in ApplyGoalChangeProposed(s, e)
    BY <1>2 DEF ApplyEvent
  <2>2. Kept
    BY <1>1, <2>1 DEF ApplyGoalChangeProposed, When, Fields
  <2>3. QED
    BY <2>2, ConsistentSame
<1>3. CASE e.type = "context.issued"
  <2>1. t \in ApplyContextIssued(s, e)
    BY <1>3 DEF ApplyEvent
  <2>2. Kept
    BY <1>1, <2>1 DEF ApplyContextIssued, When, Fields
  <2>3. QED
    BY <2>2, ConsistentSame
<1>4. CASE e.type = "context.superseded"
  <2>1. t \in ApplyContextSuperseded(s, e)
    BY <1>4 DEF ApplyEvent
  <2>2. Kept
    BY <1>1, <2>1 DEF ApplyContextSuperseded, When, Fields
  <2>3. QED
    BY <2>2, ConsistentSame
<1>5. CASE e.type = "run.step.started"
  <2>1. t \in ApplyRunStepStarted(s, e)
    BY <1>5 DEF ApplyEvent
  <2>2. Kept
    BY <1>1, <2>1 DEF ApplyRunStepStarted, When, Fields
  <2>3. QED
    BY <2>2, ConsistentSame
<1>6. CASE e.type = "run.step.finished"
  <2>1. t \in ApplyRunStepFinished(s, e)
    BY <1>6 DEF ApplyEvent
  <2>2. Kept
    BY <1>1, <2>1 DEF ApplyRunStepFinished, When, Fields
  <2>3. QED
    BY <2>2, ConsistentSame
<1>7. CASE e.type = "changes.scanned"
  <2>1. t \in ApplyChangesScanned(s, e)
    BY <1>7 DEF ApplyEvent
  <2>2. Kept
    BY <1>1, <2>1 DEF ApplyChangesScanned, When, Fields
  <2>3. QED
    BY <2>2, ConsistentSame
<1>8. CASE e.type = "change.attributed"
  <2>1. t \in ApplyChangeAttributed(s, e)
    BY <1>8 DEF ApplyEvent
  <2>2. Kept
    BY <1>1, <2>1 DEF ApplyChangeAttributed, When, Fields
  <2>3. QED
    BY <2>2, ConsistentSame
<1>9. CASE e.type = "agent.identity.registered"
  <2>1. t \in ApplyAgentIdentityRegistered(s, e)
    BY <1>9 DEF ApplyEvent
  <2>2. Kept
    BY <1>1, <2>1 DEF ApplyAgentIdentityRegistered, When, Fields
  <2>3. QED
    BY <2>2, ConsistentSame
<1>10. CASE e.type = "agent.runtime.bound"
  <2>1. t \in ApplyRuntimeBound(s, e)
    BY <1>10 DEF ApplyEvent
  <2>2. Kept
    BY <1>1, <2>1 DEF ApplyRuntimeBound, When, Fields
  <2>3. QED
    BY <2>2, ConsistentSame
<1>11. CASE e.type = "lease.issued"
  <2>1. t \in ApplyLeaseIssued(s, e)
    BY <1>11 DEF ApplyEvent
  <2>2. Kept
    BY <1>1, <2>1 DEF ApplyLeaseIssued, When, Fields
  <2>3. QED
    BY <2>2, ConsistentSame
<1>12. CASE e.type = "lease.revoked"
  <2>1. t \in ApplyLeaseRevoked(s, e)
    BY <1>12 DEF ApplyEvent
  <2>2. Kept
    BY <1>1, <2>1 DEF ApplyLeaseRevoked, When, Fields
  <2>3. QED
    BY <2>2, ConsistentSame
<1>13. CASE e.type = "approval.requested"
  <2>1. t \in ApplyApprovalRequested(s, e)
    BY <1>13 DEF ApplyEvent
  <2>2. Kept
    BY <1>1, <2>1 DEF ApplyApprovalRequested, When, Fields
  <2>3. QED
    BY <2>2, ConsistentSame
<1>14. CASE e.type = "approval.decided"
  <2>1. t \in ApplyApprovalDecided(s, e)
    BY <1>14 DEF ApplyEvent
  <2>2. Kept
    BY <1>1, <2>1 DEF ApplyApprovalDecided, When, Fields
  <2>3. QED
    BY <2>2, ConsistentSame
<1>15. CASE e.type = "approval.invalidated"
  <2>1. t \in ApplyApprovalInvalidated(s, e)
    BY <1>15 DEF ApplyEvent
  <2>2. Kept
    BY <1>1, <2>1 DEF ApplyApprovalInvalidated, When, Fields
  <2>3. QED
    BY <2>2, ConsistentSame
<1>16. CASE e.type = "mission.issued"
  <2>1. t \in ApplyMissionIssued(s, e)
    BY <1>16 DEF ApplyEvent
  <2>2. Kept
    BY <1>1, <2>1 DEF ApplyMissionIssued, When, Fields
  <2>3. QED
    BY <2>2, ConsistentSame
<1>17. QED
  BY <1>2, <1>3, <1>4, <1>5, <1>6, <1>7, <1>8, <1>9, <1>10, <1>11,
     <1>12, <1>13, <1>14, <1>15, <1>16 DEF EventTypes, EvidenceEvents

\* What moves a task or its run moves the other along.
LEMMA RequirementPlannedConsistent ==
  ASSUME NEW s, Shape(s), Consistent(s), NEW e, NEW t \in ApplyRequirementPlanned(s, e)
  PROVE  Consistent(t)
<1>1. DOMAIN s = Fields
  BY DEF Shape
<1>2. /\ t.goal = s.goal /\ t.evidence = s.evidence
      /\ t.run = s.run
      /\ t.task = [s.task EXCEPT ![e.task] = [status |-> "Draft", goal |-> s.goal]]
      /\ s.task[e.task].status = "none"
  BY <1>1 DEF ApplyRequirementPlanned, When, Fields
<1>3. \A k \in Tasks : /\ RunFits(t.run[k].status, t.task[k].status) /\ t.run[k].cursor \in Nat
                       /\ s.task[k].status \in Judged => t.task[k].status \in Judged
  BY <1>2 DEF Consistent, RunFits, Judged, Interrupted, Shape, TaskTable, RunTable, Table
<1>4. QED
  BY <1>2, <1>3 DEF Consistent, EvidenceFits

LEMMA RequirementApprovedConsistent ==
  ASSUME NEW s, Shape(s), Consistent(s), NEW e, NEW t \in ApplyRequirementApproved(s, e)
  PROVE  Consistent(t)
<1>1. DOMAIN s = Fields
  BY DEF Shape
<1>2. /\ t.goal = s.goal /\ t.evidence = s.evidence
      /\ t.run = s.run /\ t.task = [s.task EXCEPT ![e.task].status = "Approved"]
      /\ s.task[e.task].status = "Draft"
  BY <1>1 DEF ApplyRequirementApproved, When, Fields
<1>3. \A k \in Tasks : /\ RunFits(t.run[k].status, t.task[k].status) /\ t.run[k].cursor \in Nat
                       /\ s.task[k].status \in Judged => t.task[k].status \in Judged
  BY <1>2 DEF Consistent, RunFits, Judged, Interrupted, Shape, TaskTable, RunTable, Table
<1>4. QED
  BY <1>2, <1>3 DEF Consistent, EvidenceFits

LEMMA RunStartedConsistent ==
  ASSUME NEW s, Shape(s), Consistent(s), NEW e, NEW t \in ApplyRunStarted(s, e)
  PROVE  Consistent(t)
<1>1. DOMAIN s = Fields
  BY DEF Shape
<1>2. /\ t.goal = s.goal /\ t.evidence = s.evidence
      /\ t.task = [s.task EXCEPT ![e.task].status = "Running"]
      /\ t.run = [s.run EXCEPT ![e.task] = [status |-> "Running", goal |-> s.goal,
            context |-> e.context, actor |-> e.actor, cursor |-> 0]]
      /\ s.task[e.task].status = "Approved" /\ s.run[e.task].status = "none"
  BY <1>1 DEF ApplyRunStarted, When, Fields
<1>3. \A k \in Tasks : /\ RunFits(t.run[k].status, t.task[k].status) /\ t.run[k].cursor \in Nat
                       /\ s.task[k].status \in Judged => t.task[k].status \in Judged
  BY <1>2 DEF Consistent, RunFits, Judged, Interrupted, Shape, TaskTable, RunTable, Table
<1>4. QED
  BY <1>2, <1>3 DEF Consistent, EvidenceFits

LEMMA CheckpointCreatedConsistent ==
  ASSUME NEW s, Shape(s), Consistent(s), NEW e, e.cursor \in Nat,
         NEW t \in ApplyCheckpointCreated(s, e)
  PROVE  Consistent(t)
<1>1. DOMAIN s = Fields
  BY DEF Shape
<1>2. /\ t.goal = s.goal /\ t.evidence = s.evidence
      /\ t.task = s.task
      /\ t.run = [s.run EXCEPT ![e.task].cursor = e.cursor]
      /\ s.run[e.task].status = "Running"
  BY <1>1 DEF ApplyCheckpointCreated, When, Fields
<1>3. \A k \in Tasks : /\ RunFits(t.run[k].status, t.task[k].status) /\ t.run[k].cursor \in Nat
                       /\ s.task[k].status \in Judged => t.task[k].status \in Judged
  BY <1>2 DEF Consistent, RunFits, Judged, Interrupted, Shape, TaskTable, RunTable, Table
<1>4. QED
  BY <1>2, <1>3 DEF Consistent, EvidenceFits

LEMMA RunResumedConsistent ==
  ASSUME NEW s, Shape(s), Consistent(s), NEW e, NEW t \in ApplyRunResumed(s, e)
  PROVE  Consistent(t)
<1>1. DOMAIN s = Fields
  BY DEF Shape
<1>2. /\ t.goal = s.goal /\ t.evidence = s.evidence
      /\ t.task = s.task
      /\ t.run = [s.run EXCEPT ![e.task].status = "Running"]
      /\ s.run[e.task].status \in {"Paused", "Failed"}
  BY <1>1 DEF ApplyRunResumed, When, Fields
<1>3. \A k \in Tasks : /\ RunFits(t.run[k].status, t.task[k].status) /\ t.run[k].cursor \in Nat
                       /\ s.task[k].status \in Judged => t.task[k].status \in Judged
  BY <1>2 DEF Consistent, RunFits, Judged, Interrupted, Shape, TaskTable, RunTable, Table
<1>4. QED
  BY <1>2, <1>3 DEF Consistent, EvidenceFits

LEMMA RunFinishedConsistent ==
  ASSUME NEW s, Shape(s), Consistent(s), NEW e, NEW t \in ApplyRunFinished(s, e)
  PROVE  Consistent(t)
<1>1. DOMAIN s = Fields
  BY DEF Shape
<1>2. /\ t.goal = s.goal /\ t.evidence = s.evidence
      /\ t.task = [s.task EXCEPT ![e.task].status = "Verifying"]
      /\ t.run = [s.run EXCEPT ![e.task].status = "Finished"]
      /\ s.run[e.task].status = "Running" /\ s.task[e.task].status = "Running"
  BY <1>1 DEF ApplyRunFinished, When, Fields
<1>3. \A k \in Tasks : /\ RunFits(t.run[k].status, t.task[k].status) /\ t.run[k].cursor \in Nat
                       /\ s.task[k].status \in Judged => t.task[k].status \in Judged
  BY <1>2 DEF Consistent, RunFits, Judged, Interrupted, Shape, TaskTable, RunTable, Table
<1>4. QED
  BY <1>2, <1>3 DEF Consistent, EvidenceFits

LEMMA TaskCompletedConsistent ==
  ASSUME NEW s, Shape(s), Consistent(s), NEW e, NEW t \in ApplyTaskCompleted(s, e)
  PROVE  Consistent(t)
<1>1. DOMAIN s = Fields
  BY DEF Shape
<1>2. /\ t.goal = s.goal /\ t.evidence = s.evidence
      /\ t.run = s.run /\ t.task = [s.task EXCEPT ![e.task].status = "Completed"]
      /\ s.task[e.task].status = "Verified"
  BY <1>1 DEF ApplyTaskCompleted, When, Fields
<1>3. \A k \in Tasks : /\ RunFits(t.run[k].status, t.task[k].status) /\ t.run[k].cursor \in Nat
                       /\ s.task[k].status \in Judged => t.task[k].status \in Judged
  BY <1>2 DEF Consistent, RunFits, Judged, Interrupted, Shape, TaskTable, RunTable, Table
<1>4. QED
  BY <1>2, <1>3 DEF Consistent, EvidenceFits

LEMMA ExecutorEventReceivedConsistent ==
  ASSUME NEW s, Shape(s), Consistent(s), NEW e, NEW t \in ApplyExecutorEventReceived(s, e)
  PROVE  Consistent(t)
<1>1. DOMAIN s = Fields
  BY DEF Shape
<1>2. CASE HasExecutorEvent(s, e.task, e.source)
  BY <1>2 DEF ApplyExecutorEventReceived
<1>3. CASE ~HasExecutorEvent(s, e.task, e.source)
  <2>. DEFINE status == CASE e.kind = "paused"    -> "Paused"
                          [] e.kind = "failed"    -> "Failed"
                          [] e.kind = "cancelled" -> "Cancelled"
                          [] OTHER                -> s.run[e.task].status
  <2>1. /\ t.goal = s.goal /\ t.evidence = s.evidence /\ t.task = s.task
        /\ t.run = [s.run EXCEPT ![e.task].status = status]
        /\ s.run[e.task].status = "Running"
    BY <1>1, <1>3 DEF ApplyExecutorEventReceived, When, Fields
  <2>2. status \in Interrupted
    BY <2>1 DEF Interrupted
  <2>. HIDE DEF status
  <2>3. \A k \in Tasks : RunFits(t.run[k].status, t.task[k].status) /\ t.run[k].cursor \in Nat
    BY <2>1, <2>2 DEF Consistent, RunFits, Judged, Interrupted, Shape, TaskTable, RunTable, Table
  <2>4. QED
    BY <2>1, <2>3 DEF Consistent, EvidenceFits
<1>4. QED
  BY <1>2, <1>3

\* What happens to records: candidates are of the current goal.
LEMMA EvidenceRecordedConsistent ==
  ASSUME NEW s, Shape(s), Consistent(s), NEW e, e.task \in Tasks,
         NEW t \in ApplyEvidenceRecorded(s, e)
  PROVE  Consistent(t)
<1>1. DOMAIN s = Fields
  BY DEF Shape
<1>2. /\ t.goal = s.goal /\ t.run = s.run
      /\ s.task[e.task].status = "Verifying"
      /\ t.evidence = [s.evidence EXCEPT ![e.evidence] =
            [status |-> "legacy", task |-> e.task, context |-> None,
             goal |-> 0, digest |-> None]]
      /\ t.task = [s.task EXCEPT ![e.task].status = IF e.passed THEN "Verified" ELSE @]
  BY <1>1 DEF ApplyEvidenceRecorded, When, Fields
<1>3. \A k \in Tasks : /\ RunFits(t.run[k].status, t.task[k].status)
                       /\ s.task[k].status \in Judged => t.task[k].status \in Judged
  BY <1>2 DEF Consistent, RunFits, Judged, Interrupted, Shape, TaskTable, Table
<1>4. \A i \in Evidence :
        \/ t.evidence[i] = s.evidence[i]
        \/ t.evidence[i].status = "legacy" /\ t.evidence[i].task = e.task
  BY <1>2 DEF Shape, EvidenceTable, Table
<1>5. \A i \in Evidence : EvidenceFits(t, i)
  BY <1>2, <1>3, <1>4 DEF EvidenceFits, Consistent, Judged
<1>6. QED
  BY <1>2, <1>3, <1>5 DEF Consistent

LEMMA EvidenceCandidateRecordedConsistent ==
  ASSUME NEW s, Shape(s), Consistent(s), NEW e, e.task \in Tasks,
         NEW t \in ApplyEvidenceCandidateRecorded(s, e)
  PROVE  Consistent(t)
<1>1. DOMAIN s = Fields
  BY DEF Shape
<1>2. /\ t.goal = s.goal /\ t.run = s.run /\ t.task = s.task
      /\ s.task[e.task].status = "Verifying" /\ e.goal = s.goal
      /\ t.evidence = [s.evidence EXCEPT ![e.evidence] =
            [status |-> "candidate", task |-> e.task, context |-> e.context,
             goal |-> e.goal, digest |-> None]]
  BY <1>1 DEF ApplyEvidenceCandidateRecorded, ValidContextualEvidence, When, Fields
<1>3. \A i \in Evidence :
        \/ t.evidence[i] = s.evidence[i]
        \/ t.evidence[i].task = e.task /\ t.evidence[i].goal = s.goal
  BY <1>2 DEF Shape, EvidenceTable, Table
<1>4. \A i \in Evidence : EvidenceFits(t, i)
  BY <1>2, <1>3 DEF EvidenceFits, Consistent, Judged
<1>5. QED
  BY <1>2, <1>4 DEF Consistent

\* A decision recomputes the task of its record, which is judged.
LEMMA UpdateEvidenceStatusConsistent ==
  ASSUME NEW s, Shape(s), Consistent(s), NEW e, e.evidence \in Evidence,
         NEW status \in {"verified", "invalidated"},
         NEW t \in UpdateEvidenceStatus(s, e, status)
  PROVE  Consistent(t)
<1>1. DOMAIN s = Fields
  BY DEF Shape
<1>. DEFINE record == s.evidence[e.evidence]
            r == [s EXCEPT !.evidence[e.evidence].status = status,
                           !.evidence[e.evidence].digest =
                             IF e.digest = None THEN @ ELSE e.digest]
<1>2. /\ record.status # "none" /\ record.task = e.task
      /\ t = RecomputeTaskVerification(r, e.task)
  BY DEF UpdateEvidenceStatus, When
<1>3. /\ Same(s, r, {"evidence"})
      /\ r.evidence = [s.evidence EXCEPT ![e.evidence].status = status,
                           ![e.evidence].digest =
                             IF e.digest = None THEN @ ELSE e.digest]
  BY <1>1 DEF Same, Fields
<1>. HIDE DEF r
<1>. DEFINE verified == \E i \in Evidence : /\ r.evidence[i].task = e.task
                                            /\ r.evidence[i].status = "verified"
<1>4. /\ Same(r, t, {"task"})
      /\ t.task = [r.task EXCEPT ![e.task].status =
                     IF verified THEN "Verified"
                     ELSE IF @ \in {"Verified", "Completed"} THEN "Verifying" ELSE @]
  <2>1. DOMAIN r = Fields
    BY <1>3 DEF Same
  <2>. HIDE DEF verified
  <2>2. QED
    BY <1>2, <2>1 DEF RecomputeTaskVerification, Same, Fields, verified
<1>. HIDE DEF verified
<1>5. /\ t.goal = s.goal /\ t.run = s.run /\ r.task = s.task /\ t.evidence = r.evidence
  BY <1>3, <1>4 DEF Same, Fields
<1>6. e.task \in Tasks /\ s.task[e.task].status \in Judged
  BY <1>2 DEF Consistent, EvidenceFits
<1>7. \A k \in Tasks : /\ RunFits(t.run[k].status, t.task[k].status)
                       /\ s.task[k].status \in Judged => t.task[k].status \in Judged
  BY <1>4, <1>5, <1>6 DEF Consistent, RunFits, Judged, Interrupted, Shape, TaskTable, Table
<1>8. \A i \in Evidence :
        /\ t.evidence[i].task = s.evidence[i].task /\ t.evidence[i].goal = s.evidence[i].goal
        /\ t.evidence[i].status # s.evidence[i].status =>
             i = e.evidence /\ t.evidence[i].status = status
  BY <1>3, <1>5 DEF Shape, EvidenceTable, Table
<1>9. \A i \in Evidence : EvidenceFits(t, i)
  BY <1>2, <1>5, <1>7, <1>8 DEF EvidenceFits, Consistent
<1>10. QED
  BY <1>5, <1>7, <1>9 DEF Consistent

\* A goal change leaves no candidate of an older goal.
LEMMA GoalChangeApprovedConsistent ==
  ASSUME NEW s, Shape(s), Consistent(s), NEW e,
         NEW t \in {StaleLeases(u) : u \in ApplyGoalChangeApproved(s, e)}
  PROVE  Consistent(t)
<1>1. DOMAIN s = Fields
  BY DEF Shape
<1>. DEFINE r == [s EXCEPT !.change.status = "approved", !.goal = @ + 1]
            u == MarkOlderBindingsStale(r)
<1>2. t = StaleLeases(u)
  BY DEF ApplyGoalChangeApproved, When
<1>3. /\ DOMAIN r = Fields /\ r.goal = s.goal + 1
      /\ r.task = s.task /\ r.run = s.run /\ r.evidence = s.evidence
  BY <1>1 DEF Fields
<1>. HIDE DEF r
<1>4. /\ DOMAIN u = Fields /\ u.goal = r.goal
      /\ u.task = r.task /\ u.run = r.run
      /\ u.evidence = [i \in Evidence |->
            IF r.evidence[i].status # "none" /\ r.evidence[i].goal < r.goal
            THEN [r.evidence[i] EXCEPT !.status = "stale"] ELSE r.evidence[i]]
  <2>1. DOMAIN u = Fields /\ u.goal = r.goal /\ u.task = r.task /\ u.run = r.run
    BY <1>3 DEF MarkOlderBindingsStale, Fields
  <2>2. u.evidence = [i \in Evidence |->
            IF r.evidence[i].status # "none" /\ r.evidence[i].goal < r.goal
            THEN [r.evidence[i] EXCEPT !.status = "stale"] ELSE r.evidence[i]]
    BY <1>3 DEF MarkOlderBindingsStale, Fields
  <2>3. QED
    BY <2>1, <2>2
<1>. HIDE DEF u
<1>5. /\ t.goal = s.goal + 1 /\ t.task = s.task /\ t.run = s.run
      /\ t.evidence = u.evidence
  BY <1>2, <1>3, <1>4 DEF StaleLeases, Fields
<1>6. s.goal \in Nat
  BY DEF Consistent
<1>7. \A i \in Evidence :
        /\ t.evidence[i].task = s.evidence[i].task
        /\ s.evidence[i].status = "none" => t.evidence[i].status = "none"
        /\ t.evidence[i].status = "candidate" =>
             s.evidence[i].status = "candidate" /\ ~(s.evidence[i].goal < s.goal + 1)
  BY <1>3, <1>4, <1>5 DEF Shape, EvidenceTable, Table
<1>8. \A i \in Evidence : EvidenceFits(t, i)
  BY <1>5, <1>6, <1>7 DEF EvidenceFits, Consistent
<1>9. QED
  BY <1>5, <1>6, <1>8 DEF Consistent


\* Every event that is applied keeps runs and evidence fitting.
LEMMA AppliedIsConsistent ==
  ASSUME NEW s, Shape(s), Consistent(s), NEW e, WellFormed(e), NEW t \in ApplyEvent(s, e)
  PROVE  Consistent(t)
<1>1. CASE e.type \in {"goal.change.approved", "requirement.planned", "requirement.approved"}
  BY <1>1, GoalChangeApprovedConsistent, RequirementPlannedConsistent,
     RequirementApprovedConsistent DEF ApplyEvent
<1>2. CASE e.type \in {"run.started", "run.resumed", "run.finished"}
  BY <1>2, RunStartedConsistent, RunResumedConsistent, RunFinishedConsistent DEF ApplyEvent
<1>3. CASE e.type \in {"checkpoint.created", "executor.event.received", "task.completed"}
  BY <1>3, CheckpointCreatedConsistent, ExecutorEventReceivedConsistent,
     TaskCompletedConsistent DEF ApplyEvent, WellFormed
<1>4. CASE e.type \in {"evidence.recorded", "evidence.candidate.recorded"}
  BY <1>4, EvidenceRecordedConsistent, EvidenceCandidateRecordedConsistent
     DEF ApplyEvent, WellFormed, EvidenceEvents
<1>5. CASE e.type = "evidence.verified"
  <2>1. t \in UpdateEvidenceStatus(s, e, "verified")
    BY <1>5 DEF ApplyEvent, ApplyEvidenceVerified
  <2>2. QED
    BY <1>5, <2>1, UpdateEvidenceStatusConsistent DEF WellFormed, EvidenceEvents
<1>6. CASE e.type = "evidence.invalidated"
  <2>1. t \in UpdateEvidenceStatus(s, e, "invalidated")
    BY <1>6 DEF ApplyEvent, ApplyEvidenceInvalidated
  <2>2. QED
    BY <1>6, <2>1, UpdateEvidenceStatusConsistent DEF WellFormed, EvidenceEvents
<1>7. QED
  BY <1>1, <1>2, <1>3, <1>4, <1>5, <1>6, OtherEventsConsistent DEF WellFormed, EvidenceEvents

\* A batch of such events.
WellFormedBatch(b) == IsSequence(b) /\ \A k \in 1..Len(b) : WellFormed(b[k])

\* Applied or refused.
LEMMA ReducedIsConsistent ==
  ASSUME NEW s, Shape(s), Consistent(s), NEW e, WellFormed(e)
  PROVE  Shape(Reduced(s, e)) /\ Consistent(Reduced(s, e))
<1>. DEFINE t == Reduced(s, e)
<1>1. \/ t = s
      \/ Same(s, t, {"ok"}) /\ Shape(t)
      \/ t \in ApplyEvent(s, e) /\ Good(s, e, t)
  BY ReducedCases DEF WellFormed
<1>. HIDE DEF t
<1>2. CASE t = s
  BY <1>2 DEF t
<1>3. CASE Same(s, t, {"ok"}) /\ Shape(t)
  <2>1. t.goal = s.goal /\ t.task = s.task /\ t.run = s.run /\ t.evidence = s.evidence
    BY <1>3 DEF Same, Fields
  <2>2. Consistent(t)
    BY <2>1, ConsistentSame
  <2>3. QED
    BY <1>3, <2>2 DEF t
<1>4. CASE t \in ApplyEvent(s, e) /\ Good(s, e, t)
  <2>1. Consistent(t) /\ Shape(t)
    BY <1>4, AppliedIsConsistent DEF Good
  <2>2. QED
    BY <2>1 DEF t
<1>5. QED
  BY <1>1, <1>2, <1>3, <1>4

\* A batch keeps the state consistent, and only grows it.
LEMMA BatchIsConsistent ==
  ASSUME NEW s, Shape(s), Consistent(s), NEW b, WellFormedBatch(b)
  PROVE  Consistent(ReducedBatch(s, b)) /\ Grown(s, ReducedBatch(s, b))
<1>. DEFINE m == Len(b)
<1>1. PICK f : Runs(f, s, b, m) /\ ReducedBatch(s, b) = f[m]
  BY BatchRuns DEF WellFormedBatch
<1>2. m \in Nat /\ \A k \in 1..m : WellFormed(b[k])
  BY SequenceDomain DEF WellFormedBatch
<1>0. Typed(b)
  BY DEF WellFormedBatch, WellFormed, Typed
<1>. HIDE DEF m
<1>. DEFINE N == {n \in 0..m : Shape(f[n]) /\ Consistent(f[n])}
<1>3. 0 \in N
  BY <1>1, <1>2 DEF Runs
<1>4. ASSUME NEW n \in 0..m - 1, n \in N
      PROVE  n + 1 \in N
  <2>1. Shape(f[n]) /\ Consistent(f[n]) /\ n + 1 \in 1..m
    BY <1>2, <1>4
  <2>2. f[n + 1] = Reduced(f[n], b[n + 1]) /\ WellFormed(b[n + 1])
    BY <1>1, <1>2, <1>4, <2>1 DEF Runs
  <2>3. Shape(f[n + 1]) /\ Consistent(f[n + 1])
    BY <2>1, <2>2, ReducedIsConsistent
  <2>4. QED
    BY <1>2, <2>1, <2>3
<1>. HIDE DEF N
<1>5. \A n \in 0..m : n \in N
  BY <1>2, <1>3, <1>4, UpTo
<1>6. QED
  BY <1>0, <1>1, <1>2, <1>5, BatchGrown DEF N

\* The state of a project that has no events yet but its first.
LEMMA InitializedIsSound ==
  /\ Shape(Initialized) /\ Consistent(Initialized)
  /\ DecidedProperly(Initialized) /\ RisksApproved(Initialized)
<1>1. /\ DOMAIN Initialized = Fields
      /\ \A f \in DOMAIN LifecycleStart : Initialized[f] = LifecycleStart[f]
      /\ \A f \in DOMAIN MissionStart : Initialized[f] = MissionStart[f]
      /\ Initialized.ok = TRUE
  <2>1. /\ DOMAIN LifecycleStart = {"goal", "change", "task", "context", "run", "step",
                                    "received", "evidence", "changed", "credited"}
        /\ DOMAIN MissionStart = {"agent", "binding", "lease", "approval", "missions"}
    BY DEF LifecycleStart, MissionStart
  <2>2. QED
    BY <2>1 DEF Initialized, Fields
<1>2. /\ Initialized.goal = 1 /\ Initialized.change = [status |-> "none", base |-> 0]
      /\ Initialized.task = [k \in Tasks |-> [status |-> "none", goal |-> 0]]
      /\ Initialized.context = [c \in Contexts |->
            [task |-> None, goal |-> 0, superseded |-> FALSE]]
      /\ Initialized.run = [k \in Tasks |->
            [status |-> "none", goal |-> 0, context |-> None, actor |-> None, cursor |-> 0]]
      /\ Initialized.step = [k \in Steps |-> [run |-> None, status |-> "none"]]
      /\ Initialized.evidence = [k \in Evidence |->
            [status |-> "none", task |-> None, context |-> None, goal |-> 0, digest |-> None]]
  BY <1>1 DEF LifecycleStart
<1>3. /\ Initialized.agent = [a \in Agents |-> None]
      /\ Initialized.binding = [a \in Agents |-> <<>>]
      /\ Initialized.lease = [l \in MissionLeases |->
            [status |-> "none", subject |-> None, task |-> None,
             context |-> None, env |-> None, goal |-> 0, scope |-> {}]]
      /\ Initialized.approval = [a \in Approvals |->
            [status |-> "none", subject |-> None, hash |-> None,
             risk |-> "L0", requester |-> None, decider |-> None]]
      /\ Initialized.missions = {}
  BY <1>1 DEF MissionStart
<1>4. Shape(Initialized)
  <2>1. TaskTable(Initialized.task) /\ ContextTable(Initialized.context)
    BY <1>2 DEF TaskTable, ContextTable, Table
  <2>2. RunTable(Initialized.run) /\ StepTable(Initialized.step)
    BY <1>2 DEF RunTable, StepTable, Table
  <2>3. EvidenceTable(Initialized.evidence)
    BY <1>2 DEF EvidenceTable, Table
  <2>4. LeaseTable(Initialized.lease) /\ ApprovalTable(Initialized.approval)
    BY <1>3 DEF LeaseTable, ApprovalTable, Table
  <2>5. BindingTable(Initialized.binding)
    BY <1>3 DEF BindingTable, IsSequence
  <2>6. QED
    BY <1>1, <1>2, <1>3, <2>1, <2>2, <2>3, <2>4, <2>5 DEF Shape
<1>5. Consistent(Initialized)
  BY <1>2 DEF Consistent, RunFits, EvidenceFits
<1>6. QED
  BY <1>3, <1>4, <1>5 DEF DecidedProperly, RisksApproved

-----------------------------------------------------------------------------
(***************************************************************************)
(* What a command offers to append, in the state it was prepared in: a     *)
(* batch the reducer admits, apart from the three the property names, and  *)
(* what the batch does to completed tasks and to bindings.                 *)
(***************************************************************************)
\* The bindings change only if the runtime of some agent does.
RuntimeMoves(s, t) ==
  t.binding # s.binding =>
    \E a \in Agents : /\ t.binding[a] # <<>>
                      /\ s.binding[a] # <<>> => Last(t.binding[a]) # Last(s.binding[a])

ReopenedByDecision(s, t) ==
  \A k \in Tasks :
    (s.task[k].status = "Completed" /\ t.task[k].status # "Completed") =>
      \E e \in Evidence : /\ s.evidence[e].task = k
                          /\ s.evidence[e].status \in {"candidate", "verified"}
                          /\ t.evidence[e].status = "invalidated"

CompletedByBatch(s, b, t) ==
  \A k \in Tasks :
    (t.task[k].status = "Completed" /\ s.task[k].status # "Completed") =>
      Completes(b) /\ b[1].task = k

UncheckedBatch(s, b) ==
  \/ /\ b[1].type = "evidence.verified"
     /\ s.task[b[1].task].status \in {"Verified", "Completed"}
  \/ /\ b[1].type = "mission.issued"
     /\ \E m \in s.missions : m.id = b[1].envelope.id

Effects(s, b, t) ==
  ReopenedByDecision(s, t) /\ CompletedByBatch(s, b, t) /\ RuntimeMoves(s, t)

Offers(s, b) ==
  /\ WellFormedBatch(b) /\ Len(b) > 0 /\ Effects(s, b, ReducedBatch(s, b))
  /\ ReducedBatch(s, b).ok \/ UncheckedBatch(s, b)

\* The events that are about neither completed tasks nor bindings.
PlainTypes == EventTypes \ {"task.completed", "evidence.invalidated", "agent.runtime.bound"}

\* What a plain event keeps, applied or refused.
Kept(s, t) ==
  /\ t.binding = s.binding
  /\ \A k \in Tasks : t.task[k].status = "Completed" <=> s.task[k].status = "Completed"

\* A plain event keeps completed tasks and bindings.
LEMMA PlainKeeps ==
  ASSUME NEW s, Shape(s), NEW e, e.type \in PlainTypes
  PROVE  Kept(s, Reduced(s, e))
<1>. DEFINE t == Reduced(s, e)
<1>. SUFFICES Kept(s, t)
  OBVIOUS
<1>1. \/ t = s
      \/ Same(s, t, {"ok"})
      \/ Good(s, e, t)
  BY ReducedCases DEF PlainTypes
<1>. HIDE DEF t
<1>2. CASE Same(s, t, {"ok"})
  BY <1>2 DEF Same, Fields, Kept
<1>3. CASE Good(s, e, t)
  BY <1>3 DEF Good, TasksKept, BindingsKept, Kept, PlainTypes
<1>4. QED
  BY <1>1, <1>2, <1>3 DEF Kept

LEMMA KeptEffects ==
  ASSUME NEW s, NEW t, NEW b, Kept(s, t)
  PROVE  Effects(s, b, t)
BY DEF Kept, Effects, ReopenedByDecision, CompletedByBatch, RuntimeMoves

\* An event with a next state is applied.
LEMMA Applies ==
  ASSUME NEW s, Shape(s), s.ok, NEW e, e.type \in EventTypes, ApplyEvent(s, e) # {}
  PROVE  /\ Reduced(s, e) \in ApplyEvent(s, e) /\ Good(s, e, Reduced(s, e))
         /\ Reduced(s, e).ok /\ Shape(Reduced(s, e))
BY ReducedCases DEF Good

\* A command of one plain event offers it.
LEMMA OneOffers ==
  ASSUME NEW s, Shape(s), s.ok, NEW e, WellFormed(e), e.type \in PlainTypes,
         ApplyEvent(s, e) # {} \/ UncheckedBatch(s, <<e>>)
  PROVE  Offers(s, <<e>>)
<1>1. /\ IsSequence(<<e>>) /\ Len(<<e>>) = 1 /\ <<e>>[1] = e
      /\ ReducedBatch(s, <<e>>) = Reduced(s, e)
  BY OneEvent
<1>2. Reduced(s, e).ok \/ UncheckedBatch(s, <<e>>)
  BY Applies DEF WellFormed
<1>3. Effects(s, <<e>>, Reduced(s, e))
  BY PlainKeeps, KeptEffects
<1>4. WellFormedBatch(<<e>>)
  BY <1>1 DEF WellFormedBatch
<1>5. QED
  BY <1>1, <1>2, <1>3, <1>4 DEF Offers

\* A command of two plain events offers them.
LEMMA TwoOffers ==
  ASSUME NEW s, Shape(s), s.ok, NEW d, NEW e, WellFormed(d), WellFormed(e),
         d.type \in PlainTypes, e.type \in PlainTypes,
         Reduced(Reduced(s, d), e).ok
  PROVE  Offers(s, <<d, e>>)
<1>1. /\ IsSequence(<<d, e>>) /\ Len(<<d, e>>) = 2
      /\ <<d, e>>[1] = d /\ <<d, e>>[2] = e
      /\ ReducedBatch(s, <<d, e>>) = Reduced(Reduced(s, d), e)
  BY TwoEvents
<1>2. Shape(Reduced(s, d))
  BY ReducedGrown DEF WellFormed, Grown
<1>3. Kept(s, Reduced(Reduced(s, d), e))
  BY <1>2, PlainKeeps DEF Kept
<1>4. WellFormedBatch(<<d, e>>)
  BY <1>1 DEF WellFormedBatch
<1>5. QED
  BY <1>1, <1>3, <1>4, KeptEffects DEF Offers
-----------------------------------------------------------------------------
LEMMA PlanOffers ==
  ASSUME NEW s, Shape(s), s.ok, NEW b \in Plan(s)
  PROVE  Offers(s, b)
<1>1. PICK k \in Tasks : /\ s.task[k].status = "none"
                         /\ b = <<[type |-> "requirement.planned", task |-> k]>>
  BY DEF Plan
<1>. DEFINE e == [type |-> "requirement.planned", task |-> k]
<1>2. e.type = "requirement.planned" /\ e.task = k
  OBVIOUS
<1>. HIDE DEF e
<1>3. ApplyEvent(s, e) # {}
  BY <1>1, <1>2 DEF ApplyEvent, ApplyRequirementPlanned, When
<1>4. WellFormed(e) /\ e.type \in PlainTypes
  BY <1>2 DEF WellFormed, EventTypes, EvidenceEvents, PlainTypes
<1>5. QED
  BY <1>1, <1>3, <1>4, OneOffers DEF e

LEMMA ApproveOffers ==
  ASSUME NEW s, Shape(s), Consistent(s), s.ok, NEW a, NEW b \in Approve(s, a)
  PROVE  Offers(s, b)
<1>1. PICK k \in Tasks :
        /\ s.task[k].status = "Draft"
        /\ b = <<[type |-> "requirement.approved", task |-> k]>>
  BY DEF Approve
<1>. DEFINE e == [type |-> "requirement.approved", task |-> k]
<1>2. e.type = "requirement.approved" /\ e.task = k
  OBVIOUS
<1>. HIDE DEF e
<1>3. ApplyEvent(s, e) # {}
  BY <1>1, <1>2 DEF ApplyEvent, ApplyRequirementApproved, When
<1>4. WellFormed(e) /\ e.type \in PlainTypes
  BY <1>1, <1>2 DEF WellFormed, EventTypes, EvidenceEvents, PlainTypes
<1>5. QED
  BY <1>1, <1>3, <1>4, OneOffers DEF e

LEMMA StartRunOffers ==
  ASSUME NEW s, Shape(s), Consistent(s), s.ok, NEW a, NEW b \in StartRun(s, a)
  PROVE  Offers(s, b)
<1>1. PICK k \in Tasks, c \in Contexts \cup {None} :
        /\ s.task[k].status = "Approved"
        /\ c # None => s.context[c] = [task |-> k, goal |-> s.goal, superseded |-> FALSE]
        /\ b = <<[type |-> "run.started", task |-> k, context |-> c, actor |-> a]>>
  BY DEF StartRun, CurrentContext
<1>. DEFINE e == [type |-> "run.started", task |-> k, context |-> c, actor |-> a]
<1>2. e.type = "run.started" /\ e.task = k /\ e.context = c /\ e.actor = a
  OBVIOUS
<1>. HIDE DEF e
<1>0. s.run[k].status = "none"
  BY <1>1 DEF Consistent, RunFits, Judged
<1>3. ApplyEvent(s, e) # {}
  BY <1>1, <1>2, <1>0 DEF ApplyEvent, ApplyRunStarted, When
<1>4. WellFormed(e) /\ e.type \in PlainTypes
  BY <1>1, <1>2 DEF WellFormed, EventTypes, EvidenceEvents, PlainTypes
<1>5. QED
  BY <1>1, <1>3, <1>4, OneOffers DEF e

LEMMA FinishRunOffers ==
  ASSUME NEW s, Shape(s), Consistent(s), s.ok, NEW a, NEW b \in FinishRun(s, a)
  PROVE  Offers(s, b)
<1>1. PICK k \in Tasks :
        /\ s.run[k].status = "Running"
        /\ b = <<[type |-> "run.finished", task |-> k]>>
  BY DEF FinishRun
<1>. DEFINE e == [type |-> "run.finished", task |-> k]
<1>2. e.type = "run.finished" /\ e.task = k
  OBVIOUS
<1>. HIDE DEF e
<1>0. s.task[k].status = "Running"
  BY <1>1 DEF Consistent, RunFits, Judged
<1>3. ApplyEvent(s, e) # {}
  BY <1>1, <1>2, <1>0 DEF ApplyEvent, ApplyRunFinished, When
<1>4. WellFormed(e) /\ e.type \in PlainTypes
  BY <1>1, <1>2 DEF WellFormed, EventTypes, EvidenceEvents, PlainTypes
<1>5. QED
  BY <1>1, <1>3, <1>4, OneOffers DEF e

LEMMA RecordScanOffers ==
  ASSUME NEW s, Shape(s), Consistent(s), s.ok, NEW w, NEW b \in RecordScan(w)
  PROVE  Offers(s, b)
<1>1. PICK f :
        /\ f = w
        /\ b = <<[type |-> "changes.scanned", files |-> w]>>
  BY DEF RecordScan
<1>. DEFINE e == [type |-> "changes.scanned", files |-> w]
<1>2. e.type = "changes.scanned" /\ e.files = w
  OBVIOUS
<1>. HIDE DEF e
<1>3. ApplyEvent(s, e) # {}
  BY <1>1, <1>2 DEF ApplyEvent, ApplyChangesScanned, When
<1>4. WellFormed(e) /\ e.type \in PlainTypes
  BY <1>1, <1>2 DEF WellFormed, EventTypes, EvidenceEvents, PlainTypes
<1>5. QED
  BY <1>1, <1>3, <1>4, OneOffers DEF e

LEMMA AttributeChangeOffers ==
  ASSUME NEW s, Shape(s), Consistent(s), s.ok, NEW b \in AttributeChange(s)
  PROVE  Offers(s, b)
<1>1. PICK f \in Paths, k \in Tasks \cup {Manual} :
        /\ s.changed[f] # Baseline
        /\ k = Manual \/ s.task[k].status # "none"
        /\ b = <<[type |-> "change.attributed", path |-> f, version |-> s.changed[f], to |-> k]>>
  BY DEF AttributeChange
<1>. DEFINE e == [type |-> "change.attributed", path |-> f, version |-> s.changed[f], to |-> k]
<1>2. e.type = "change.attributed" /\ e.path = f /\ e.version = s.changed[f] /\ e.to = k
  OBVIOUS
<1>. HIDE DEF e
<1>3. ApplyEvent(s, e) # {}
  BY <1>1, <1>2 DEF ApplyEvent, ApplyChangeAttributed, When
<1>4. WellFormed(e) /\ e.type \in PlainTypes
  BY <1>1, <1>2 DEF WellFormed, EventTypes, EvidenceEvents, PlainTypes
<1>5. QED
  BY <1>1, <1>3, <1>4, OneOffers DEF e

LEMMA VerifyOffers ==
  ASSUME NEW s, Shape(s), Consistent(s), s.ok, NEW w, NEW b \in Verify(s, w)
  PROVE  Offers(s, b)
<1>1. PICK k \in Tasks, i \in Evidence, v \in BOOLEAN :
        /\ s.task[k].status = "Verifying"
        /\ s.evidence[i].status = "none"
        /\ b = <<[type |-> "evidence.recorded", task |-> k, evidence |-> i, passed |-> v]>>
  BY DEF Verify, FreshEvidence, Fresh
<1>. DEFINE e == [type |-> "evidence.recorded", task |-> k, evidence |-> i, passed |-> v]
<1>2. e.type = "evidence.recorded" /\ e.task = k /\ e.evidence = i /\ e.passed = v
  OBVIOUS
<1>. HIDE DEF e
<1>3. ApplyEvent(s, e) # {}
  BY <1>1, <1>2 DEF ApplyEvent, ApplyEvidenceRecorded, When
<1>4. WellFormed(e) /\ e.type \in PlainTypes
  BY <1>1, <1>2 DEF WellFormed, EventTypes, EvidenceEvents, PlainTypes
<1>5. QED
  BY <1>1, <1>3, <1>4, OneOffers DEF e

LEMMA ResumeRunOffers ==
  ASSUME NEW s, Shape(s), Consistent(s), s.ok, NEW a, NEW b \in ResumeRun(s, a)
  PROVE  Offers(s, b)
<1>1. PICK k \in Tasks :
        /\ s.run[k].status \in {"Paused", "Failed"} /\ s.run[k].cursor # 0
        /\ s.run[k].context # None
        /\ s.context[s.run[k].context] = [task |-> k, goal |-> s.run[k].goal, superseded |-> FALSE]
        /\ b = <<[type |-> "run.resumed", task |-> k, cursor |-> s.run[k].cursor]>>
  BY DEF ResumeRun, CurrentExecutionRun, CurrentContext
<1>. DEFINE e == [type |-> "run.resumed", task |-> k, cursor |-> s.run[k].cursor]
<1>2. e.type = "run.resumed" /\ e.task = k /\ e.cursor = s.run[k].cursor
  OBVIOUS
<1>. HIDE DEF e
<1>0. s.task[k].status = "Running"
  BY <1>1 DEF Consistent, RunFits, Interrupted, Judged
<1>3. ApplyEvent(s, e) # {}
  BY <1>1, <1>2, <1>0 DEF ApplyEvent, ApplyRunResumed, RunContextCurrent, When
<1>4. WellFormed(e) /\ e.type \in PlainTypes
  BY <1>1, <1>2 DEF WellFormed, EventTypes, EvidenceEvents, PlainTypes
<1>5. QED
  BY <1>1, <1>3, <1>4, OneOffers DEF e

LEMMA RequestApprovalOffers ==
  ASSUME NEW s, Shape(s), Consistent(s), s.ok, NEW d, NEW a, NEW risk,
         NEW b \in RequestApproval(s, d, risk, a)
  PROVE  Offers(s, b)
<1>1. PICK i \in Approvals, h \in PrepareMission(s, d) \cup {None} :
        /\ s.approval[i].status = "none"
        /\ b = <<[type |-> "approval.requested", approval |-> i,
                  subject |-> d.id, hash |-> h, risk |-> risk, actor |-> a]>>
  BY DEF RequestApproval, FreshApproval, Fresh
<1>. DEFINE e == [type |-> "approval.requested", approval |-> i,
                  subject |-> d.id, hash |-> h, risk |-> risk, actor |-> a]
<1>2. /\ e.type = "approval.requested" /\ e.approval = i /\ e.subject = d.id
      /\ e.hash = h /\ e.risk = risk /\ e.actor = a
  OBVIOUS
<1>. HIDE DEF e
<1>3. ApplyEvent(s, e) # {}
  BY <1>1, <1>2 DEF ApplyEvent, ApplyApprovalRequested, When
<1>4. WellFormed(e) /\ e.type \in PlainTypes
  BY <1>1, <1>2 DEF WellFormed, EventTypes, EvidenceEvents, PlainTypes
<1>5. QED
  BY <1>1, <1>3, <1>4, OneOffers DEF e


LEMMA CheckpointOffers ==
  ASSUME NEW s, Shape(s), Consistent(s), s.ok, NEW a, NEW cursors \in SUBSET Nat,
         NEW b \in CreateCheckpoint(s, a, cursors)
  PROVE  Offers(s, b)
<1>1. PICK k \in Tasks, n \in cursors :
        /\ s.run[k].status = "Running" /\ s.run[k].context # None
        /\ s.context[s.run[k].context] = [task |-> k, goal |-> s.run[k].goal, superseded |-> FALSE]
        /\ b = <<[type |-> "checkpoint.created", task |-> k, step |-> None, cursor |-> n]>>
  BY DEF CreateCheckpoint, CurrentExecutionRun, CurrentContext
<1>. DEFINE e == [type |-> "checkpoint.created", task |-> k, step |-> None, cursor |-> n]
<1>2. e.type = "checkpoint.created" /\ e.task = k /\ e.step = None /\ e.cursor = n
  OBVIOUS
<1>. HIDE DEF e
<1>3. ApplyEvent(s, e) # {}
  BY <1>1, <1>2 DEF ApplyEvent, ApplyCheckpointCreated, RunContextCurrent, When
<1>4. WellFormed(e) /\ e.type \in PlainTypes
  BY <1>1, <1>2 DEF WellFormed, EventTypes, EvidenceEvents, PlainTypes
<1>5. QED
  BY <1>1, <1>3, <1>4, OneOffers DEF e

LEMMA StepOffers ==
  ASSUME NEW s, Shape(s), Consistent(s), s.ok, NEW a, NEW b \in StepCommand(s, a)
  PROVE  Offers(s, b)
<1>1. PICK y \in {"run.step.started", "run.step.finished"}, k \in Tasks, i \in Steps :
        /\ s.run[k].status = "Running"
        /\ IF y = "run.step.started" THEN s.step[i].run = None
           ELSE s.step[i] = [run |-> k, status |-> "started"]
        /\ b = <<[type |-> y, task |-> k, step |-> i]>>
  BY DEF StepCommand
<1>. DEFINE e == [type |-> y, task |-> k, step |-> i]
<1>2. e.type = y /\ e.task = k /\ e.step = i
  OBVIOUS
<1>. HIDE DEF e
<1>3. ApplyEvent(s, e) # {}
  <2>1. CASE y = "run.step.started"
    BY <1>1, <1>2, <2>1 DEF ApplyEvent, ApplyRunStepStarted, When
  <2>2. CASE y = "run.step.finished"
    BY <1>1, <1>2, <2>2 DEF ApplyEvent, ApplyRunStepFinished, When
  <2>3. QED
    BY <2>1, <2>2
<1>4. WellFormed(e) /\ e.type \in PlainTypes
  BY <1>1, <1>2 DEF WellFormed, EventTypes, EvidenceEvents, PlainTypes
<1>5. QED
  BY <1>1, <1>3, <1>4, OneOffers DEF e

LEMMA DecideOffers ==
  ASSUME NEW s, Shape(s), Consistent(s), s.ok, NEW i \in Approvals,
         NEW v \in {"approved", "rejected"}, NEW a,
         NEW b \in DecideApproval(s, i, v, a)
  PROVE  Offers(s, b)
<1>. DEFINE d == [type |-> "approval.decided", approval |-> i, actor |-> a,
                  hash |-> s.approval[i].hash, decision |-> v]
            e == [type |-> "approval.invalidated", approval |-> i, actor |-> a]
<1>1. Decides(s, [approval |-> i, actor |-> a]) /\ b \in {<<d>>, <<e>>}
  BY DEF DecideApproval
<1>2. /\ d.type = "approval.decided" /\ d.approval = i /\ d.actor = a
      /\ d.hash = s.approval[i].hash /\ d.decision = v
      /\ e.type = "approval.invalidated" /\ e.approval = i /\ e.actor = a
  OBVIOUS
<1>. HIDE DEF d, e
<1>3. Decides(s, d) /\ Decides(s, e)
  BY <1>1, <1>2 DEF Decides
<1>4. ApplyEvent(s, d) # {} /\ ApplyEvent(s, e) # {}
  BY <1>2, <1>3 DEF ApplyEvent, ApplyApprovalDecided, ApplyApprovalInvalidated, When
<1>5. WellFormed(d) /\ WellFormed(e) /\ d.type \in PlainTypes /\ e.type \in PlainTypes
  BY <1>2 DEF WellFormed, EventTypes, EvidenceEvents, PlainTypes
<1>6. QED
  BY <1>1, <1>4, <1>5, OneOffers

LEMMA BuildContextOffers ==
  ASSUME NEW s, Shape(s), Consistent(s), s.ok, NEW b \in BuildContext(s)
  PROVE  Offers(s, b)
<1>. DEFINE d(k, c) == [type |-> "context.issued", task |-> k, context |-> c, goal |-> s.goal]
            e(o) == [type |-> "context.superseded", context |-> o]
<1>1. PICK k \in Tasks, c \in Contexts :
        /\ s.task[k].status = "Approved" /\ s.context[c].task = None
        /\ \/ b = <<d(k, c)>>
           \/ \E o \in Contexts : /\ s.context[o].task = k /\ ~s.context[o].superseded
                                  /\ b = <<d(k, c), e(o)>>
  BY DEF BuildContext, Fresh
<1>2. /\ d(k, c).type = "context.issued" /\ d(k, c).task = k
      /\ d(k, c).context = c /\ d(k, c).goal = s.goal
      /\ \A o : e(o).type = "context.superseded" /\ e(o).context = o
  OBVIOUS
<1>. HIDE DEF d, e
<1>3. ApplyEvent(s, d(k, c)) # {}
  BY <1>1, <1>2 DEF ApplyEvent, ApplyContextIssued, When
<1>4. /\ WellFormed(d(k, c)) /\ d(k, c).type \in PlainTypes
      /\ \A o : WellFormed(e(o)) /\ e(o).type \in PlainTypes
  BY <1>2 DEF WellFormed, EventTypes, EvidenceEvents, PlainTypes
<1>5. CASE b = <<d(k, c)>>
  BY <1>3, <1>4, <1>5, OneOffers
<1>6. ASSUME NEW o \in Contexts, s.context[o].task = k, ~s.context[o].superseded,
             b = <<d(k, c), e(o)>>
      PROVE  Offers(s, b)
  <2>. DEFINE t == Reduced(s, d(k, c))
  <2>1. t \in ApplyEvent(s, d(k, c)) /\ t.ok /\ Shape(t)
    BY <1>3, <1>4, Applies DEF WellFormed
  <2>. HIDE DEF t
  <2>2. t.context = [s.context EXCEPT ![c] = [task |-> k, goal |-> s.goal, superseded |-> FALSE]]
    <3>1. DOMAIN s = Fields
      BY DEF Shape
    <3>2. t \in ApplyContextIssued(s, d(k, c))
      BY <1>2, <2>1 DEF ApplyEvent
    <3>3. t = [s EXCEPT !.context[c] = [task |-> k, goal |-> s.goal, superseded |-> FALSE]]
      BY <1>2, <3>2 DEF ApplyContextIssued, When
    <3>4. QED
      BY <3>1, <3>3 DEF Fields
  <2>3. k # None
    BY <1>1, IdsAssumption
  <2>4. t.context[o].task # None /\ ~t.context[o].superseded
    BY <1>1, <1>6, <2>2, <2>3 DEF Shape, ContextTable, Table
  <2>5. ApplyEvent(t, e(o)) # {}
    BY <1>2, <2>4 DEF ApplyEvent, ApplyContextSuperseded, When
  <2>6. Reduced(t, e(o)).ok
    BY <1>4, <2>1, <2>5, Applies DEF WellFormed
  <2>7. QED
    BY <1>4, <1>6, <2>6, TwoOffers DEF t
<1>7. QED
  BY <1>1, <1>5, <1>6


LEMMA RecordCandidateOffers ==
  ASSUME NEW s, Shape(s), Consistent(s), s.ok, NEW b \in RecordEvidenceCandidate(s)
  PROVE  Offers(s, b)
<1>1. PICK k \in Tasks, i \in FreshEvidence(s) :
        /\ s.task[k].status = "Verifying" /\ CurrentRun(s, k)
        /\ b = <<[type |-> "evidence.candidate.recorded", task |-> k, evidence |-> i,
                  context |-> s.run[k].context, goal |-> s.goal]>>
  BY DEF RecordEvidenceCandidate
<1>. DEFINE c == s.run[k].context
            e == [type |-> "evidence.candidate.recorded", task |-> k, evidence |-> i,
                  context |-> c, goal |-> s.goal]
<1>2. /\ e.type = "evidence.candidate.recorded" /\ e.task = k /\ e.evidence = i
      /\ e.context = c /\ e.goal = s.goal
  OBVIOUS
<1>3. i \in Evidence /\ s.evidence[i].status = "none"
  BY DEF FreshEvidence, Fresh
<1>4. /\ s.run[k].status = "Finished" /\ s.run[k].context # None
      /\ s.context[c].task = k /\ s.context[c].goal = s.goal
  BY <1>1 DEF CurrentRun, CurrentContext
<1>. HIDE DEF e
<1>5. ApplyEvent(s, e) # {}
  <2>1. ValidContextualEvidence(s, e)
    BY <1>1, <1>2, <1>4 DEF ValidContextualEvidence
  <2>2. QED
    BY <1>2, <1>3, <2>1 DEF ApplyEvent, ApplyEvidenceCandidateRecorded, When
<1>6. WellFormed(e) /\ e.type \in PlainTypes
  BY <1>2, <1>3 DEF WellFormed, EventTypes, EvidenceEvents, PlainTypes
<1>7. QED
  BY <1>1, <1>5, <1>6, OneOffers DEF e

\* A decision of the verifier: the record it is about was open.
LEMMA VerifyEvidenceOffers ==
  ASSUME NEW s, Shape(s), Consistent(s), s.ok, NEW w, NEW i \in Evidence, NEW last, NEW sound,
         NEW b \in VerifyEvidence(s, w, i, last, sound)
  PROVE  Offers(s, b)
<1>. DEFINE record == s.evidence[i]
            k == record.task
            decision == Decision(s, w, i, last, sound)
            e == [type     |-> IF decision = "verified" THEN "evidence.verified"
                                                         ELSE "evidence.invalidated",
                  task     |-> record.task, evidence |-> i,
                  context  |-> record.context, goal |-> record.goal,
                  digest   |-> IF decision = "stale" THEN None ELSE w]
<1>1. record.status = "candidate" /\ b = <<e>>
  BY DEF VerifyEvidence
<1>2. /\ e.task = k /\ e.evidence = i /\ e.context = record.context /\ e.goal = record.goal
      /\ e.type = IF decision = "verified" THEN "evidence.verified" ELSE "evidence.invalidated"
  OBVIOUS
<1>3. k \in Tasks /\ record.goal = s.goal
  BY <1>1 DEF Consistent, EvidenceFits
<1>4. decision = "verified" => CurrentRun(s, k) /\ s.run[k].context = record.context
  BY DEF Decision
<1>. HIDE DEF decision, e
<1>5. WellFormed(e)
  BY <1>2, <1>3 DEF WellFormed, EventTypes, EvidenceEvents
<1>6. CASE decision = "verified"
  <2>1. e.type = "evidence.verified"
    BY <1>2, <1>6
  <2>2. /\ s.run[k].status = "Finished" /\ s.run[k].context # None
        /\ s.context[record.context].task = k /\ s.context[record.context].goal = s.goal
    BY <1>4, <1>6 DEF CurrentRun, CurrentContext
  <2>3. CASE s.task[k].status = "Verifying"
    <3>1. ValidContextualEvidence(s, e)
      BY <1>2, <1>3, <1>4, <1>6, <2>2, <2>3 DEF ValidContextualEvidence
    <3>2. ApplyEvent(s, e) # {}
      BY <1>1, <1>2, <2>1, <3>1 DEF ApplyEvent, ApplyEvidenceVerified, UpdateEvidenceStatus, When
    <3>3. QED
      BY <1>1, <1>5, <2>1, <3>2, OneOffers DEF PlainTypes, EventTypes
  <2>4. CASE s.task[k].status # "Verifying"
    <3>1. s.task[k].status \in {"Verified", "Completed"}
      BY <1>3, <2>2, <2>4 DEF Consistent, RunFits, Judged, Interrupted
    <3>2. UncheckedBatch(s, <<e>>)
      BY <1>2, <2>1, <3>1, OneEvent DEF UncheckedBatch
    <3>3. QED
      BY <1>1, <1>5, <2>1, <3>2, OneOffers DEF PlainTypes, EventTypes
  <2>5. QED
    BY <2>3, <2>4
<1>7. CASE decision # "verified"
  <2>1. e.type = "evidence.invalidated"
    BY <1>2, <1>7
  <2>2. ApplyEvent(s, e) # {}
    BY <1>1, <1>2, <2>1 DEF ApplyEvent, ApplyEvidenceInvalidated, UpdateEvidenceStatus, When
  <2>. DEFINE t == Reduced(s, e)
  <2>3. Good(s, e, t) /\ t.ok
    BY <1>5, <2>2, Applies DEF WellFormed
  <2>. HIDE DEF t
  <2>4. ReopenedByDecision(s, t)
    BY <1>1, <1>2, <2>1, <2>3 DEF Good, TasksKept, EvidenceKept, ReopenedByDecision
  <2>5. CompletedByBatch(s, b, t)
    BY <2>1, <2>3 DEF Good, TasksKept, CompletedByBatch
  <2>6. t.binding = s.binding
    BY <2>1, <2>3 DEF Good, BindingsKept
  <2>7. Effects(s, b, t)
    BY <2>4, <2>5, <2>6 DEF Effects, RuntimeMoves
  <2>8. WellFormedBatch(b) /\ Len(b) > 0 /\ ReducedBatch(s, b) = t
    BY <1>1, <1>5, OneEvent DEF WellFormedBatch, t
  <2>9. QED
    BY <2>3, <2>7, <2>8 DEF Offers
<1>8. QED
  BY <1>6, <1>7

\* The records of a task that is not completed, dropped one after the other.
LEMMA DropsOffer ==
  ASSUME NEW s, Shape(s), Consistent(s), s.ok, NEW k, k \in Tasks => s.task[k].status # "Completed",
         NEW b, IsSequence(b), Len(b) > 0,
         \A n \in 1..Len(b) :
           /\ b[n].type = "evidence.invalidated" /\ b[n].task = k /\ b[n].evidence \in Evidence
           /\ s.evidence[b[n].evidence].status # "none" /\ s.evidence[b[n].evidence].task = k
  PROVE  Offers(s, b)
<1>. DEFINE m == Len(b)
<1>1. PICK f : Runs(f, s, b, m) /\ ReducedBatch(s, b) = f[m]
  BY BatchRuns
<1>2. m \in Nat
  BY SequenceDomain
<1>3. \A n \in 1..m : WellFormed(b[n])
  <2>1. TAKE n \in 1..m
  <2>2. k \in Tasks
    BY DEF Consistent, EvidenceFits
  <2>3. QED
    BY <2>2 DEF WellFormed, EventTypes, EvidenceEvents
<1>. HIDE DEF m
<1>. DEFINE Dropped(t) ==
       /\ Shape(t) /\ t.ok /\ Kept(s, t)
       /\ \A i \in Evidence : /\ t.evidence[i].task = s.evidence[i].task
                              /\ s.evidence[i].status # "none" => t.evidence[i].status # "none"
            N == {n \in 0..m : Dropped(f[n])}
<1>4. 0 \in N
  BY <1>1, <1>2 DEF Runs, Kept
<1>5. ASSUME NEW n \in 0..m - 1, n \in N
      PROVE  n + 1 \in N
  <2>. DEFINE r == f[n]
              t == f[n + 1]
              e == b[n + 1]
  <2>1. Dropped(r) /\ n + 1 \in 1..m
    BY <1>2, <1>5
  <2>2. t = Reduced(r, e)
    BY <1>1, <1>5 DEF Runs
  <2>3. /\ WellFormed(e) /\ e.type = "evidence.invalidated" /\ e.task = k
        /\ e.evidence \in Evidence /\ r.evidence[e.evidence].status # "none"
        /\ r.evidence[e.evidence].task = k
    BY <1>3, <2>1 DEF m
  <2>. HIDE DEF r, t, e
  <2>4. ApplyEvent(r, e) # {}
    BY <2>3 DEF ApplyEvent, ApplyEvidenceInvalidated, UpdateEvidenceStatus, When
  <2>5. Good(r, e, t) /\ t.ok /\ Shape(t)
    BY <2>1, <2>2, <2>3, <2>4, Applies DEF WellFormed
  <2>6. \A i \in Evidence : /\ t.evidence[i].task = s.evidence[i].task
                            /\ s.evidence[i].status # "none" => t.evidence[i].status # "none"
    BY <2>1, <2>3, <2>5 DEF Good, EvidenceKept
  <2>7. t.binding = s.binding
    BY <2>1, <2>3, <2>5 DEF Good, BindingsKept, Kept
  <2>8. \A j \in Tasks : t.task[j].status = "Completed" <=> s.task[j].status = "Completed"
    BY <2>1, <2>3, <2>5 DEF Good, TasksKept, Kept
  <2>9. QED
    BY <1>2, <2>1, <2>5, <2>6, <2>7, <2>8 DEF Kept, t
<1>. HIDE DEF N
<1>6. \A n \in 0..m : n \in N
  BY <1>2, <1>4, <1>5, UpTo
<1>7. f[m].ok /\ Kept(s, f[m])
  BY <1>2, <1>6 DEF N
<1>8. QED
  BY <1>1, <1>3, <1>7, KeptEffects DEF Offers, WellFormedBatch, m

\* SetToSeq lists a finite set, each element once.
LEMMA EnumerationOf ==
  ASSUME NEW S, IsFiniteSet(S)
  PROVE  /\ SetToSeq(S) \in [1..Cardinality(S) -> S] /\ Cardinality(S) \in Nat
         /\ \A i, j \in 1..Cardinality(S) : SetToSeq(S)[i] = SetToSeq(S)[j] => i = j
         /\ \A x \in S : \E i \in 1..Cardinality(S) : SetToSeq(S)[i] = x
<1>. DEFINE n == Cardinality(S)
            ids == SetToSeq(S)
<1>1. n \in Nat /\ ExistsBijection(1..n, S)
  BY FS_CardinalityType
<1>2. \E f \in [1..n -> S] : IsInjective(f)
  BY <1>1 DEF ExistsBijection, Bijection, Injection, IsInjective
<1>3. ids \in [1..n -> S] /\ IsInjective(ids)
  BY <1>2 DEF SetToSeq
<1>4. ids \in Injection(1..n, S)
  BY <1>3 DEF Injection
<1>5. Cardinality(1..n) = n
  BY <1>1, FS_Interval
<1>6. ids \in Surjection(1..n, S)
  BY <1>4, <1>5, FS_Injection
<1>. HIDE DEF n, ids
<1>7. \A x \in S : \E i \in 1..n : ids[i] = x
  BY <1>6 DEF Surjection
<1>8. QED
  BY <1>1, <1>3, <1>7 DEF IsInjective, n, ids

\* Complete: the event, or what drops the evidence that is not current.
LEMMA CompleteOffers ==
  ASSUME NEW s, Shape(s), Consistent(s), s.ok, NEW w, NEW k \in Tasks, NEW a,
         NEW b \in Complete(s, w, k, a)
  PROVE  Offers(s, b)
<1>1. s.task[k].status = "Verified"
  BY DEF Complete
<1>2. CASE b \in InvalidateContextualEvidence(s, k)
  <2>. DEFINE open == {e \in Contextual(s, k) : s.evidence[e].status \in {"candidate", "verified"}}
              ids == SetToSeq(open)
              n == Cardinality(open)
  <2>1. IsFiniteSet(open)
    BY IdsAssumption, FS_Subset DEF Contextual
  <2>2. n \in Nat /\ ids \in [1..n -> open]
    BY <2>1, EnumerationOf
  <2>3. /\ b # <<>>
        /\ b = [i \in DOMAIN ids |-> [type |-> "evidence.invalidated", task |-> k,
                                      evidence |-> ids[i], digest |-> None]]
    BY <1>2 DEF InvalidateContextualEvidence
  <2>4. \A i \in open : i \in Evidence /\ s.evidence[i].status # "none" /\ s.evidence[i].task = k
    BY DEF Contextual
  <2>. HIDE DEF open, ids, n
  <2>. DEFINE e(i) == [type |-> "evidence.invalidated", task |-> k, evidence |-> ids[i],
                       digest |-> None]
  <2>5. /\ b = [i \in 1..n |-> e(i)]
        /\ \A i : e(i).type = "evidence.invalidated" /\ e(i).task = k /\ e(i).evidence = ids[i]
    BY <2>2, <2>3
  <2>. HIDE DEF e
  <2>6. b \in Seq({e(i) : i \in 1..n}) /\ Len(b) = n
    BY <2>2, <2>5
  <2>7. IsSequence(b) /\ n > 0
    <3>1. IsSequence(b)
      BY <2>6, MemberIsSequence
    <3>2. n # 0
      BY <2>3, <2>6, EmptySeq
    <3>3. QED
      BY <2>2, <3>1, <3>2
  <2>8. \A i \in 1..Len(b) :
           /\ b[i].type = "evidence.invalidated" /\ b[i].task = k /\ b[i].evidence \in Evidence
           /\ s.evidence[b[i].evidence].status # "none" /\ s.evidence[b[i].evidence].task = k
    BY <2>2, <2>4, <2>5, <2>6
  <2>9. QED
    BY <1>1, <2>6, <2>7, <2>8, DropsOffer
<1>3. CASE b = <<[type |-> "task.completed", task |-> k]>>
  <2>. DEFINE e == [type |-> "task.completed", task |-> k]
  <2>1. e.type = "task.completed" /\ e.task = k /\ b = <<e>>
    BY <1>3
  <2>. HIDE DEF e
  <2>2. s.run[k].status = "Finished"
    BY <1>1 DEF Consistent, RunFits, Judged
  <2>3. ApplyEvent(s, e) # {}
    BY <1>1, <2>1, <2>2 DEF ApplyEvent, ApplyTaskCompleted, When
  <2>4. WellFormed(e)
    BY <2>1 DEF WellFormed, EventTypes, EvidenceEvents
  <2>. DEFINE t == Reduced(s, e)
  <2>5. Good(s, e, t) /\ t.ok
    BY <2>3, <2>4, Applies DEF WellFormed
  <2>. HIDE DEF t
  <2>6. b[1] = e /\ Len(b) > 0 /\ WellFormedBatch(b) /\ ReducedBatch(s, b) = t
    BY <2>1, <2>4, OneEvent DEF WellFormedBatch, t
  <2>7. CompletedByBatch(s, b, t) /\ ReopenedByDecision(s, t)
    BY <2>1, <2>5, <2>6 DEF Good, TasksKept, CompletedByBatch, ReopenedByDecision, Completes
  <2>8. t.binding = s.binding
    BY <2>1, <2>5 DEF Good, BindingsKept
  <2>9. QED
    BY <2>5, <2>6, <2>7, <2>8 DEF Offers, Effects, RuntimeMoves
<1>4. QED
  BY <1>1, <1>2, <1>3 DEF Complete

\* A mission is refused only under an id already issued.
LEMMA IssueMissionOffers ==
  ASSUME NEW s, Shape(s), Consistent(s), s.ok, NEW d, NEW a, NEW b \in IssueMission(s, d, a)
  PROVE  Offers(s, b)
<1>1. PICK m \in PrepareMission(s, d) :
        /\ m.risk = "L3" => HasRole(a, {"owner"})
        /\ ApprovalRequired(m.risk) => HasApprovedMissionApproval(s, m)
        /\ b = <<[type |-> "mission.issued", envelope |-> m, actor |-> a]>>
  BY DEF IssueMission
<1>. DEFINE leases == CurrentMissionLease(s, d)
<1>2. PICK l \in leases :
        /\ m = Envelope(s, d, l)
        /\ CurrentContext(s, d.context, d.task)
        /\ s.task[d.task] = [status |-> "Approved", goal |-> s.goal]
        /\ AssignmentsActive(s, d.assign)
        /\ Cardinality(leases) = 1
        /\ VerifyMissionEnvelope(Envelope(s, d, l), s.lease[l])
  BY DEF PrepareMission
<1>3. /\ m.id = d.id /\ m.task = d.task /\ m.context = d.context /\ m.lease = l
      /\ m.goal = s.goal /\ m.assign = d.assign /\ m.env = d.env
  BY <1>2 DEF Envelope
<1>. DEFINE e == [type |-> "mission.issued", envelope |-> m, actor |-> a]
<1>4. e.type = "mission.issued" /\ e.envelope = m /\ e.actor = a
  OBVIOUS
<1>. HIDE DEF e
<1>5. leases = {k \in MissionLeases :
               IsActiveMissionLease(s.lease[k], s.goal, m.context, m.env,
                                    m.task, m.assign["build"])}
  BY <1>3 DEF CurrentMissionLease
<1>6. IsActiveMissionLease(s.lease[m.lease], s.goal, m.context, m.env, m.task, m.assign["build"])
  BY <1>2, <1>3 DEF CurrentMissionLease
<1>7. s.context[m.context] = [task |-> m.task, goal |-> s.goal, superseded |-> FALSE]
  BY <1>2, <1>3 DEF CurrentContext
<1>8. WellFormed(e) /\ e.type \in PlainTypes
  BY <1>4 DEF WellFormed, EventTypes, EvidenceEvents, PlainTypes
<1>9. CASE \A other \in s.missions : other.id # m.id
  <2>1. ApplyMissionIssued(s, e) # {}
    BY <1>1, <1>2, <1>3, <1>4, <1>5, <1>6, <1>7, <1>9 DEF ApplyMissionIssued, When
  <2>2. ApplyEvent(s, e) # {}
    BY <1>4, <2>1 DEF ApplyEvent
  <2>3. QED
    BY <1>1, <1>8, <2>2, OneOffers DEF e
<1>10. CASE \E other \in s.missions : other.id = m.id
  <2>1. UncheckedBatch(s, <<e>>)
    BY <1>4, <1>10, OneEvent DEF UncheckedBatch
  <2>2. QED
    BY <1>1, <1>8, <2>1, OneOffers DEF e
<1>11. QED
  BY <1>9, <1>10

\* The events of a topology, each prepared in state s for owner a.
Registers(e) == e.type = "agent.identity.registered"
Binds(e) == e.type = "agent.runtime.bound"

Staffs(s, b, m, a) ==
  /\ HasRole(a, {"owner"})
  /\ \A i \in 1..m :
       /\ b[i].agent \in Agents /\ (Registers(b[i]) \/ Binds(b[i]))
       /\ Registers(b[i]) => b[i].function \in Functions /\ s.agent[b[i].agent] = None
       /\ Binds(b[i]) =>
            /\ b[i].actor = a /\ b[i].revision = Len(s.binding[b[i].agent]) + 1
            /\ \/ s.agent[b[i].agent] # None
               \/ \E j \in 1..i - 1 : Registers(b[j]) /\ b[j].agent = b[i].agent
  /\ \A i, j \in 1..m : (b[i].type = b[j].type /\ b[i].agent = b[j].agent) => i = j

\* The state after the first n of them.
Staffed(s, b, n, t) ==
  /\ Shape(t) /\ t.ok
  /\ \A k \in Tasks : t.task[k].status = "Completed" <=> s.task[k].status = "Completed"
  /\ \A i \in 1..n : Registers(b[i]) => t.agent[b[i].agent] # None
  /\ \A x \in Agents : (\A i \in 1..n : ~(Registers(b[i]) /\ b[i].agent = x)) =>
                          t.agent[x] = s.agent[x]
  /\ \A i \in 1..n : Binds(b[i]) => /\ t.binding[b[i].agent] # <<>>
                                    /\ Last(t.binding[b[i].agent]) = Active(b[i])
  /\ \A x \in Agents : (\A i \in 1..n : ~(Binds(b[i]) /\ b[i].agent = x)) =>
                          t.binding[x] = s.binding[x]
  /\ (\A i \in 1..n : ~Binds(b[i])) => t.binding = s.binding

\* A registration gives an agent its function.
LEMMA AgentIsRegistered ==
  ASSUME NEW s, Shape(s), NEW e, NEW t \in ApplyAgentIdentityRegistered(s, e)
  PROVE  /\ t.binding = s.binding
         /\ \A a \in Agents : t.agent[a] = IF a = e.agent THEN e.function ELSE s.agent[a]
<1>1. DOMAIN s = Fields /\ DOMAIN s.agent = Agents
  BY DEF Shape
<1>2. t = [s EXCEPT !.agent[e.agent] = e.function]
  BY DEF ApplyAgentIdentityRegistered, When
<1>3. QED
  BY <1>1, <1>2 DEF Fields

\* One event more of a topology.
LEMMA StaffingStep ==
  ASSUME NEW s, NEW b, NEW m \in Nat, NEW a, Staffs(s, b, m, a),
         NEW n \in 0..m - 1, NEW r, Staffed(s, b, n, r)
  PROVE  Staffed(s, b, n + 1, Reduced(r, b[n + 1]))
<1>. DEFINE e == b[n + 1]
            t == Reduced(r, e)
            g == e.agent
<1>1. n + 1 \in 1..m /\ 1..n \subseteq 1..m /\ 1..n + 1 = 1..n \cup {n + 1} /\ n + 1 \notin 1..n
      /\ (n + 1) - 1 = n
  OBVIOUS
<1>2. /\ g \in Agents /\ (Registers(e) \/ Binds(e))
      /\ e.type \in EventTypes
  BY <1>1 DEF Staffs, Registers, Binds, EventTypes
<1>3. Shape(r) /\ r.ok
  BY DEF Staffed
<1>4. CASE Registers(e)
  <2>1. e.type = "agent.identity.registered" /\ e.function \in Functions /\ s.agent[g] = None
    BY <1>1, <1>4 DEF Staffs, Registers
  <2>2. \A i \in 1..n : ~(Registers(b[i]) /\ b[i].agent = g)
    BY <1>1, <1>4 DEF Staffs, Registers
  <2>3. r.agent[g] = None
    BY <1>2, <2>1, <2>2 DEF Staffed
  <2>. HIDE DEF e
  <2>4. ApplyEvent(r, e) = ApplyAgentIdentityRegistered(r, e) /\ ApplyEvent(r, e) # {}
    BY <2>1, <2>3 DEF ApplyEvent, ApplyAgentIdentityRegistered, When
  <2>5. t \in ApplyAgentIdentityRegistered(r, e) /\ Good(r, e, t) /\ t.ok /\ Shape(t)
    BY <1>2, <1>3, <2>4, Applies
  <2>6. Kept(r, t)
    BY <1>2, <1>3, <2>1, PlainKeeps DEF PlainTypes
  <2>7. \A x \in Agents : t.agent[x] = IF x = g THEN e.function ELSE r.agent[x]
    BY <1>3, <2>5, AgentIsRegistered
  <2>8. t.agent[g] # None
    BY <1>2, <2>1, <2>7, FunctionsAssumption
  <2>9. ~Binds(e) /\ t.binding = r.binding
    BY <2>1, <2>6 DEF Binds, Kept
  <2>. HIDE DEF t
  <2>10. \A k \in Tasks : t.task[k].status = "Completed" <=> s.task[k].status = "Completed"
    BY <2>6 DEF Kept, Staffed
  <2>11. \A i \in 1..n + 1 : Registers(b[i]) => t.agent[b[i].agent] # None
    <3>1. \A i \in 1..n : Registers(b[i]) => t.agent[b[i].agent] # None
      BY <1>1, <2>7, <2>8 DEF Staffed, Staffs
    <3>2. QED
      BY <1>1, <2>8, <3>1 DEF e
  <2>12. \A x \in Agents : (\A i \in 1..n + 1 : ~(Registers(b[i]) /\ b[i].agent = x)) =>
                              t.agent[x] = s.agent[x]
    <3>1. SUFFICES ASSUME NEW x \in Agents, \A i \in 1..n + 1 : ~(Registers(b[i]) /\ b[i].agent = x)
                   PROVE  t.agent[x] = s.agent[x]
      OBVIOUS
    <3>2. x # g /\ \A i \in 1..n : ~(Registers(b[i]) /\ b[i].agent = x)
      BY <1>1, <1>4, <3>1 DEF e
    <3>3. QED
      BY <2>7, <3>2 DEF Staffed
  <2>13. \A i \in 1..n + 1 : Binds(b[i]) => i \in 1..n
    BY <1>1, <2>9 DEF e
  <2>14. \A i \in 1..n + 1 : Binds(b[i]) => /\ t.binding[b[i].agent] # <<>>
                                            /\ Last(t.binding[b[i].agent]) = Active(b[i])
    BY <2>9, <2>13 DEF Staffed
  <2>15. \A x \in Agents : (\A i \in 1..n + 1 : ~(Binds(b[i]) /\ b[i].agent = x)) =>
                              t.binding[x] = s.binding[x]
    BY <1>1, <2>9 DEF Staffed
  <2>16. (\A i \in 1..n + 1 : ~Binds(b[i])) => t.binding = s.binding
    BY <1>1, <2>9 DEF Staffed
  <2>17. Staffed(s, b, n + 1, t)
    BY <2>5, <2>10, <2>11, <2>12, <2>14, <2>15, <2>16 DEF Staffed
  <2>18. QED
    BY <2>17 DEF t, e
<1>5. CASE Binds(e)
  <2>1. /\ e.type = "agent.runtime.bound" /\ e.actor = a /\ HasRole(a, {"owner"})
        /\ e.revision = Len(s.binding[g]) + 1
    BY <1>1, <1>5 DEF Staffs, Binds
  <2>2. \A i \in 1..n : ~(Binds(b[i]) /\ b[i].agent = g)
    BY <1>1, <1>5 DEF Staffs, Binds
  <2>3. r.binding[g] = s.binding[g]
    BY <1>2, <2>2 DEF Staffed
  <2>4. r.agent[g] # None
    <3>1. CASE \E i \in 1..n : Registers(b[i]) /\ b[i].agent = g
      BY <3>1 DEF Staffed
    <3>2. CASE \A i \in 1..n : ~(Registers(b[i]) /\ b[i].agent = g)
      <4>1. s.agent[g] # None
        BY <1>1, <1>5, <3>2 DEF Staffs
      <4>2. QED
        BY <1>2, <3>2, <4>1 DEF Staffed
    <3>3. QED
      BY <3>1, <3>2
  <2>. HIDE DEF e
  <2>5. ApplyEvent(r, e) = ApplyRuntimeBound(r, e) /\ ApplyEvent(r, e) # {}
    BY <2>1, <2>3, <2>4 DEF ApplyEvent, ApplyRuntimeBound, When
  <2>6. t \in ApplyRuntimeBound(r, e) /\ Good(r, e, t) /\ t.ok /\ Shape(t)
    BY <1>2, <1>3, <2>5, Applies
  <2>. HIDE DEF t
  <2>7. /\ Same(r, t, {"binding"})
        /\ \A x \in Agents : x # g => t.binding[x] = r.binding[x]
        /\ t.binding[g] # <<>> /\ Last(t.binding[g]) = Active(e)
    BY <1>2, <1>3, <2>6, RuntimeIsBound
  <2>8. t.agent = r.agent /\ t.task = r.task /\ ~Registers(e)
    BY <2>1, <2>7 DEF Same, Fields, Registers
  <2>9. \A i \in 1..n + 1 : Registers(b[i]) => i \in 1..n
    BY <1>1, <2>8 DEF e
  <2>10. \A i \in 1..n + 1 : Binds(b[i]) => /\ t.binding[b[i].agent] # <<>>
                                            /\ Last(t.binding[b[i].agent]) = Active(b[i])
    <3>1. ASSUME NEW i \in 1..n, Binds(b[i])
          PROVE  t.binding[b[i].agent] # <<>> /\ Last(t.binding[b[i].agent]) = Active(b[i])
      <4>1. b[i].agent \in Agents /\ b[i].agent # g
        BY <1>1, <2>2, <3>1 DEF Staffs
      <4>2. QED
        BY <2>7, <3>1, <4>1 DEF Staffed
    <3>2. QED
      BY <1>1, <2>7, <3>1 DEF e
  <2>11. \A x \in Agents : (\A i \in 1..n + 1 : ~(Binds(b[i]) /\ b[i].agent = x)) =>
                              t.binding[x] = s.binding[x]
    <3>1. SUFFICES ASSUME NEW x \in Agents, \A i \in 1..n + 1 : ~(Binds(b[i]) /\ b[i].agent = x)
                   PROVE  t.binding[x] = s.binding[x]
      OBVIOUS
    <3>2. x # g /\ \A i \in 1..n : ~(Binds(b[i]) /\ b[i].agent = x)
      BY <1>1, <1>5, <3>1 DEF e
    <3>3. QED
      BY <2>7, <3>2 DEF Staffed
  <2>12. /\ \A k \in Tasks : t.task[k].status = "Completed" <=> s.task[k].status = "Completed"
         /\ \A i \in 1..n + 1 : Registers(b[i]) => t.agent[b[i].agent] # None
    BY <2>8, <2>9 DEF Staffed
  <2>13. \A x \in Agents : (\A i \in 1..n + 1 : ~(Registers(b[i]) /\ b[i].agent = x)) =>
                              t.agent[x] = s.agent[x]
    BY <1>1, <2>8 DEF Staffed
  <2>14. ~(\A i \in 1..n + 1 : ~Binds(b[i]))
    BY <1>1, <1>5 DEF e
  <2>15. Staffed(s, b, n + 1, t)
    BY <2>6, <2>10, <2>11, <2>12, <2>13, <2>14 DEF Staffed
  <2>16. QED
    BY <2>15 DEF t, e
<1>6. QED
  BY <1>2, <1>4, <1>5

\* The batch of a topology is admitted; it moves an agent if one of its bindings
\* is not the latest of its agent.
LEMMA TopologyOffers ==
  ASSUME NEW s, Shape(s), s.ok, NEW a, NEW b, IsSequence(b), Len(b) > 0,
         Staffs(s, b, Len(b), a),
         (\E i \in 1..Len(b) : Binds(b[i])) =>
           \E i \in 1..Len(b) :
             /\ Binds(b[i])
             /\ s.binding[b[i].agent] # <<>> => Last(s.binding[b[i].agent]) # Active(b[i])
  PROVE  Offers(s, b) /\ ~Completes(b)
<1>. DEFINE m == Len(b)
<1>1. PICK f : Runs(f, s, b, m) /\ ReducedBatch(s, b) = f[m]
  BY BatchRuns
<1>2. m \in Nat /\ m > 0 /\ Staffs(s, b, m, a)
  BY SequenceDomain
<1>3. \A i \in 1..m : WellFormed(b[i]) /\ b[i].type # "task.completed"
  BY <1>2 DEF Staffs, Registers, Binds, WellFormed, EventTypes, EvidenceEvents
<1>4. WellFormedBatch(b) /\ ~Completes(b)
  BY <1>2, <1>3 DEF WellFormedBatch, Completes
<1>5. \/ \A i \in 1..m : ~Binds(b[i])
      \/ \E i \in 1..m :
           /\ Binds(b[i])
           /\ s.binding[b[i].agent] # <<>> => Last(s.binding[b[i].agent]) # Active(b[i])
  OBVIOUS
<1>. HIDE DEF m
<1>. DEFINE N == {n \in 0..m : Staffed(s, b, n, f[n])}
<1>6. 0 \in N
  BY <1>1, <1>2 DEF Runs, Staffed
<1>7. ASSUME NEW n \in 0..m - 1, n \in N
      PROVE  n + 1 \in N
  <2>1. f[n + 1] = Reduced(f[n], b[n + 1]) /\ n + 1 \in 0..m
    BY <1>1, <1>2, <1>7 DEF Runs
  <2>2. QED
    BY <1>2, <1>7, <2>1, StaffingStep
<1>. HIDE DEF N
<1>8. \A n \in 0..m : n \in N
  BY <1>2, <1>6, <1>7, UpTo
<1>. DEFINE t == f[m]
<1>9. Staffed(s, b, m, t)
  BY <1>2, <1>8 DEF N
<1>. HIDE DEF t
<1>10. RuntimeMoves(s, t)
  <2>1. CASE \A i \in 1..m : ~Binds(b[i])
    BY <1>9, <2>1 DEF Staffed, RuntimeMoves
  <2>2. CASE \E i \in 1..m :
               /\ Binds(b[i])
               /\ s.binding[b[i].agent] # <<>> => Last(s.binding[b[i].agent]) # Active(b[i])
    BY <1>2, <1>9, <2>2 DEF Staffed, Staffs, RuntimeMoves
  <2>3. QED
    BY <1>5, <2>1, <2>2
<1>11. Effects(s, b, t)
  BY <1>9, <1>10 DEF Staffed, Effects, ReopenedByDecision, CompletedByBatch
<1>12. t.ok
  BY <1>9 DEF Staffed
<1>13. QED
  BY <1>1, <1>4, <1>11, <1>12 DEF Offers, t

\* A topology that is not wholly bound already.
LEMMA BindOffers ==
  ASSUME NEW s, Shape(s), s.ok, NEW topology \in Topologies, NEW a,
         NEW b \in BindRuntimeTopology(s, topology, a)
  PROVE  Offers(s, b) /\ ~Completes(b)
<1>. DEFINE D == DOMAIN topology
            ids == SetToSeq(D)
            n == Cardinality(D)
<1>1. D \subseteq Agents /\ IsFiniteSet(D)
  BY TopologiesAssumption
<1>2. /\ ids \in [1..n -> D] /\ n \in Nat
      /\ \A i, j \in 1..n : ids[i] = ids[j] => i = j
      /\ \A x \in D : \E i \in 1..n : ids[i] = x
  BY <1>1, EnumerationOf
<1>3. /\ HasRole(a, {"owner"}) /\ \A x \in D : s.agent[x] # None
      /\ b = [i \in DOMAIN ids |-> Bound(s, ids[i], topology[ids[i]], a)]
  BY DEF BindRuntimeTopology, When
<1>4. PICK g \in D : ~SameActiveBinding(s, g, topology[g])
  BY DEF BindRuntimeTopology, When
<1>. HIDE DEF D, ids, n
<1>. DEFINE e(i) == Bound(s, ids[i], topology[ids[i]], a)
<1>5. \A i : /\ Binds(e(i)) /\ ~Registers(e(i)) /\ e(i).agent = ids[i] /\ e(i).actor = a
             /\ e(i).revision = Len(s.binding[ids[i]]) + 1
             /\ Active(e(i)) = Active(topology[ids[i]])
  BY DEF Bound, Binds, Registers, Active
<1>6. b = [i \in 1..n |-> e(i)]
  BY <1>2, <1>3
<1>. HIDE DEF e
<1>7. b \in Seq({e(i) : i \in 1..n}) /\ Len(b) = n /\ \A i \in 1..n : b[i] = e(i)
  BY <1>2, <1>6
<1>8. IsSequence(b)
  BY <1>7, MemberIsSequence
<1>9. PICK i \in 1..n : ids[i] = g
  BY <1>2, <1>4
<1>10. Len(b) > 0
  BY <1>2, <1>7, <1>9
<1>11. Binds(b[i]) /\ (s.binding[b[i].agent] # <<>> => Last(s.binding[b[i].agent]) # Active(b[i]))
  BY <1>4, <1>5, <1>7, <1>9 DEF SameActiveBinding
<1>12. Staffs(s, b, n, a)
  <2>1. \A x \in D : x \in Agents /\ s.agent[x] # None
    BY <1>1, <1>3
  <2>2. \A j \in 1..n : ids[j] \in D
    BY <1>2
  <2>3. \A j \in 1..n : /\ ids[j] \in Agents /\ s.agent[ids[j]] # None
                        /\ Binds(b[j]) /\ ~Registers(b[j]) /\ b[j].agent = ids[j]
                        /\ b[j].actor = a /\ b[j].revision = Len(s.binding[ids[j]]) + 1
    BY <1>5, <1>7, <2>1, <2>2
  <2>4. \A j, k \in 1..n : b[j].agent = b[k].agent => j = k
    BY <1>2, <2>3
  <2>5. HasRole(a, {"owner"})
    BY <1>3
  <2>6. \A j \in 1..n :
          /\ b[j].agent \in Agents /\ s.agent[b[j].agent] # None
          /\ Binds(b[j]) /\ ~Registers(b[j])
          /\ b[j].actor = a /\ b[j].revision = Len(s.binding[b[j].agent]) + 1
    <3>1. SUFFICES ASSUME NEW j \in 1..n
                   PROVE  /\ b[j].agent \in Agents /\ s.agent[b[j].agent] # None
                          /\ Binds(b[j]) /\ ~Registers(b[j])
                          /\ b[j].actor = a
                          /\ b[j].revision = Len(s.binding[b[j].agent]) + 1
      OBVIOUS
    <3>2. b[j].agent = ids[j]
      BY <2>3
    <3>3. QED
      BY <2>3, <3>2
  <2>7. QED
    BY <2>4, <2>5, <2>6 DEF Staffs
<1>13. QED
  BY <1>7, <1>8, <1>10, <1>11, <1>12, TopologyOffers

\* Registering the new agents of a topology, and the first binding of the others.
LEMMA BootstrapOffers ==
  ASSUME NEW s, Shape(s), s.ok, NEW topology \in Topologies, NEW a,
         NEW b \in BootstrapRuntimeTopology(s, topology, a)
  PROVE  Offers(s, b) /\ ~Completes(b)
<1>. DEFINE D == DOMAIN topology
            A == {x \in D : s.agent[x] = None}
            B == {x \in D : s.binding[x] = <<>>}
            new == SetToSeq(A)
            unbound == SetToSeq(B)
            p == Cardinality(A)
            q == Cardinality(B)
            d(i) == Registered(new[i], topology[new[i]])
            e(i) == Bound(s, unbound[i], topology[unbound[i]], a)
            first == [i \in 1..p |-> d(i)]
            second == [i \in 1..q |-> e(i)]
<1>1. D \subseteq Agents /\ IsFiniteSet(D) /\ \A x \in D : topology[x].function \in Functions
  BY TopologiesAssumption
<1>2. IsFiniteSet(A) /\ IsFiniteSet(B)
  BY <1>1, FS_Subset
<1>3. /\ new \in [1..p -> A] /\ p \in Nat
      /\ \A i, j \in 1..p : new[i] = new[j] => i = j
      /\ \A x \in A : \E i \in 1..p : new[i] = x
  BY <1>2, EnumerationOf
<1>4. /\ unbound \in [1..q -> B] /\ q \in Nat
      /\ \A i, j \in 1..q : unbound[i] = unbound[j] => i = j
  BY <1>2, EnumerationOf
<1>5. /\ HasRole(a, {"owner"}) /\ b # <<>>
      /\ b = [i \in DOMAIN new |-> d(i)] \o [i \in DOMAIN unbound |-> e(i)]
  BY DEF BootstrapRuntimeTopology, When
<1>6. DOMAIN new = 1..p /\ DOMAIN unbound = 1..q
  BY <1>3, <1>4
<1>. HIDE DEF A, B, new, unbound, p, q
<1>7. b = first \o second
  BY <1>5, <1>6
<1>8. \A i : /\ Registers(d(i)) /\ ~Binds(d(i)) /\ d(i).agent = new[i]
             /\ d(i).function = topology[new[i]].function
  BY DEF Registered, Registers, Binds
<1>9. \A i : /\ Binds(e(i)) /\ ~Registers(e(i)) /\ e(i).agent = unbound[i] /\ e(i).actor = a
             /\ e(i).revision = Len(s.binding[unbound[i]]) + 1
  BY DEF Bound, Registers, Binds
<1>. HIDE DEF d, e
<1>. DEFINE S == {d(i) : i \in 1..p} \cup {e(i) : i \in 1..q}
<1>11. (\A i \in 1..p : first[i] = d(i)) /\ (\A i \in 1..q : second[i] = e(i))
  OBVIOUS
<1>10. first \in Seq(S) /\ Len(first) = p /\ second \in Seq(S) /\ Len(second) = q
  <2>1. first \in [1..p -> S] /\ second \in [1..q -> S]
    OBVIOUS
  <2>. HIDE DEF first, second, S
  <2>2. QED
    BY <1>3, <1>4, <2>1
<1>. HIDE DEF first, second, S
<1>12. /\ b \in Seq(S) /\ Len(b) = p + q
       /\ \A i \in 1..p + q : b[i] = IF i <= p THEN first[i] ELSE second[i - p]
  BY <1>7, <1>10, ConcatProperties
<1>13. IsSequence(b)
  BY <1>12, MemberIsSequence
<1>14. Len(b) > 0
  BY <1>3, <1>4, <1>5, <1>12, EmptySeq
<1>15. \A i \in 1..p : b[i] = d(i)
  BY <1>3, <1>4, <1>11, <1>12
<1>16. \A i \in p + 1..p + q : i - p \in 1..q /\ b[i] = e(i - p)
  BY <1>3, <1>4, <1>11, <1>12
<1>17. \A i \in 1..p + q : \/ i \in 1..p /\ Registers(b[i]) /\ ~Binds(b[i])
                           \/ i \in p + 1..p + q /\ Binds(b[i]) /\ ~Registers(b[i])
  <2>1. \A i \in 1..p : Registers(b[i]) /\ ~Binds(b[i])
    BY <1>8, <1>15
  <2>2. \A i \in p + 1..p + q : Binds(b[i]) /\ ~Registers(b[i])
    BY <1>9, <1>16
  <2>3. \A i \in 1..p + q : i \in 1..p \/ i \in p + 1..p + q
    BY <1>3, <1>4
  <2>4. QED
    BY <2>1, <2>2, <2>3
<1>18. \A i \in 1..p + q : b[i].agent \in Agents
  <2>1. A \subseteq Agents /\ B \subseteq Agents
    BY <1>1 DEF A, B
  <2>2. \A i \in 1..p : b[i].agent \in Agents
    BY <1>3, <1>8, <1>15, <2>1
  <2>3. \A i \in p + 1..p + q : b[i].agent \in Agents
    BY <1>4, <1>9, <1>16, <2>1
  <2>4. QED
    BY <1>17, <2>2, <2>3
<1>19. \A i \in 1..p + q : Registers(b[i]) =>
          b[i].function \in Functions /\ s.agent[b[i].agent] = None
  BY <1>1, <1>3, <1>8, <1>15, <1>17 DEF A
<1>20. ASSUME NEW i \in 1..p + q, Binds(b[i])
       PROVE  /\ b[i].actor = a /\ b[i].revision = Len(s.binding[b[i].agent]) + 1
              /\ s.binding[b[i].agent] = <<>>
              /\ \/ s.agent[b[i].agent] # None
                 \/ \E j \in 1..i - 1 : Registers(b[j]) /\ b[j].agent = b[i].agent
  <2>1. i \in p + 1..p + q /\ b[i] = e(i - p) /\ i - p \in 1..q
    BY <1>16, <1>17, <1>20
  <2>2. unbound[i - p] \in B /\ b[i].agent = unbound[i - p]
    BY <1>4, <1>9, <2>1
  <2>3. CASE s.agent[b[i].agent] = None
    <3>1. b[i].agent \in A
      BY <2>2, <2>3 DEF A, B
    <3>2. PICK j \in 1..p : new[j] = b[i].agent
      BY <1>3, <3>1
    <3>3. j \in 1..i - 1 /\ Registers(b[j]) /\ b[j].agent = b[i].agent
      BY <1>3, <1>4, <1>8, <1>15, <2>1, <3>2
    <3>4. QED
      BY <1>9, <2>1, <2>2, <3>3 DEF B
  <2>4. QED
    BY <1>9, <2>1, <2>2, <2>3 DEF B
<1>21. ASSUME NEW i \in 1..p + q, NEW j \in 1..p + q,
              b[i].type = b[j].type, b[i].agent = b[j].agent
       PROVE  i = j
  <2>1. Registers(b[i]) <=> Registers(b[j])
    BY <1>21 DEF Registers
  <2>2. CASE i \in 1..p
    <3>1. j \in 1..p
      BY <1>8, <1>15, <1>17, <2>1, <2>2
    <3>2. QED
      BY <1>3, <1>8, <1>15, <1>21, <2>2, <3>1
  <2>3. CASE i \in p + 1..p + q
    <3>1. j \in p + 1..p + q
      BY <1>3, <1>4, <1>17, <2>1, <2>3
    <3>2. i - p = j - p
      BY <1>4, <1>9, <1>16, <1>21, <2>3, <3>1
    <3>3. QED
      BY <1>3, <1>4, <2>3, <3>1, <3>2
  <2>4. QED
    BY <1>17, <2>2, <2>3
<1>22. Staffs(s, b, p + q, a)
  BY <1>5, <1>17, <1>18, <1>19, <1>20, <1>21 DEF Staffs
<1>23. QED
  BY <1>12, <1>13, <1>14, <1>20, <1>22, TopologyOffers

\* A single event the reducer refuses keeps what it would have kept.
LEMMA OnePlain ==
  ASSUME NEW s, Shape(s), NEW e, WellFormed(e), e.type \in PlainTypes
  PROVE  /\ WellFormedBatch(<<e>>) /\ Len(<<e>>) > 0 /\ <<e>>[1] = e
         /\ ReducedBatch(s, <<e>>) = Reduced(s, e)
         /\ Effects(s, <<e>>, ReducedBatch(s, <<e>>))
BY OneEvent, PlainKeeps, KeptEffects DEF WellFormedBatch

\* The bridge step: refused only when the run no longer runs.
LEMMA BridgeStepOffers ==
  ASSUME NEW s, Shape(s), s.ok, NEW k \in Tasks, NEW i, s.step[i].run = None,
         NEW b, b = <<[type |-> "run.step.started", task |-> k, step |-> i]>>
  PROVE  /\ WellFormedBatch(b) /\ Len(b) > 0 /\ ~Completes(b)
         /\ Effects(s, b, ReducedBatch(s, b))
         /\ ReducedBatch(s, b).ok \/ s.run[k].status # "Running"
<1>. DEFINE e == [type |-> "run.step.started", task |-> k, step |-> i]
<1>1. e.type = "run.step.started" /\ e.task = k /\ e.step = i /\ b = <<e>>
  OBVIOUS
<1>2. WellFormed(e) /\ e.type \in PlainTypes
  BY DEF WellFormed, EventTypes, EvidenceEvents, PlainTypes
<1>. HIDE DEF e
<1>3. s.run[k].status = "Running" => ApplyEvent(s, e) # {}
  BY <1>1 DEF ApplyEvent, ApplyRunStepStarted, When
<1>4. s.run[k].status = "Running" => Reduced(s, e).ok
  BY <1>2, <1>3, Applies DEF WellFormed
<1>5. QED
  BY <1>1, <1>2, <1>4, OnePlain DEF Completes

\* The batch of an executor event that the reducer admits records it.
LEMMA ExecutorOffers ==
  ASSUME NEW s, Shape(s), s.ok, NEW k \in Tasks, NEW source, NEW kind, NEW cursor \in Nat,
         NEW b, b = <<[type |-> "checkpoint.created", task |-> k, step |-> BridgeStep,
                       cursor |-> cursor],
                      [type |-> "executor.event.received", task |-> k, step |-> BridgeStep,
                       kind |-> kind, source |-> source, cursor |-> cursor]>>,
         ReducedBatch(s, b).ok
  PROVE  /\ Offers(s, b) /\ ~Completes(b)
         /\ HasExecutorEvent(ReducedBatch(s, b), k, source)
<1>. DEFINE i == BridgeStep
            d == [type |-> "checkpoint.created", task |-> k, step |-> i, cursor |-> cursor]
            e == [type |-> "executor.event.received", task |-> k, step |-> i,
                  kind |-> kind, source |-> source, cursor |-> cursor]
<1>1. /\ d.type = "checkpoint.created" /\ e.type = "executor.event.received"
      /\ e.task = k /\ e.source = source /\ b = <<d, e>>
  OBVIOUS
<1>2. WellFormed(d) /\ WellFormed(e) /\ d.type \in PlainTypes /\ e.type \in PlainTypes
  BY DEF WellFormed, EventTypes, EvidenceEvents, PlainTypes
<1>. HIDE DEF d, e, i
<1>. DEFINE u == Reduced(s, d)
            t == Reduced(u, e)
<1>3. ReducedBatch(s, b) = t /\ b[1] = d
  BY <1>1, TwoEvents
<1>4. Offers(s, b) /\ ~Completes(b)
  BY <1>1, <1>2, <1>3, TwoOffers DEF Completes
<1>5. Shape(u)
  BY <1>2, ReducedGrown DEF WellFormed, Grown
<1>6. u.ok /\ ApplyEvent(u, e) # {} /\ t \in ApplyEvent(u, e)
  <2>. HIDE DEF u
  <2>1. \/ t = u /\ ~u.ok
        \/ u.ok /\ ApplyEvent(u, e) = {} /\ ~t.ok
        \/ u.ok /\ t \in ApplyEvent(u, e)
    BY <1>5 DEF Reduced, Shape, Fields
  <2>2. QED
    BY <1>3, <2>1
<1>. HIDE DEF t, u
<1>7. t \in ApplyExecutorEventReceived(u, e)
  BY <1>1, <1>6 DEF ApplyEvent
<1>8. HasExecutorEvent(t, e.task, e.source)
  <2>1. CASE HasExecutorEvent(u, e.task, e.source)
    BY <1>7, <2>1 DEF ApplyExecutorEventReceived
  <2>2. CASE ~HasExecutorEvent(u, e.task, e.source)
    <3>. DEFINE x == [run |-> e.task, source |-> e.source, kind |-> e.kind, cursor |-> e.cursor]
    <3>1. t.received = u.received \cup {x}
      BY <1>5, <1>7, <2>2 DEF ApplyExecutorEventReceived, When, Shape, Fields
    <3>2. x.run = e.task /\ x.source = e.source
      OBVIOUS
    <3>3. QED
      BY <3>1, <3>2 DEF HasExecutorEvent
  <2>3. QED
    BY <2>1, <2>2
<1>9. QED
  BY <1>1, <1>3, <1>4, <1>8

\* What Team Core materializes: one plain event that the reducer admits.
LEMMA HostOffers ==
  ASSUME NEW s, Shape(s), NEW e, WellFormed(e), e.type \in PlainTypes,
         ReducedBatch(s, <<e>>).ok
  PROVE  Offers(s, <<e>>)
BY OnePlain DEF Offers

-----------------------------------------------------------------------------
(***************************************************************************)
(* The processes.  A command that was prepared on the log as it is offers  *)
(* what it offered then; one prepared on an older log is never appended.   *)
(***************************************************************************)
\* A batch that completes a task was justified by the workspace it confirms.
Justified(s, b, w) ==
  Completes(b) => \A k \in Tasks : b[1].task = k =>
    /\ ~Uncredited(s, w, k)
    /\ Contextual(s, k) # {} => HasCurrentVerifiedEvidence(s, k, w)

Pending(s, c) ==
  /\ Effects(s, c.batch, ReducedBatch(s, c.batch))
  /\ \/ ReducedBatch(s, c.batch).ok
     \/ UncheckedBatch(s, c.batch)
     \/ c.starts # None /\ s.run[c.starts].status # "Running"
  /\ Justified(s, c.batch, c.scan)

Prepared(s, n, c) ==
  /\ DOMAIN c = {"phase", "batch", "read", "scan", "starts", "consumes"}
  /\ c.phase \in {"confirm", "append"}
  /\ c.starts \in Tasks \cup {None}
  /\ WellFormedBatch(c.batch) /\ Len(c.batch) > 0
  /\ c.read \in Nat /\ c.read <= n
  /\ c.read = n => Pending(s, c)

\* The page of a session runs up to since, and all before it is recorded.
SessionFits(s, x) ==
  /\ DOMAIN x = {"task", "since", "first", "page", "more"}
  /\ x.task \in Tasks /\ x.since \in Nat /\ x.first \in Nat /\ x.page \in Seq(Nat)
  /\ \A j \in 1..Len(x.page) : x.page[j] = x.since - Len(x.page) + j
  /\ x.first <= x.since - Len(x.page)
  /\ \A i \in x.first + 1 .. x.since - Len(x.page) : HasExecutorEvent(s, x.task, i)

\* A command that consumes is about the head of its session's page.
ConsumesHead(s, n, c, x) ==
  c # Idle /\ c.consumes =>
    /\ x # NoSession /\ x.page # <<>>
    /\ c.read = n => HasExecutorEvent(ReducedBatch(s, c.batch), x.task, Head(x.page))

Sound(s) == Shape(s) /\ Consistent(s) /\ DecidedProperly(s) /\ RisksApproved(s)

ProcessFits(p) ==
  /\ cmd[p] = Idle \/ Prepared(st, count, cmd[p])
  /\ session[p] = NoSession \/ SessionFits(st, session[p])
  /\ ConsumesHead(st, count, cmd[p], session[p])

RoomsTyped == DOMAIN room = Tasks /\ \A t \in Tasks : room[t] \in Seq(Kinds)

ProjectInv ==
  /\ Sound(st) /\ count \in Nat
  /\ DOMAIN cmd = Processes /\ DOMAIN session = Processes
  /\ \A p \in Processes : ProcessFits(p)
  /\ RoomsTyped

\* The start: no command and no session.
LEMMA ProjectStarts ==
  ASSUME NEW start, NEW limits, Sound(start), ProjectInit(start, limits)
  PROVE  ProjectInv
<1>1. \A p \in Processes : cmd[p] = Idle /\ session[p] = NoSession
  BY DEF ProjectInit
<1>2. RoomsTyped
  BY DEF ProjectInit, RoomsTyped
<1>3. \A p \in Processes : ProcessFits(p)
  BY <1>1 DEF ProcessFits, ConsumesHead
<1>4. QED
  BY <1>2, <1>3 DEF ProjectInit, ProjectInv

\* A process prepares a command, or takes it a step on, in an unchanged log.
LEMMA Preparing ==
  ASSUME ProjectInv, NEW p \in Processes, NEW c, Prepared(st, count, c),
         ConsumesHead(st, count, c, session[p]),
         cmd' = [cmd EXCEPT ![p] = c], UNCHANGED <<st, count, session, room>>
  PROVE  ProjectInv'
<1>1. DOMAIN cmd' = Processes /\ \A q \in Processes : cmd'[q] = IF q = p THEN c ELSE cmd[q]
  BY DEF ProjectInv
<1>2. ASSUME NEW q \in Processes
      PROVE  ProcessFits(q)'
  <2>1. ProcessFits(q) /\ session'[q] = session[q] /\ st' = st /\ count' = count
    BY DEF ProjectInv
  <2>2. CASE q = p
    <3>1. cmd'[q] = c
      BY <1>1, <2>2
    <3>2. QED
      BY <2>1, <2>2, <3>1 DEF ProcessFits, Idle, NoSession
  <2>3. CASE q # p
    <3>1. cmd'[q] = cmd[q]
      BY <1>1, <2>3
    <3>2. QED
      BY <2>1, <3>1 DEF ProcessFits, Idle, NoSession
  <2>4. QED
    BY <2>2, <2>3
<1>3. QED
  BY <1>1, <1>2 DEF ProjectInv, RoomsTyped

\* A command that writes: its batches are offered, and justified by its scan.
LEMMA Writing ==
  ASSUME ProjectInv, NEW p \in Processes, NEW operation, Ready(p, operation),
         NEW batches, NEW scan, Prepare(p, batches, scan),
         \A b \in batches : Offers(st, b) /\ Justified(st, b, scan),
         UNCHANGED <<st, count, session, room>>
  PROVE  ProjectInv'
<1>1. PICK b \in batches :
        cmd' = [cmd EXCEPT ![p] = [phase |-> IF scan = None THEN "append" ELSE "confirm",
                                   batch |-> b, read |-> count, scan |-> scan,
                                   starts |-> None, consumes |-> FALSE]]
  BY DEF Prepare
<1>. DEFINE c == [phase |-> IF scan = None THEN "append" ELSE "confirm",
                  batch |-> b, read |-> count, scan |-> scan,
                  starts |-> None, consumes |-> FALSE]
<1>2. /\ DOMAIN c = {"phase", "batch", "read", "scan", "starts", "consumes"}
      /\ c.phase \in {"confirm", "append"} /\ c.batch = b /\ c.read = count
      /\ c.scan = scan /\ c.starts = None /\ c.consumes = FALSE
  OBVIOUS
<1>3. cmd' = [cmd EXCEPT ![p] = c]
  BY <1>1
<1>. HIDE DEF c
<1>4. Offers(st, b) /\ Justified(st, b, scan) /\ count \in Nat
  BY DEF ProjectInv
<1>5. Prepared(st, count, c)
  BY <1>2, <1>4 DEF Prepared, Pending, Offers
<1>6. ConsumesHead(st, count, c, session[p])
  BY <1>2 DEF ConsumesHead
<1>7. QED
  BY <1>3, <1>5, <1>6, Preparing

\* Nothing but Complete completes.
LEMMA OnlyCompleteCompletes ==
  ASSUME NEW s, NEW w, NEW a, NEW d, NEW b,
         \/ b \in Plan(s) \cup Approve(s, a) \cup StartRun(s, a) \cup FinishRun(s, a)
         \/ b \in RecordScan(w) \cup AttributeChange(s) \cup RecordEvidenceCandidate(s)
         \/ \E risk : b \in RequestApproval(s, d, risk, a)
         \/ b \in IssueMission(s, d, a) \cup Verify(s, w)
         \/ b \in StepCommand(s, a) \cup ResumeRun(s, a)
         \/ \E cursors : b \in CreateCheckpoint(s, a, cursors)
         \/ b \in BuildContext(s)
         \/ \E x, v : b \in DecideApproval(s, x, v, a)
         \/ \E e, last, sound : b \in VerifyEvidence(s, w, e, last, sound)
  PROVE  ~Completes(b)
<1>1. CASE b \in Plan(s) \cup Approve(s, a) \cup StartRun(s, a) \cup FinishRun(s, a)
  BY <1>1 DEF Plan, Approve, StartRun, FinishRun, Completes
<1>2. CASE b \in RecordScan(w) \cup AttributeChange(s) \cup RecordEvidenceCandidate(s)
  BY <1>2 DEF RecordScan, AttributeChange, RecordEvidenceCandidate, Completes
<1>3. CASE \/ \E risk : b \in RequestApproval(s, d, risk, a)
           \/ b \in IssueMission(s, d, a) \cup Verify(s, w)
  BY <1>3 DEF RequestApproval, IssueMission, Verify, Completes
<1>4. CASE b \in StepCommand(s, a) \cup ResumeRun(s, a)
  <2>1. ASSUME b \in StepCommand(s, a) PROVE ~Completes(b)
    <3>1. PICK y \in {"run.step.started", "run.step.finished"}, k \in Tasks, i \in Steps :
            b = <<[type |-> y, task |-> k, step |-> i]>>
      BY <2>1 DEF StepCommand
    <3>2. QED
      BY <3>1 DEF Completes
  <2>2. ASSUME b \in ResumeRun(s, a) PROVE ~Completes(b)
    BY <2>2 DEF ResumeRun, Completes
  <2>3. QED
    BY <1>4, <2>1, <2>2
<1>5. CASE \E cursors : b \in CreateCheckpoint(s, a, cursors)
  BY <1>5 DEF CreateCheckpoint, Completes
<1>6. CASE b \in BuildContext(s)
  <2>. DEFINE issued(t, c) ==
                [type |-> "context.issued", task |-> t, context |-> c, goal |-> s.goal]
              superseded(c) == [type |-> "context.superseded", context |-> c]
  <2>1. PICK t \in Tasks, c \in Contexts :
          \/ b = <<issued(t, c)>>
          \/ \E old \in Contexts : b = <<issued(t, c), superseded(old)>>
    BY <1>6 DEF BuildContext, Fresh
  <2>2. issued(t, c).type = "context.issued"
    OBVIOUS
  <2>. HIDE DEF issued
  <2>3. b[1] = issued(t, c)
    BY <2>1
  <2>4. QED
    BY <2>2, <2>3 DEF Completes
<1>7. CASE \E x, v : b \in DecideApproval(s, x, v, a)
  BY <1>7 DEF DecideApproval, Completes
<1>8. CASE \E e, last, sound : b \in VerifyEvidence(s, w, e, last, sound)
  BY <1>8 DEF VerifyEvidence, Completes
<1>9. QED
  BY <1>1, <1>2, <1>3, <1>4, <1>5, <1>6, <1>7, <1>8

\* What Complete drops instead of completing.
LEMMA InvalidatesOnly ==
  ASSUME NEW s, NEW k, NEW b \in InvalidateContextualEvidence(s, k)
  PROVE  ~Completes(b)
<1>. DEFINE open == {e \in Contextual(s, k) : s.evidence[e].status \in {"candidate", "verified"}}
            ids == SetToSeq(open)
            n == Cardinality(open)
<1>1. IsFiniteSet(open)
  BY IdsAssumption, FS_Subset DEF Contextual
<1>2. n \in Nat /\ ids \in [1..n -> open]
  BY <1>1, EnumerationOf
<1>3. /\ b # <<>>
      /\ b = [i \in DOMAIN ids |-> [type |-> "evidence.invalidated", task |-> k,
                                    evidence |-> ids[i], digest |-> None]]
  BY DEF InvalidateContextualEvidence
<1>. HIDE DEF open, ids, n
<1>. DEFINE e(i) == [type |-> "evidence.invalidated", task |-> k, evidence |-> ids[i],
                     digest |-> None]
<1>4. b = [i \in 1..n |-> e(i)] /\ \A i : e(i).type = "evidence.invalidated"
  BY <1>2, <1>3
<1>. HIDE DEF e
<1>5. b \in Seq({e(i) : i \in 1..n}) /\ Len(b) = n
  BY <1>2, <1>4
<1>6. n # 0
  BY <1>3, <1>5, EmptySeq
<1>7. b[1] = e(1)
  BY <1>2, <1>4, <1>6
<1>8. QED
  BY <1>4, <1>7 DEF Completes

\* A command that completes nothing and scans nothing again.
LEMMA WriteCommandKeeps ==
  ASSUME ProjectInv, NEW p \in Processes, NEW operation, NEW batches,
         WriteCommand(p, operation, batches),
         \A b \in batches : Offers(st, b) /\ ~Completes(b)
  PROVE  ProjectInv'
<1>1. \A b \in batches : Offers(st, b) /\ Justified(st, b, None)
  BY DEF Justified
<1>2. QED
  BY <1>1, Writing DEF WriteCommand

\* The commands that write a batch without another look at the workspace.
LEMMA WritesKeep ==
  ASSUME ProjectInv, NEW p \in Processes,
         \/ PlanCommand(p) \/ ApproveCommand(p) \/ BuildContextCommand(p)
         \/ StartRunCommand(p) \/ FinishRunCommand(p) \/ RecordScanCommand(p)
         \/ AttributeChangeCommand(p) \/ RecordCandidateCommand(p)
         \/ RequestApprovalCommand(p) \/ DecideApprovalCommand(p) \/ IssueMissionCommand(p)
         \/ BindRuntimeCommand(p) \/ BootstrapCommand(p) \/ StepsCommand(p)
         \/ ResumeRunCommand(p) \/ CreateCheckpointCommand(p)
  PROVE  ProjectInv'
<1>1. Shape(st) /\ Consistent(st)
  BY DEF ProjectInv, Sound
<1>2. st.ok
  BY DEF PlanCommand, ApproveCommand, BuildContextCommand, StartRunCommand,
     FinishRunCommand, RecordScanCommand, AttributeChangeCommand, RecordCandidateCommand,
     RequestApprovalCommand, DecideApprovalCommand, IssueMissionCommand,
     BindRuntimeCommand, BootstrapCommand, StepsCommand, ResumeRunCommand,
     CreateCheckpointCommand, WriteCommand, Ready
<1>3. CASE PlanCommand(p)
  <2>1. \A b \in Plan(st) : Offers(st, b) /\ ~Completes(b)
    BY <1>1, <1>2, PlanOffers, OnlyCompleteCompletes
  <2>2. QED
    BY <1>3, <2>1, WriteCommandKeeps DEF PlanCommand
<1>4. CASE ApproveCommand(p)
  <2>1. PICK a \in bound.actors :
          WriteCommand(p, "approve", Approve(st, a))
    BY <1>4 DEF ApproveCommand
  <2>2. \A b \in Approve(st, a) : Offers(st, b) /\ ~Completes(b)
    BY <1>1, <1>2, ApproveOffers, OnlyCompleteCompletes
  <2>3. QED
    BY <2>1, <2>2, WriteCommandKeeps
<1>5. CASE BuildContextCommand(p)
  <2>1. \A b \in BuildContext(st) : Offers(st, b) /\ ~Completes(b)
    BY <1>1, <1>2, BuildContextOffers, OnlyCompleteCompletes
  <2>2. QED
    BY <1>5, <2>1, WriteCommandKeeps DEF BuildContextCommand
<1>6. CASE StartRunCommand(p)
  <2>1. PICK a \in bound.actors :
          WriteCommand(p, "run", StartRun(st, a))
    BY <1>6 DEF StartRunCommand
  <2>2. \A b \in StartRun(st, a) : Offers(st, b) /\ ~Completes(b)
    BY <1>1, <1>2, StartRunOffers, OnlyCompleteCompletes
  <2>3. QED
    BY <2>1, <2>2, WriteCommandKeeps
<1>7. CASE FinishRunCommand(p)
  <2>1. PICK a \in bound.actors :
          WriteCommand(p, "finish", FinishRun(st, a))
    BY <1>7 DEF FinishRunCommand
  <2>2. \A b \in FinishRun(st, a) : Offers(st, b) /\ ~Completes(b)
    BY <1>1, <1>2, FinishRunOffers, OnlyCompleteCompletes
  <2>3. QED
    BY <2>1, <2>2, WriteCommandKeeps
<1>8. CASE RecordScanCommand(p)
  <2>1. \A b \in RecordScan(files) : Offers(st, b) /\ ~Completes(b)
    BY <1>1, <1>2, RecordScanOffers, OnlyCompleteCompletes
  <2>2. QED
    BY <1>8, <2>1, WriteCommandKeeps DEF RecordScanCommand
<1>9. CASE AttributeChangeCommand(p)
  <2>1. \A b \in AttributeChange(st) : Offers(st, b) /\ ~Completes(b)
    BY <1>1, <1>2, AttributeChangeOffers, OnlyCompleteCompletes
  <2>2. QED
    BY <1>9, <2>1, WriteCommandKeeps DEF AttributeChangeCommand
<1>10. CASE RecordCandidateCommand(p)
  <2>1. \A b \in RecordEvidenceCandidate(st) : Offers(st, b) /\ ~Completes(b)
    BY <1>1, <1>2, RecordCandidateOffers, OnlyCompleteCompletes
  <2>2. QED
    BY <1>10, <2>1, WriteCommandKeeps DEF RecordCandidateCommand
<1>11. CASE RequestApprovalCommand(p)
  <2>1. PICK d \in Drafts, risk \in Risks, a \in bound.actors :
          WriteCommand(p, "request", RequestApproval(st, d, risk, a))
    BY <1>11 DEF RequestApprovalCommand
  <2>2. \A b \in RequestApproval(st, d, risk, a) : Offers(st, b) /\ ~Completes(b)
    BY <1>1, <1>2, RequestApprovalOffers, OnlyCompleteCompletes
  <2>3. QED
    BY <2>1, <2>2, WriteCommandKeeps
<1>12. CASE DecideApprovalCommand(p)
  <2>1. PICK a \in bound.actors, x \in Approvals, v \in {"approved", "rejected"} :
          WriteCommand(p, "decide", DecideApproval(st, x, v, a))
    BY <1>12 DEF DecideApprovalCommand
  <2>2. \A b \in DecideApproval(st, x, v, a) : Offers(st, b) /\ ~Completes(b)
    BY <1>1, <1>2, DecideOffers, OnlyCompleteCompletes
  <2>3. QED
    BY <2>1, <2>2, WriteCommandKeeps
<1>13. CASE IssueMissionCommand(p)
  <2>1. PICK d \in Drafts, a \in bound.actors :
          WriteCommand(p, "mission", IssueMission(st, d, a))
    BY <1>13 DEF IssueMissionCommand
  <2>2. \A b \in IssueMission(st, d, a) : Offers(st, b) /\ ~Completes(b)
    BY <1>1, <1>2, IssueMissionOffers, OnlyCompleteCompletes
  <2>3. QED
    BY <2>1, <2>2, WriteCommandKeeps
<1>14. CASE BindRuntimeCommand(p)
  <2>1. PICK topology \in Topologies, a \in bound.actors :
          WriteCommand(p, "bind", BindRuntimeTopology(st, topology, a))
    BY <1>14 DEF BindRuntimeCommand
  <2>2. \A b \in BindRuntimeTopology(st, topology, a) : Offers(st, b) /\ ~Completes(b)
    BY <1>1, <1>2, BindOffers
  <2>3. QED
    BY <2>1, <2>2, WriteCommandKeeps
<1>15. CASE StepsCommand(p)
  <2>1. PICK a \in bound.actors :
          WriteCommand(p, "steps", StepCommand(st, a))
    BY <1>15 DEF StepsCommand
  <2>2. \A b \in StepCommand(st, a) : Offers(st, b) /\ ~Completes(b)
    BY <1>1, <1>2, StepOffers, OnlyCompleteCompletes
  <2>3. QED
    BY <2>1, <2>2, WriteCommandKeeps
<1>16. CASE ResumeRunCommand(p)
  <2>1. PICK a \in bound.actors :
          WriteCommand(p, "resume", ResumeRun(st, a))
    BY <1>16 DEF ResumeRunCommand
  <2>2. \A b \in ResumeRun(st, a) : Offers(st, b) /\ ~Completes(b)
    BY <1>1, <1>2, ResumeRunOffers, OnlyCompleteCompletes
  <2>3. QED
    BY <2>1, <2>2, WriteCommandKeeps
<1>17. CASE CreateCheckpointCommand(p)
  <2>1. PICK a \in bound.actors :
          WriteCommand(p, "checkpoint", CreateCheckpoint(st, a, 1..MaxRoom))
    BY <1>17 DEF CreateCheckpointCommand
  <2>2. \A b \in CreateCheckpoint(st, a, 1..MaxRoom) : Offers(st, b) /\ ~Completes(b)
    <3>1. 1..MaxRoom \in SUBSET Nat
      BY RoomAssumption
    <3>2. ASSUME NEW b \in CreateCheckpoint(st, a, 1..MaxRoom)
          PROVE  Offers(st, b) /\ ~Completes(b)
      <4>1. Offers(st, b)
        BY <1>1, <1>2, <3>1, CheckpointOffers
      <4>2. \E cursors : b \in CreateCheckpoint(st, a, cursors)
        OBVIOUS
      <4>3. QED
        BY <4>1, <4>2, OnlyCompleteCompletes
    <3>3. QED
      BY <3>2
  <2>3. QED
    BY <2>1, <2>2, WriteCommandKeeps
<1>18. CASE BootstrapCommand(p)
  <2>1. PICK topology \in Topologies, a \in bound.actors :
          WriteCommand(p, "bootstrap", BootstrapRuntimeTopology(st, topology, a))
    BY <1>18 DEF BootstrapCommand
  <2>2. \A b \in BootstrapRuntimeTopology(st, topology, a) : Offers(st, b) /\ ~Completes(b)
    BY <1>1, <1>2, BootstrapOffers
  <2>3. QED
    BY <2>1, <2>2, WriteCommandKeeps
<1>19. QED
  BY <1>3, <1>4, <1>5, <1>6, <1>7, <1>8, <1>9, <1>10,
     <1>11, <1>12, <1>13, <1>14, <1>15, <1>16, <1>17, <1>18

\* Verify and VerifyEvidence complete nothing either.
LEMMA VerifyCommandKeeps ==
  ASSUME ProjectInv, NEW p \in Processes, VerifyCommand(p)
  PROVE  ProjectInv'
<1>1. Ready(p, "verify") /\ Prepare(p, Verify(st, files), files)
  BY DEF VerifyCommand
<1>2. Shape(st) /\ Consistent(st) /\ st.ok
  BY <1>1 DEF ProjectInv, Sound, Ready
<1>3. \A b \in Verify(st, files) : Offers(st, b) /\ Justified(st, b, files)
  BY <1>2, VerifyOffers, OnlyCompleteCompletes DEF Justified
<1>4. QED
  BY <1>1, <1>3, Writing DEF VerifyCommand

LEMMA VerifyEvidenceCommandKeeps ==
  ASSUME ProjectInv, NEW p \in Processes, VerifyEvidenceCommand(p)
  PROVE  ProjectInv'
<1>1. Shape(st) /\ Consistent(st) /\ st.ok /\ Ready(p, "evidence")
  BY DEF ProjectInv, Sound, Ready, VerifyEvidenceCommand
<1>2. PICK e \in Evidence, sound \in BOOLEAN :
        Prepare(p, VerifyEvidence(st, files, e, checked[p][e], sound), None)
  BY DEF VerifyEvidenceCommand
<1>3. \A b \in VerifyEvidence(st, files, e, checked[p][e], sound) :
        Offers(st, b) /\ Justified(st, b, None)
  BY <1>1, VerifyEvidenceOffers, OnlyCompleteCompletes DEF Justified
<1>4. QED
  BY <1>1, <1>2, <1>3, Writing DEF VerifyEvidenceCommand

\* Complete: its batches are all one kind, so a completion confirms the files.
LEMMA CompleteCommandKeeps ==
  ASSUME ProjectInv, NEW p \in Processes, CompleteCommand(p)
  PROVE  ProjectInv'
<1>1. Shape(st) /\ Consistent(st) /\ st.ok /\ Ready(p, "complete")
  BY DEF ProjectInv, Sound, Ready, CompleteCommand
<1>2. PICK k \in Tasks, a \in bound.actors :
        Prepare(p, Complete(st, files, k, a),
                IF \A b \in Complete(st, files, k, a) : Completes(b) THEN files ELSE None)
  BY DEF CompleteCommand
<1>. DEFINE batches == Complete(st, files, k, a)
            scan == IF \A b \in batches : Completes(b) THEN files ELSE None
<1>3. ASSUME NEW b \in batches
      PROVE  Offers(st, b) /\ Justified(st, b, scan)
  <2>1. Offers(st, b)
    BY <1>1, CompleteOffers
  <2>2. CASE b \in InvalidateContextualEvidence(st, k)
    <3>1. ~Completes(b)
      BY <2>2, InvalidatesOnly
    <3>2. QED
      BY <2>1, <3>1 DEF Justified
  <2>3. CASE b \notin InvalidateContextualEvidence(st, k)
    <3>. DEFINE e(x) == [type |-> "task.completed", task |-> x]
    <3>1. /\ ~Uncredited(st, files, k)
          /\ Contextual(st, k) # {} => HasCurrentVerifiedEvidence(st, k, files)
          /\ batches \subseteq {<<e(k)>>}
      BY <2>3 DEF Complete
    <3>2. \A c \in batches : Completes(c) /\ c[1].task = k
      BY <3>1 DEF Completes
    <3>3. scan = files
      BY <3>2
    <3>. HIDE DEF scan, batches
    <3>4. QED
      BY <2>1, <3>1, <3>2, <3>3 DEF Justified
  <2>4. QED
    BY <2>2, <2>3
<1>. HIDE DEF scan, batches
<1>4. Prepare(p, batches, scan)
  BY <1>2 DEF batches, scan
<1>5. QED
  BY <1>1, <1>3, <1>4, Writing DEF CompleteCommand



\* A process moves on in an unchanged log: its command is now c, its session x.
LEMMA Moving ==
  ASSUME ProjectInv, NEW p \in Processes, NEW c, NEW x,
         c = Idle \/ Prepared(st, count, c), x = NoSession \/ SessionFits(st, x),
         ConsumesHead(st, count, c, x),
         DOMAIN cmd' = Processes, DOMAIN session' = Processes,
         \A q \in Processes : /\ cmd'[q] = IF q = p THEN c ELSE cmd[q]
                              /\ session'[q] = IF q = p THEN x ELSE session[q],
         UNCHANGED <<st, count, room>>
  PROVE  ProjectInv'
<1>1. ASSUME NEW q \in Processes
      PROVE  ProcessFits(q)'
  <2>1. ProcessFits(q) /\ st' = st /\ count' = count
    BY DEF ProjectInv
  <2>2. CASE q = p
    <3>1. cmd'[q] = c /\ session'[q] = x
      BY <2>2
    <3>2. QED
      BY <2>1, <3>1 DEF ProcessFits, Idle, NoSession
  <2>3. CASE q # p
    <3>1. cmd'[q] = cmd[q] /\ session'[q] = session[q]
      BY <2>3
    <3>2. QED
      BY <2>1, <3>1 DEF ProcessFits, Idle, NoSession
  <2>4. QED
    BY <2>2, <2>3
<1>2. QED
  BY <1>1 DEF ProjectInv, RoomsTyped

\* A session that opens has read nothing yet.
LEMMA OpenSessionFits ==
  ASSUME ProjectInv, NEW s, NEW k \in Tasks
  PROVE  SessionFits(s, OpenSession(k))
<1>1. st.run[k].cursor \in Nat
  BY DEF ProjectInv, Sound, Consistent
<1>2. Len(room[k]) \in Nat
  BY DEF ProjectInv, RoomsTyped
<1>. DEFINE x == OpenSession(k)
            n == StartCursor(st, k)
<1>3. n \in Nat
  BY <1>1, <1>2 DEF StartCursor
<1>. HIDE DEF n
<1>4. /\ DOMAIN x = {"task", "since", "first", "page", "more"}
      /\ x.task = k /\ x.since = n /\ x.first = n /\ x.page = <<>>
  BY DEF OpenSession, n
<1>. HIDE DEF x
<1>5. Len(x.page) = 0 /\ x.page \in Seq(Nat)
  BY <1>4
<1>6. \A j \in 1..Len(x.page) : x.page[j] = x.since - Len(x.page) + j
  BY <1>5
<1>7. \A i \in x.first + 1 .. x.since - Len(x.page) : HasExecutorEvent(s, x.task, i)
  BY <1>3, <1>4, <1>5
<1>8. x.first <= x.since - Len(x.page)
  BY <1>3, <1>4, <1>5
<1>9. QED
  BY <1>3, <1>4, <1>5, <1>6, <1>7, <1>8 DEF SessionFits, x

\* The head of the page is recorded: the session goes on with the next.
LEMMA TailFits ==
  ASSUME NEW s, NEW x, SessionFits(s, x), x.page # <<>>,
         HasExecutorEvent(s, x.task, Head(x.page))
  PROVE  SessionFits(s, [x EXCEPT !.page = Tail(@)])
<1>. DEFINE y == [x EXCEPT !.page = Tail(@)]
            n == Len(x.page)
            old == x.page
<1>1. /\ DOMAIN y = {"task", "since", "first", "page", "more"} /\ y.page = Tail(old)
      /\ y.task = x.task /\ y.since = x.since /\ y.first = x.first
  BY DEF SessionFits
<1>2. /\ x.task \in Tasks /\ x.since \in Nat /\ x.first \in Nat /\ old \in Seq(Nat)
      /\ \A j \in 1..n : old[j] = x.since - n + j
      /\ x.first <= x.since - n
      /\ \A i \in x.first + 1 .. x.since - n : HasExecutorEvent(s, x.task, i)
      /\ old # <<>> /\ HasExecutorEvent(s, x.task, Head(old))
  BY DEF SessionFits
<1>. HIDE DEF y, old
<1>3. n \in Nat /\ n > 0
  BY <1>2, EmptySeq DEF old
<1>4. /\ Tail(old) \in Seq(Nat) /\ Len(Tail(old)) = n - 1
      /\ \A j \in 1..n - 1 : Tail(old)[j] = old[j + 1]
      /\ Head(old) = old[1]
  BY <1>2, <1>3, HeadTailProperties DEF old
<1>. HIDE DEF n
<1>5. Head(old) = x.since - n + 1
  BY <1>2, <1>3, <1>4
<1>6. \A j \in 1..n - 1 : Tail(old)[j] = x.since - (n - 1) + j
  <2>1. TAKE j \in 1..n - 1
  <2>2. j + 1 \in 1..n
    BY <1>3
  <2>3. old[j + 1] = x.since - n + (j + 1)
    BY <1>2, <2>2
  <2>4. Tail(old)[j] = old[j + 1]
    BY <1>4
  <2>5. x.since - n + (j + 1) = x.since - (n - 1) + j
    <3>. DEFINE since == x.since
    <3>1. since \in Nat
      BY <1>2
    <3>. HIDE DEF since
    <3>2. since - n + (j + 1) = since - (n - 1) + j
      BY <1>3, <3>1
    <3>3. QED
      BY <3>2 DEF since
  <2>6. QED
    BY <2>3, <2>4, <2>5
<1>7. \A i \in x.first + 1 .. x.since - (n - 1) : HasExecutorEvent(s, x.task, i)
  <2>1. TAKE i \in x.first + 1 .. x.since - (n - 1)
  <2>2. i \in x.first + 1 .. x.since - n \/ i = x.since - n + 1
    BY <1>2, <1>3
  <2>3. QED
    BY <1>2, <1>5, <2>2
<1>8. x.first <= x.since - (n - 1)
  BY <1>2, <1>3
<1>9. SessionFits(s, y)
  BY <1>1, <1>2, <1>4, <1>6, <1>7, <1>8 DEF SessionFits
<1>10. QED
  BY <1>9 DEF y

\* A new page follows what was recorded.
LEMMA SyncPageKeeps ==
  ASSUME ProjectInv, NEW p \in Processes, SyncPage(p)
  PROVE  ProjectInv'
<1>. DEFINE s == session[p]
<1>1. /\ SessionFits(st, s) /\ s.page = <<>> /\ ConsumesHead(st, count, cmd[p], s)
      /\ cmd[p] = Idle \/ Prepared(st, count, cmd[p])
      /\ DOMAIN session = Processes /\ DOMAIN cmd = Processes
  BY DEF ProjectInv, ProcessFits, SyncPage
<1>2. PICK next \in s.since + 1 .. Len(room[s.task]) :
        session' = [session EXCEPT
          ![p].page = [i \in 1 .. next - s.since |-> s.since + i],
          ![p].since = next,
          ![p].more = next < Len(room[s.task])]
  BY DEF SyncPage
<1>. DEFINE size == next - s.since
            read == [i \in 1..size |-> s.since + i]
            x == [s EXCEPT !.page = read, !.since = next, !.more = next < Len(room[s.task])]
<1>3. /\ DOMAIN session' = Processes
      /\ \A q \in Processes : session'[q] = IF q = p THEN x ELSE session[q]
  BY <1>1, <1>2
<1>4. /\ s.since \in Nat /\ s.first \in Nat /\ s.task \in Tasks /\ s.first <= s.since
      /\ \A i \in s.first + 1 .. s.since : HasExecutorEvent(st, s.task, i)
  <2>1. Len(s.page) = 0
    BY <1>1
  <2>2. /\ s.since \in Nat /\ s.first \in Nat /\ s.task \in Tasks
        /\ s.first <= s.since - Len(s.page)
        /\ \A i \in s.first + 1 .. s.since - Len(s.page) : HasExecutorEvent(st, s.task, i)
    BY <1>1 DEF SessionFits
  <2>3. s.since - Len(s.page) = s.since
    BY <2>1, <2>2
  <2>4. QED
    BY <2>2, <2>3
<1>5. next \in Nat /\ size \in Nat /\ size > 0 /\ next - size = s.since
  <2>1. Len(room[s.task]) \in Nat
    BY <1>4 DEF ProjectInv, RoomsTyped
  <2>2. QED
    BY <1>4, <2>1
<1>6. /\ DOMAIN x = {"task", "since", "first", "page", "more"}
      /\ x.page = read /\ x.since = next /\ x.first = s.first /\ x.task = s.task
  BY <1>1 DEF SessionFits
<1>. HIDE DEF x, s, size
<1>7. /\ read \in Seq(Nat) /\ Len(read) = size
      /\ \A j \in 1..size : read[j] = s.since + j
  BY <1>4, <1>5
<1>. HIDE DEF read
<1>8. /\ x.since - Len(x.page) = s.since /\ x.since \in Nat /\ Len(x.page) = size
  BY <1>5, <1>6, <1>7
<1>9. SessionFits(st, x)
  BY <1>4, <1>6, <1>7, <1>8 DEF SessionFits
<1>10. ConsumesHead(st, count, cmd[p], x)
  BY <1>1 DEF ConsumesHead
<1>11. /\ cmd' = cmd /\ UNCHANGED <<st, count, room>>
  BY DEF SyncPage
<1>12. QED
  BY <1>1, <1>3, <1>9, <1>10, <1>11, Moving

LEMMA PollsRunOutKeeps ==
  ASSUME ProjectInv, NEW p \in Processes, PollsRunOut(p)
  PROVE  ProjectInv'
<1>1. /\ session[p].page = <<>> /\ session' = [session EXCEPT ![p] = NoSession]
      /\ cmd' = cmd /\ UNCHANGED <<st, count, room>>
  BY DEF PollsRunOut
<1>2. /\ ConsumesHead(st, count, cmd[p], session[p])
      /\ cmd[p] = Idle \/ Prepared(st, count, cmd[p])
      /\ DOMAIN session = Processes /\ DOMAIN cmd = Processes
  BY DEF ProjectInv, ProcessFits
<1>3. ConsumesHead(st, count, cmd[p], NoSession)
  BY <1>1, <1>2 DEF ConsumesHead
<1>4. /\ DOMAIN session' = Processes
      /\ \A q \in Processes : session'[q] = IF q = p THEN NoSession ELSE session[q]
  BY <1>1, <1>2
<1>5. QED
  BY <1>1, <1>2, <1>3, <1>4, Moving

LEMMA RestartKeeps ==
  ASSUME ProjectInv, NEW p \in Processes, Restart(p)
  PROVE  ProjectInv'
<1>1. /\ session' = [session EXCEPT ![p] = NoSession] /\ cmd' = [cmd EXCEPT ![p] = Idle]
      /\ UNCHANGED <<st, count, room>>
  BY DEF Restart
<1>2. DOMAIN session = Processes /\ DOMAIN cmd = Processes
  BY DEF ProjectInv
<1>3. ConsumesHead(st, count, Idle, NoSession)
  BY DEF ConsumesHead
<1>4. /\ DOMAIN session' = Processes /\ DOMAIN cmd' = Processes
      /\ \A q \in Processes : /\ session'[q] = IF q = p THEN NoSession ELSE session[q]
                              /\ cmd'[q] = IF q = p THEN Idle ELSE cmd[q]
  BY <1>1, <1>2
<1>5. QED
  BY <1>1, <1>3, <1>4, Moving

LEMMA ConfirmChangesKeeps ==
  ASSUME ProjectInv, NEW p \in Processes, ConfirmChanges(p)
  PROVE  ProjectInv'
<1>. DEFINE old == cmd[p]
            c == IF files = old.scan THEN [old EXCEPT !.phase = "append"] ELSE Idle
<1>1. /\ cmd' = [cmd EXCEPT ![p] = c] /\ old.phase = "confirm"
      /\ UNCHANGED <<st, count, session, room>>
  BY DEF ConfirmChanges
<1>2. /\ Prepared(st, count, old) /\ ConsumesHead(st, count, old, session[p])
      /\ session[p] = NoSession \/ SessionFits(st, session[p])
      /\ DOMAIN session = Processes /\ DOMAIN cmd = Processes
  BY <1>1 DEF ProjectInv, ProcessFits, Idle
<1>3. CASE files = old.scan
  <2>1. c = [old EXCEPT !.phase = "append"]
    BY <1>3
  <2>2. /\ DOMAIN c = {"phase", "batch", "read", "scan", "starts", "consumes"}
        /\ c.phase = "append" /\ c.batch = old.batch /\ c.read = old.read
        /\ c.scan = old.scan /\ c.starts = old.starts /\ c.consumes = old.consumes
    BY <1>2, <2>1 DEF Prepared
  <2>3. old # Idle
    BY <1>1 DEF Idle
  <2>. HIDE DEF c, old
  <2>4. Prepared(st, count, c)
    BY <1>2, <2>2 DEF Prepared, Pending
  <2>5. ConsumesHead(st, count, c, session[p])
    BY <1>2, <2>2, <2>3 DEF ConsumesHead
  <2>6. QED
    BY <1>1, <2>4, <2>5, Preparing
<1>4. CASE files # old.scan
  <2>1. c = Idle
    BY <1>4
  <2>. HIDE DEF c
  <2>2. ConsumesHead(st, count, c, session[p])
    BY <2>1 DEF ConsumesHead
  <2>3. /\ DOMAIN session' = Processes /\ DOMAIN cmd' = Processes
        /\ \A q \in Processes : /\ session'[q] = IF q = p THEN session[p] ELSE session[q]
                                /\ cmd'[q] = IF q = p THEN c ELSE cmd[q]
    BY <1>1, <1>2
  <2>4. QED
    BY <1>1, <1>2, <2>1, <2>2, <2>3, Moving
<1>5. QED
  BY <1>3, <1>4


\* The bridge step comes first, then the session opens.
LEMMA RunExecutorKeeps ==
  ASSUME ProjectInv, NEW p \in Processes, RunExecutorCommand(p)
  PROVE  ProjectInv'
<1>1. /\ cmd[p] = Idle /\ st.ok /\ Sound(st) /\ UNCHANGED <<st, count, room>>
      /\ DOMAIN session = Processes /\ DOMAIN cmd = Processes /\ count \in Nat
  BY DEF RunExecutorCommand, Ready, ProjectInv
<1>2. PICK k \in Tasks :
        IF st.step[BridgeStep].run = k
        THEN session' = [session EXCEPT ![p] = OpenSession(k)] /\ UNCHANGED cmd
        ELSE /\ st.step[BridgeStep].run = None
             /\ cmd' = [cmd EXCEPT ![p] =
                  [phase |-> "append", read |-> count, scan |-> None,
                   batch |-> <<[type |-> "run.step.started", task |-> k,
                                step |-> BridgeStep]>>,
                   starts |-> k, consumes |-> FALSE]]
             /\ UNCHANGED session
  BY DEF RunExecutorCommand
<1>3. CASE st.step[BridgeStep].run = k
  <2>1. SessionFits(st, OpenSession(k))
    BY OpenSessionFits
  <2>2. ConsumesHead(st, count, Idle, OpenSession(k))
    BY DEF ConsumesHead
  <2>3. session' = [session EXCEPT ![p] = OpenSession(k)] /\ cmd' = cmd
    BY <1>2, <1>3
  <2>. DEFINE x == OpenSession(k)
  <2>. HIDE DEF x
  <2>4. /\ DOMAIN session' = Processes /\ DOMAIN cmd' = Processes
        /\ \A q \in Processes : /\ session'[q] = IF q = p THEN x ELSE session[q]
                                /\ cmd'[q] = IF q = p THEN Idle ELSE cmd[q]
    BY <1>1, <2>3 DEF x
  <2>5. QED
    BY <1>1, <2>1, <2>2, <2>4, Moving DEF x
<1>4. CASE st.step[BridgeStep].run # k
  <2>. DEFINE b == <<[type |-> "run.step.started", task |-> k, step |-> BridgeStep]>>
              c == [phase |-> "append", read |-> count, scan |-> None, batch |-> b,
                    starts |-> k, consumes |-> FALSE]
  <2>1. st.step[BridgeStep].run = None /\ cmd' = [cmd EXCEPT ![p] = c] /\ session' = session
    BY <1>2, <1>4
  <2>2. /\ WellFormedBatch(b) /\ Len(b) > 0 /\ ~Completes(b)
        /\ Effects(st, b, ReducedBatch(st, b))
        /\ ReducedBatch(st, b).ok \/ st.run[k].status # "Running"
    BY <1>1, <2>1, BridgeStepOffers DEF Sound
  <2>3. /\ DOMAIN c = {"phase", "batch", "read", "scan", "starts", "consumes"}
        /\ c.phase = "append" /\ c.batch = b /\ c.read = count
        /\ c.scan = None /\ c.starts = k /\ c.consumes = FALSE
    OBVIOUS
  <2>. HIDE DEF b, c
  <2>4. k # None
    BY IdsAssumption
  <2>5. Prepared(st, count, c)
    BY <1>1, <2>2, <2>3, <2>4 DEF Prepared, Pending, Justified
  <2>6. ConsumesHead(st, count, c, session[p])
    BY <2>3 DEF ConsumesHead
  <2>7. QED
    BY <1>1, <2>1, <2>5, <2>6, Preparing
<1>5. QED
  BY <1>3, <1>4

\* The head of a page is skipped, refused or taken to the log.
LEMMA ConsumeEventKeeps ==
  ASSUME ProjectInv, NEW p \in Processes, ConsumeEvent(p)
  PROVE  ProjectInv'
<1>. DEFINE s == session[p]
            b == ExecutorBatch(s.task, Head(s.page), s.since)
            rest == IF Len(s.page) = 1 /\ ~s.more THEN NoSession
                    ELSE [s EXCEPT !.page = Tail(@)]
<1>1. /\ cmd[p] = Idle /\ s # NoSession /\ s.page # <<>> /\ UNCHANGED <<st, count, room>>
      /\ \/ session' = [session EXCEPT ![p] = NoSession] /\ cmd' = cmd
         \/ /\ HasExecutorEvent(st, s.task, Head(s.page))
            /\ session' = [session EXCEPT ![p] = rest] /\ cmd' = cmd
         \/ /\ st.ok /\ ReducedBatch(st, b).ok
            /\ cmd' = [cmd EXCEPT ![p] =
                  [phase |-> "append", read |-> count, scan |-> None,
                   batch |-> b, starts |-> None, consumes |-> TRUE]]
            /\ session' = session
  BY DEF ConsumeEvent
<1>2. /\ SessionFits(st, s) /\ Sound(st) /\ count \in Nat
      /\ DOMAIN session = Processes /\ DOMAIN cmd = Processes
  BY <1>1 DEF ProjectInv, ProcessFits
<1>3. ASSUME NEW x, x = NoSession \/ SessionFits(st, x),
             session' = [session EXCEPT ![p] = x], cmd' = cmd
      PROVE  ProjectInv'
  <2>1. ConsumesHead(st, count, Idle, x)
    BY DEF ConsumesHead
  <2>2. /\ DOMAIN session' = Processes /\ DOMAIN cmd' = Processes
        /\ \A q \in Processes : /\ session'[q] = IF q = p THEN x ELSE session[q]
                                /\ cmd'[q] = IF q = p THEN Idle ELSE cmd[q]
    BY <1>1, <1>2, <1>3
  <2>3. QED
    BY <1>1, <1>3, <2>1, <2>2, Moving
<1>4. CASE session' = [session EXCEPT ![p] = NoSession] /\ cmd' = cmd
  BY <1>3, <1>4
<1>5. CASE /\ HasExecutorEvent(st, s.task, Head(s.page))
           /\ session' = [session EXCEPT ![p] = rest] /\ cmd' = cmd
  <2>1. SessionFits(st, [s EXCEPT !.page = Tail(@)])
    BY <1>1, <1>2, <1>5, TailFits
  <2>2. rest = NoSession \/ SessionFits(st, rest)
    BY <2>1
  <2>. HIDE DEF rest
  <2>3. QED
    BY <1>3, <1>5, <2>2
<1>6. CASE /\ st.ok /\ ReducedBatch(st, b).ok
           /\ cmd' = [cmd EXCEPT ![p] =
                [phase |-> "append", read |-> count, scan |-> None,
                 batch |-> b, starts |-> None, consumes |-> TRUE]]
           /\ session' = session
  <2>. DEFINE c == [phase |-> "append", read |-> count, scan |-> None,
                    batch |-> b, starts |-> None, consumes |-> TRUE]
  <2>1. s.task \in Tasks /\ s.since \in Nat
    BY <1>2 DEF SessionFits
  <2>2. b = <<[type |-> "checkpoint.created", task |-> s.task, step |-> BridgeStep,
               cursor |-> s.since],
              [type |-> "executor.event.received", task |-> s.task, step |-> BridgeStep,
               kind |-> room[s.task][Head(s.page)], source |-> Head(s.page),
               cursor |-> s.since]>>
    BY DEF ExecutorBatch
  <2>. HIDE DEF b
  <2>3. /\ Offers(st, b) /\ ~Completes(b)
        /\ HasExecutorEvent(ReducedBatch(st, b), s.task, Head(s.page))
    BY <1>2, <1>6, <2>1, <2>2, ExecutorOffers DEF Sound
  <2>4. /\ DOMAIN c = {"phase", "batch", "read", "scan", "starts", "consumes"}
        /\ c.phase = "append" /\ c.batch = b /\ c.read = count
        /\ c.scan = None /\ c.starts = None /\ c.consumes = TRUE
    OBVIOUS
  <2>5. cmd' = [cmd EXCEPT ![p] = c]
    BY <1>6
  <2>. HIDE DEF c
  <2>6. Prepared(st, count, c)
    BY <1>2, <2>3, <2>4 DEF Prepared, Pending, Justified, Offers
  <2>7. ConsumesHead(st, count, c, s)
    BY <1>1, <2>3, <2>4 DEF ConsumesHead
  <2>8. QED
    BY <1>1, <1>6, <2>5, <2>6, <2>7, Preparing
<1>7. QED
  BY <1>1, <1>4, <1>5, <1>6
-----------------------------------------------------------------------------
(***************************************************************************)
(* The log grows by a batch: what was prepared on it before is stale.      *)
(***************************************************************************)
LEMMA LogGrows ==
  ASSUME ProjectInv, NEW b, WellFormedBatch(b), Len(b) > 0,
         st' = ReducedBatch(st, b), count' = count + Len(b)
  PROVE  /\ Sound(st') /\ Grown(st, st') /\ count' \in Nat /\ count' > count
         /\ \A c : Prepared(st, count, c) => Prepared(st', count', c) /\ c.read # count'
         /\ \A x : SessionFits(st, x) => SessionFits(st', x)
<1>1. Sound(st) /\ count \in Nat
  BY DEF ProjectInv
<1>2. Consistent(st') /\ Grown(st, st')
  BY <1>1, BatchIsConsistent DEF Sound
<1>3. Sound(st')
  BY <1>1, <1>2 DEF Sound, Grown, ApprovalsKept
<1>4. Len(b) \in Nat
  BY SequenceDomain DEF WellFormedBatch
<1>5. count' \in Nat /\ count' > count
  BY <1>1, <1>4
<1>6. ASSUME NEW c, Prepared(st, count, c)
      PROVE  Prepared(st', count', c) /\ c.read # count'
  <2>1. c.read \in Nat /\ c.read <= count
    BY <1>6 DEF Prepared
  <2>2. c.read <= count' /\ c.read # count'
    BY <1>1, <1>5, <2>1
  <2>3. QED
    BY <1>6, <2>2 DEF Prepared
<1>7. ASSUME NEW x, SessionFits(st, x)
      PROVE  SessionFits(st', x)
  <2>1. st.received \subseteq st'.received
    BY <1>2 DEF Grown, ActsOnce
  <2>2. \A i : HasExecutorEvent(st, x.task, i) => HasExecutorEvent(st', x.task, i)
    BY <2>1 DEF HasExecutorEvent
  <2>3. QED
    BY <1>7, <2>2 DEF SessionFits
<1>8. QED
  BY <1>2, <1>3, <1>5, <1>6, <1>7

\* Whatever process q does not move keeps its command and session.
LEMMA OthersFit ==
  ASSUME ProjectInv, NEW b, WellFormedBatch(b), Len(b) > 0,
         st' = ReducedBatch(st, b), count' = count + Len(b),
         NEW q \in Processes, cmd'[q] = cmd[q], session'[q] = session[q]
  PROVE  ProcessFits(q)'
<1>1. /\ \A c : Prepared(st, count, c) => Prepared(st', count', c) /\ c.read # count'
      /\ \A x : SessionFits(st, x) => SessionFits(st', x)
  BY LogGrows
<1>2. ProcessFits(q)
  BY DEF ProjectInv
<1>3. cmd'[q] = Idle \/ Prepared(st', count', cmd'[q])
  BY <1>1, <1>2 DEF ProcessFits
<1>4. session'[q] = NoSession \/ SessionFits(st', session'[q])
  BY <1>1, <1>2 DEF ProcessFits
<1>5. ConsumesHead(st', count', cmd'[q], session'[q])
  BY <1>1, <1>2 DEF ProcessFits, ConsumesHead
<1>6. QED
  BY <1>3, <1>4, <1>5 DEF ProcessFits, Idle, NoSession

\* An append moves its process on, and leaves the others behind.
LEMMA AppendKeeps ==
  ASSUME ProjectInv, NEW p \in Processes, AppendIfUnchanged(p)
  PROVE  ProjectInv'
<1>. DEFINE c == cmd[p]
            s == session[p]
<1>1. /\ c.phase = "append" /\ cmd' = [cmd EXCEPT ![p] = Idle] /\ room' = room
      /\ DOMAIN session = Processes /\ DOMAIN cmd = Processes
  BY DEF AppendIfUnchanged, ProjectInv
<1>2. /\ Prepared(st, count, c) /\ (s = NoSession \/ SessionFits(st, s))
      /\ ConsumesHead(st, count, c, s) /\ c # Idle
  BY <1>1 DEF ProjectInv, ProcessFits, Idle
<1>3. CASE ~LogUnchanged(p)
  <2>. DEFINE x == IF c.consumes THEN NoSession ELSE s
  <2>1. session' = [session EXCEPT ![p] = x] /\ UNCHANGED <<st, count>>
    BY <1>3 DEF AppendIfUnchanged
  <2>2. x = NoSession \/ SessionFits(st, x)
    BY <1>2
  <2>. HIDE DEF x
  <2>3. ConsumesHead(st, count, Idle, x)
    BY DEF ConsumesHead
  <2>4. /\ DOMAIN session' = Processes /\ DOMAIN cmd' = Processes
        /\ \A q \in Processes : /\ session'[q] = IF q = p THEN x ELSE session[q]
                                /\ cmd'[q] = IF q = p THEN Idle ELSE cmd[q]
    BY <1>1, <2>1
  <2>5. QED
    BY <1>1, <2>1, <2>2, <2>3, <2>4, Moving
<1>4. CASE LogUnchanged(p)
  <2>. DEFINE x == AfterAppend(p)
              b == c.batch
  <2>1. /\ st' = ReducedBatch(st, b) /\ count' = count + Len(b)
        /\ session' = [session EXCEPT ![p] = x] /\ count = c.read
    BY <1>4 DEF AppendIfUnchanged, LogUnchanged
  <2>2. WellFormedBatch(b) /\ Len(b) > 0 /\ c.starts \in Tasks \cup {None}
    BY <1>2 DEF Prepared
  <2>3. /\ Sound(st') /\ count' \in Nat
        /\ \A y : SessionFits(st, y) => SessionFits(st', y)
    BY <2>1, <2>2, LogGrows
  <2>4. x = NoSession \/ SessionFits(st', x)
    <3>1. CASE c.starts # None
      <4>1. x = OpenSession(c.starts)
        BY <3>1 DEF AfterAppend
      <4>2. QED
        BY <2>2, <3>1, <4>1, OpenSessionFits
    <3>2. CASE c.starts = None /\ ~c.consumes
      <4>1. x = s
        BY <3>2 DEF AfterAppend
      <4>2. QED
        BY <1>2, <2>3, <4>1
    <3>3. CASE c.starts = None /\ c.consumes
      <4>1. /\ s # NoSession /\ s.page # <<>>
            /\ HasExecutorEvent(st', s.task, Head(s.page))
        BY <1>2, <2>1, <3>3 DEF ConsumesHead
      <4>2. SessionFits(st', [s EXCEPT !.page = Tail(@)])
        BY <1>2, <2>3, <4>1, TailFits
      <4>3. x = NoSession \/ x = [s EXCEPT !.page = Tail(@)]
        BY <3>3 DEF AfterAppend
      <4>4. QED
        BY <4>2, <4>3
    <3>4. QED
      BY <3>1, <3>2, <3>3
  <2>. HIDE DEF x
  <2>5. /\ DOMAIN session' = Processes /\ DOMAIN cmd' = Processes
        /\ \A q \in Processes : /\ session'[q] = IF q = p THEN x ELSE session[q]
                                /\ cmd'[q] = IF q = p THEN Idle ELSE cmd[q]
    BY <1>1, <2>1
  <2>6. ASSUME NEW q \in Processes
        PROVE  ProcessFits(q)'
    <3>1. CASE q # p
      <4>1. cmd'[q] = cmd[q] /\ session'[q] = session[q]
        BY <2>5, <3>1
      <4>2. QED
        BY <2>1, <2>2, <4>1, OthersFit
    <3>2. CASE q = p
      <4>1. cmd'[q] = Idle /\ session'[q] = x
        BY <2>5, <3>2
      <4>2. ConsumesHead(st', count', cmd'[q], session'[q])
        BY <4>1 DEF ConsumesHead
      <4>3. QED
        BY <2>4, <4>1, <4>2 DEF ProcessFits, Idle, NoSession
    <3>3. QED
      BY <3>1, <3>2
  <2>7. QED
    BY <1>1, <2>3, <2>5, <2>6 DEF ProjectInv, RoomsTyped
<1>5. QED
  BY <1>3, <1>4

\* What Team Core appends is one plain event the reducer admits.
LEMMA HostAppendsPlain ==
  ASSUME ProjectInv, HostAppends
  PROVE  \E b : /\ Offers(st, b) /\ ~Completes(b) /\ ReducedBatch(st, b).ok
                /\ st' = ReducedBatch(st, b) /\ count' = count + Len(b)
                /\ UNCHANGED <<cmd, session, room>>
<1>1. PICK b :
        /\ \/ \E l \in MissionLeases, d \in Drafts :
                b = <<[type |-> "lease.issued", lease |-> l, subject |-> d.assign["build"],
                       task |-> d.task, context |-> d.context, env |-> d.env,
                       scope |-> d.scope]>>
           \/ \E l \in MissionLeases : b = <<[type |-> "lease.revoked", lease |-> l]>>
           \/ b = <<[type |-> "goal.change.proposed"]>>
           \/ b = <<[type |-> "goal.change.approved"]>>
        /\ ReducedBatch(st, b).ok /\ st' = ReducedBatch(st, b) /\ count' = count + Len(b)
        /\ UNCHANGED <<cmd, session, room>>
  BY DEF HostAppends
<1>2. \E e : /\ b = <<e>>
             /\ e.type \in {"lease.issued", "lease.revoked", "goal.change.proposed",
                            "goal.change.approved"}
  BY <1>1
<1>3. PICK e : /\ b = <<e>>
               /\ e.type \in {"lease.issued", "lease.revoked", "goal.change.proposed",
                              "goal.change.approved"}
  BY <1>2
<1>4. WellFormed(e) /\ e.type \in PlainTypes /\ ~Completes(b)
  BY <1>3 DEF WellFormed, EventTypes, EvidenceEvents, PlainTypes, Completes
<1>5. Offers(st, b)
  BY <1>1, <1>3, <1>4, HostOffers DEF ProjectInv, Sound
<1>6. QED
  BY <1>1, <1>4, <1>5

\* The host's event comes between a command and its append.
LEMMA HostAppendsKeeps ==
  ASSUME ProjectInv, HostAppends
  PROVE  ProjectInv'
<1>1. PICK b : /\ Offers(st, b)
               /\ st' = ReducedBatch(st, b) /\ count' = count + Len(b)
               /\ UNCHANGED <<cmd, session, room>>
  BY HostAppendsPlain
<1>2. WellFormedBatch(b) /\ Len(b) > 0
  BY <1>1 DEF Offers
<1>3. Sound(st') /\ count' \in Nat
  BY <1>1, <1>2, LogGrows
<1>4. \A q \in Processes : ProcessFits(q)'
  BY <1>1, <1>2, OthersFit
<1>5. QED
  BY <1>1, <1>3, <1>4 DEF ProjectInv, RoomsTyped


\* Every step keeps the invariant.
LEMMA ProcessStepKeeps ==
  ASSUME ProjectInv, NEW p \in Processes, ProcessStep(p)
  PROVE  ProjectInv'
<1>1. CASE \/ PlanCommand(p) \/ ApproveCommand(p) \/ BuildContextCommand(p)
           \/ StartRunCommand(p) \/ FinishRunCommand(p) \/ RecordScanCommand(p)
           \/ AttributeChangeCommand(p) \/ RecordCandidateCommand(p)
           \/ RequestApprovalCommand(p) \/ DecideApprovalCommand(p)
           \/ IssueMissionCommand(p) \/ BindRuntimeCommand(p) \/ BootstrapCommand(p)
           \/ StepsCommand(p) \/ ResumeRunCommand(p) \/ CreateCheckpointCommand(p)
  BY <1>1, WritesKeep
<1>2. CASE VerifyCommand(p) \/ CompleteCommand(p) \/ VerifyEvidenceCommand(p)
  BY <1>2, VerifyCommandKeeps, CompleteCommandKeeps, VerifyEvidenceCommandKeeps
<1>3. CASE RunExecutorCommand(p) \/ SyncPage(p) \/ PollsRunOut(p) \/ ConsumeEvent(p)
  BY <1>3, RunExecutorKeeps, SyncPageKeeps, PollsRunOutKeeps, ConsumeEventKeeps
<1>4. CASE ConfirmChanges(p) \/ AppendIfUnchanged(p) \/ Restart(p)
  BY <1>4, ConfirmChangesKeeps, AppendKeeps, RestartKeeps
<1>5. QED
  BY <1>1, <1>2, <1>3, <1>4, Zenon DEF ProcessStep

LEMMA StepKeeps ==
  ASSUME ProjectInv, [Next]_vars
  PROVE  ProjectInv'
<1>1. ASSUME UNCHANGED <<st, count, cmd, session>>, RoomsTyped'
      PROVE  ProjectInv'
  <2>1. ASSUME NEW q \in Processes PROVE ProcessFits(q)'
    <3>1. ProcessFits(q)
      BY DEF ProjectInv
    <3>2. QED
      BY <1>1, <3>1 DEF ProcessFits, Idle, NoSession
  <2>2. QED
    BY <1>1, <2>1 DEF ProjectInv
<1>2. CASE EditFiles \/ UNCHANGED vars
  BY <1>1, <1>2 DEF EditFiles, vars, RoomsTyped, ProjectInv
<1>3. CASE LeaderPosts
  <2>1. PICK t \in Tasks, kind \in Kinds : room' = [room EXCEPT ![t] = Append(@, kind)]
    BY <1>3 DEF LeaderPosts
  <2>2. RoomsTyped'
    BY <2>1 DEF ProjectInv, RoomsTyped
  <2>3. QED
    BY <1>1, <1>3, <2>2 DEF LeaderPosts
<1>4. CASE \E p \in Processes : ProcessStep(p)
  BY <1>4, ProcessStepKeeps
<1>5. CASE HostAppends
  BY <1>5, HostAppendsKeeps
<1>6. QED
  BY <1>2, <1>3, <1>4, <1>5 DEF Next

\* How the log changes: by the batch of a command that read all of it, or by
\* one event of the host that the reducer admits.
LEMMA LogChanges ==
  ASSUME ProjectInv, [Next]_vars
  PROVE  \/ st' = st
         \/ \E p \in Processes :
              /\ cmd[p].phase = "append" /\ st' = ReducedBatch(st, cmd[p].batch)
              /\ WellFormedBatch(cmd[p].batch) /\ Pending(st, cmd[p])
         \/ \E b : /\ Offers(st, b) /\ ~Completes(b) /\ ReducedBatch(st, b).ok
                   /\ st' = ReducedBatch(st, b)
<1>1. CASE HostAppends
  BY <1>1, HostAppendsPlain
<1>2. ASSUME NEW p \in Processes, AppendIfUnchanged(p)
      PROVE  \/ st' = st
             \/ /\ cmd[p].phase = "append" /\ st' = ReducedBatch(st, cmd[p].batch)
                /\ WellFormedBatch(cmd[p].batch) /\ Pending(st, cmd[p])
  <2>1. cmd[p].phase = "append"
    BY <1>2 DEF AppendIfUnchanged
  <2>2. Prepared(st, count, cmd[p])
    BY <2>1 DEF ProjectInv, ProcessFits, Idle
  <2>3. CASE ~LogUnchanged(p)
    BY <1>2, <2>3 DEF AppendIfUnchanged
  <2>4. CASE LogUnchanged(p)
    BY <1>2, <2>1, <2>2, <2>4 DEF AppendIfUnchanged, LogUnchanged, Prepared
  <2>5. QED
    BY <2>3, <2>4
<1>3. ASSUME NEW p \in Processes, ProcessStep(p), ~AppendIfUnchanged(p)
      PROVE  st' = st
  BY <1>3 DEF ProcessStep, PlanCommand, ApproveCommand, BuildContextCommand,
     StartRunCommand, FinishRunCommand, RecordScanCommand, AttributeChangeCommand,
     RecordCandidateCommand, RequestApprovalCommand, DecideApprovalCommand,
     IssueMissionCommand, BindRuntimeCommand, BootstrapCommand, StepsCommand,
     ResumeRunCommand, CreateCheckpointCommand, WriteCommand, VerifyCommand,
     CompleteCommand, VerifyEvidenceCommand, RunExecutorCommand, SyncPage, PollsRunOut,
     ConsumeEvent, ConfirmChanges, Restart
<1>4. CASE EditFiles \/ LeaderPosts \/ UNCHANGED vars
  BY <1>4 DEF EditFiles, LeaderPosts, vars
<1>5. QED
  BY <1>1, <1>2, <1>3, <1>4 DEF Next

\* Every step of the log grows it, and has the effects its command offered.
LEMMA LogGrowsOrStays ==
  ASSUME ProjectInv, [Next]_vars, st' # st
  PROVE  /\ Grown(st, st')
         /\ ReopenedByDecision(st, st')
         /\ RuntimeMoves(st, st')
<1>1. \/ \E b : WellFormedBatch(b) /\ st' = ReducedBatch(st, b) /\ Effects(st, b, st')
  BY LogChanges DEF Pending, Offers
<1>2. Shape(st) /\ Consistent(st)
  BY DEF ProjectInv, Sound
<1>3. QED
  BY <1>1, <1>2, BatchIsConsistent DEF Effects

(***************************************************************************)
(* From a sound state, ProjectInv holds for ever: whatever two processes,  *)
(* the host of Team Core, the files and the room do in between, a command  *)
(* that can still be appended fits the log (appendIfUnchanged), and an     *)
(* executor session stands where the log has its run (execution.go).       *)
(***************************************************************************)
THEOREM ProjectInvariant ==
  ASSUME NEW start, NEW limits, Sound(start)
  PROVE  ProjectSpec(start, limits) => []ProjectInv
<1>1. ProjectInit(start, limits) => ProjectInv
  BY ProjectStarts
<1>2. ProjectInv /\ [Next]_vars => ProjectInv'
  BY StepKeeps
<1>3. QED
  BY <1>1, <1>2, PTL DEF ProjectSpec

\* Whatever the log of a project holds, it reduces to such a state.
LEMMA HistoriesAreSound ==
  ASSUME NEW history, WellFormedBatch(history)
  PROVE  Sound(ReducedBatch(Initialized, history))
BY InitializedIsSound, BatchIsConsistent DEF Sound, Grown, ApprovalsKept
-----------------------------------------------------------------------------
(***************************************************************************)
(* The theorems.  A project may have any log of well-formed events.        *)
(***************************************************************************)
\* A risky mission in the log was approved as it stands, by a person of the rank
\* its risk asks for who is not the requester (approval.go, applyMissionIssued).
THEOREM RisksAreApproved ==
  ASSUME NEW history, WellFormedBatch(history), NEW limits
  PROVE  ProjectSpec(ReducedBatch(Initialized, history), limits) => []RiskyMissionsApproved
<1>. DEFINE start == ReducedBatch(Initialized, history)
<1>1. Sound(start)
  BY HistoriesAreSound
<1>. HIDE DEF start
<1>2. ProjectSpec(start, limits) => []ProjectInv
  BY <1>1, ProjectInvariant
<1>3. ProjectInv => RiskyMissionsApproved
  <2>1. SUFFICES ASSUME ProjectInv, NEW m \in st.missions, ApprovalRequired(m.risk)
                 PROVE  \E a \in Approvals :
                          /\ st.approval[a].status = "approved" /\ st.approval[a].hash = m
                          /\ st.approval[a].requester # st.approval[a].decider
                          /\ HasRole(st.approval[a].decider,
                                     IF m.risk = "L3" THEN {"owner"} ELSE {"lead", "reviewer"})
    BY DEF RiskyMissionsApproved
  <2>2. PICK a \in Approvals : /\ st.approval[a].status = "approved"
                               /\ st.approval[a].hash = m /\ st.approval[a].risk = m.risk
    BY <2>1 DEF ProjectInv, Sound, RisksApproved
  <2>3. /\ st.approval[a].requester # st.approval[a].decider
        /\ CanDecideApproval(st.approval[a].decider, m.risk)
    BY <2>1, <2>2 DEF ProjectInv, Sound, DecidedProperly
  <2>4. HasRole(st.approval[a].decider,
                IF m.risk = "L3" THEN {"owner"} ELSE {"lead", "reviewer"})
    <3>1. CASE m.risk = "L2"
      BY <2>3, <3>1 DEF CanDecideApproval
    <3>2. CASE m.risk = "L3"
      BY <2>3, <3>2 DEF CanDecideApproval
    <3>3. QED
      BY <2>1, <3>1, <3>2 DEF ApprovalRequired
  <2>5. QED
    BY <2>2, <2>3, <2>4
<1>4. QED
  BY <1>2, <1>3, PTL DEF start

\* A session that goes on has recorded all its pages up to the event it is at,
\* whatever other processes append between its page and its append (execution.go).
THEOREM SessionsLeaveNoHole ==
  ASSUME NEW history, WellFormedBatch(history), NEW limits
  PROVE  ProjectSpec(ReducedBatch(Initialized, history), limits) => []SessionLeavesNoHole
<1>. DEFINE start == ReducedBatch(Initialized, history)
<1>1. Sound(start)
  BY HistoriesAreSound
<1>. HIDE DEF start
<1>2. ProjectSpec(start, limits) => []ProjectInv
  BY <1>1, ProjectInvariant
<1>3. ProjectInv => SessionLeavesNoHole
  BY DEF ProjectInv, ProcessFits, SessionFits, SessionLeavesNoHole
<1>4. QED
  BY <1>2, <1>3, PTL DEF start

\* A step that revises bindings changes the runtime of an agent: a topology that
\* is bound already adds no revision (runtime_binding.go, applyRuntimeBound).
THEOREM RetriesAddNoRevision ==
  ASSUME NEW history, WellFormedBatch(history), NEW limits
  PROVE  ProjectSpec(ReducedBatch(Initialized, history), limits) => RetryAddsNoRevision
<1>. DEFINE start == ReducedBatch(Initialized, history)
<1>1. Sound(start)
  BY HistoriesAreSound
<1>. HIDE DEF start
<1>2. ProjectSpec(start, limits) => []ProjectInv
  BY <1>1, ProjectInvariant
<1>3. ProjectInv /\ [Next]_vars =>
        (st'.binding # st.binding =>
           \E a \in Agents :
             /\ st'.binding[a] # <<>>
             /\ st.binding[a] # <<>> => Last(st'.binding[a]) # Last(st.binding[a]))
  BY LogGrowsOrStays DEF RuntimeMoves
<1>4. QED
  BY <1>2, <1>3, PTL DEF ProjectSpec, RetryAddsNoRevision, start

\* An executor event stops a run once, however often and to whichever process it
\* is delivered (execution.go, reducer.go).
THEOREM EventsActOnce ==
  ASSUME NEW history, WellFormedBatch(history), NEW limits
  PROVE  ProjectSpec(ReducedBatch(Initialized, history), limits) => EventActsOnce
<1>. DEFINE start == ReducedBatch(Initialized, history)
<1>1. Sound(start)
  BY HistoriesAreSound
<1>. HIDE DEF start
<1>2. ProjectSpec(start, limits) => []ProjectInv
  BY <1>1, ProjectInvariant
<1>3. ProjectInv /\ [Next]_vars =>
        \A t \in Tasks :
          (/\ st'.run[t].status \in {"Paused", "Failed", "Cancelled"}
           /\ st'.run[t].status # st.run[t].status) =>
          \E x \in st'.received :
            /\ x.run = t
            /\ \A y \in st.received : <<y.run, y.source>> # <<t, x.source>>
  BY LogGrowsOrStays DEF Grown, ActsOnce, Stopped
<1>4. QED
  BY <1>2, <1>3, PTL DEF ProjectSpec, EventActsOnce, start

\* A completed task is reopened only by a decision against a record of its own
\* (recomputeTaskVerification).
THEOREM ReopenedOnlyByEvidence ==
  ASSUME NEW history, WellFormedBatch(history), NEW limits
  PROVE  ProjectSpec(ReducedBatch(Initialized, history), limits) => ReopenedByEvidenceOnly
<1>. DEFINE start == ReducedBatch(Initialized, history)
<1>1. Sound(start)
  BY HistoriesAreSound
<1>. HIDE DEF start
<1>2. ProjectSpec(start, limits) => []ProjectInv
  BY <1>1, ProjectInvariant
<1>3. ProjectInv /\ [Next]_vars =>
        \A t \in Tasks :
          (st.task[t].status = "Completed" /\ st'.task[t].status # "Completed") =>
          \E e \in Evidence : /\ st.evidence[e].task = t
                              /\ st.evidence[e].status \in {"candidate", "verified"}
                              /\ st'.evidence[e].status = "invalidated"
  BY LogGrowsOrStays DEF ReopenedByDecision
<1>4. QED
  BY <1>2, <1>3, PTL DEF ProjectSpec, ReopenedByEvidenceOnly, start

\* What another process appends after Complete has read the log cannot undo what
\* it completes on (Complete in service.go).
THEOREM CompletionsJustified ==
  ASSUME NEW history, WellFormedBatch(history), NEW limits
  PROVE  ProjectSpec(ReducedBatch(Initialized, history), limits) => CompletionJustified
<1>. DEFINE start == ReducedBatch(Initialized, history)
<1>1. Sound(start)
  BY HistoriesAreSound
<1>. HIDE DEF start
<1>2. ProjectSpec(start, limits) => []ProjectInv
  BY <1>1, ProjectInvariant
<1>3. ProjectInv /\ [Next]_vars =>
        \A t \in Tasks :
          (st'.task[t].status = "Completed" /\ st.task[t].status = "Verified") =>
          \E p \in Processes :
            /\ cmd[p].phase = "append" /\ Completes(cmd[p].batch)
            /\ ~Uncredited(st, cmd[p].scan, t)
            /\ Contextual(st, t) # {} =>
                 HasCurrentVerifiedEvidence(st, t, cmd[p].scan)
  <2>1. SUFFICES ASSUME ProjectInv, [Next]_vars, NEW t \in Tasks,
                        st'.task[t].status = "Completed", st.task[t].status = "Verified"
                 PROVE  \E p \in Processes :
                          /\ cmd[p].phase = "append" /\ Completes(cmd[p].batch)
                          /\ ~Uncredited(st, cmd[p].scan, t)
                          /\ Contextual(st, t) # {} =>
                               HasCurrentVerifiedEvidence(st, t, cmd[p].scan)
    OBVIOUS
  <2>2. st' # st
    BY <2>1
  <2>3. ASSUME NEW b, Effects(st, b, st')
        PROVE  Completes(b) /\ b[1].task = t
    BY <2>1, <2>3 DEF Effects, CompletedByBatch
  <2>4. PICK p \in Processes :
          /\ cmd[p].phase = "append" /\ st' = ReducedBatch(st, cmd[p].batch)
          /\ WellFormedBatch(cmd[p].batch) /\ Pending(st, cmd[p])
    BY <2>1, <2>2, <2>3, LogChanges DEF Offers
  <2>5. Completes(cmd[p].batch) /\ cmd[p].batch[1].task = t
    BY <2>3, <2>4 DEF Pending
  <2>6. QED
    BY <2>4, <2>5 DEF Pending, Justified
<1>4. QED
  BY <1>2, <1>3, PTL DEF ProjectSpec, CompletionJustified, start

\* A log that replays stops to replay only by one of the three commands that do
\* not check what they append (service.go, evidence.go, approval.go, execution.go).
THEOREM UncheckedOnlyBreakTheLog ==
  ASSUME NEW history, WellFormedBatch(history), NEW limits
  PROVE  ProjectSpec(ReducedBatch(Initialized, history), limits) => OnlyUncheckedBreakTheLog
<1>. DEFINE start == ReducedBatch(Initialized, history)
<1>1. Sound(start)
  BY HistoriesAreSound
<1>. HIDE DEF start
<1>2. ProjectSpec(start, limits) => []ProjectInv
  BY <1>1, ProjectInvariant
<1>3. ProjectInv /\ [Next]_vars =>
        (st.ok /\ ~st'.ok =>
          \E p \in Processes : cmd[p].phase = "append" /\ Unchecked(cmd[p]))
  <2>1. SUFFICES ASSUME ProjectInv, [Next]_vars, st.ok, ~st'.ok
                 PROVE  \E p \in Processes : cmd[p].phase = "append" /\ Unchecked(cmd[p])
    OBVIOUS
  <2>2. PICK p \in Processes :
          /\ cmd[p].phase = "append" /\ st' = ReducedBatch(st, cmd[p].batch)
          /\ WellFormedBatch(cmd[p].batch) /\ Pending(st, cmd[p])
    BY <2>1, LogChanges
  <2>3. QED
    BY <2>1, <2>2 DEF Pending, UncheckedBatch, Unchecked
<1>4. QED
  BY <1>2, <1>3, PTL DEF ProjectSpec, OnlyUncheckedBreakTheLog, start

=============================================================================
