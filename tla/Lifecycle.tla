----------------------------- MODULE Lifecycle -----------------------------
(***************************************************************************)
(* The part of the governance reducer (internal/model/reducer.go) that     *)
(* follows one task from its plan to its completion: contexts, the run and *)
(* its steps, checkpoints and executor events, evidence, and the workspace *)
(* changes attributed to it.  Each apply function is an operator giving    *)
(* the set of states an event may lead to: one state, or none when the     *)
(* reducer returns an error.                                               *)
(*                                                                         *)
(* A requirement carries one task.  A task leaves Approved for good when   *)
(* its run starts, so it has at most one run and the run goes by the name  *)
(* of its task.  The hash of a context slice stands for its content, so    *)
(* equal ids have equal hashes.                                            *)
(***************************************************************************)
EXTENDS Integers, Sequences, FiniteSets

CONSTANTS Tasks, Contexts, Evidence, Steps,
          Paths,      \* the files a scan can report
          Versions,   \* the contents a file can have; Baseline is unchanged
          Baseline,
          Manual,     \* the attribution "external-manual"
          None

\* The absent id is no task's, records are finitely many, and a file can be
\* unchanged.
ASSUME IdsAssumption ==
  None \notin Tasks /\ IsFiniteSet(Evidence) /\ Baseline \in Versions

When(condition, state) == IF condition THEN {state} ELSE {}

Kinds == {"progress", "paused", "failed", "cancelled"}

LifecycleStart ==
  [goal     |-> 1,
   change   |-> [status |-> "none", base |-> 0],
   task     |-> [t \in Tasks |-> [status |-> "none", goal |-> 0]],
   context  |-> [c \in Contexts |->
                   [task |-> None, goal |-> 0, superseded |-> FALSE]],
   run      |-> [t \in Tasks |->
                   [status |-> "none", goal |-> 0, context |-> None,
                    actor |-> None, cursor |-> 0]],
   step     |-> [s \in Steps |-> [run |-> None, status |-> "none"]],
   received |-> {},
   evidence |-> [e \in Evidence |->
                   [status |-> "none", task |-> None, context |-> None,
                    goal |-> 0, digest |-> None]],
   changed  |-> [p \in Paths |-> Baseline],
   credited |-> {}]
-----------------------------------------------------------------------------
(***************************************************************************)
(* The goal.  A project has at most one goal change in flight here.        *)
(***************************************************************************)
\* Mutant: the tasks whose evidence went stale are reopened.
MarkOlderBindingsStaleAndReopen(s) ==
  [s EXCEPT
     !.evidence = [e \in Evidence |->
        IF @[e].status # "none" /\ @[e].goal < s.goal
        THEN [@[e] EXCEPT !.status = "stale"] ELSE @[e]],
     !.task = [t \in Tasks |-> IF @[t].status = "Completed"
                               THEN [@[t] EXCEPT !.status = "Verifying"] ELSE @[t]]]

MarkOlderBindingsStale(s) ==
  [s EXCEPT
     !.context  = [c \in Contexts |->
        [@[c] EXCEPT !.superseded = @ \/ (s.context[c].task # None /\
                                          s.context[c].goal < s.goal)]],
     !.evidence = [e \in Evidence |->
        IF @[e].status # "none" /\ @[e].goal < s.goal
        THEN [@[e] EXCEPT !.status = "stale"] ELSE @[e]]]

ApplyGoalChangeProposed(s, e) ==
  When(s.change.status # "proposed",
       [s EXCEPT !.change = [status |-> "proposed", base |-> s.goal]])

ApplyGoalChangeApproved(s, e) ==
  When(s.change.status = "proposed" /\ s.change.base = s.goal,
       MarkOlderBindingsStale([s EXCEPT !.change.status = "approved",
                                        !.goal = @ + 1]))
-----------------------------------------------------------------------------
(***************************************************************************)
(* Plan, approval and context slices.                                      *)
(***************************************************************************)
ApplyRequirementPlanned(s, e) ==
  When(s.task[e.task].status = "none",
       [s EXCEPT !.task[e.task] = [status |-> "Draft", goal |-> s.goal]])

ApplyRequirementApproved(s, e) ==
  When(s.task[e.task].status = "Draft",
       [s EXCEPT !.task[e.task].status = "Approved"])

ApplyContextIssued(s, e) ==
  When(/\ e.goal = s.goal
       /\ s.task[e.task].status # "none"
       /\ s.context[e.context].task = None,
       [s EXCEPT !.context[e.context] =
          [task |-> e.task, goal |-> e.goal, superseded |-> FALSE]])

ApplyContextSuperseded(s, e) ==
  When(s.context[e.context].task # None /\ ~s.context[e.context].superseded,
       [s EXCEPT !.context[e.context].superseded = TRUE])
-----------------------------------------------------------------------------
(***************************************************************************)
(* The run of a task.                                                      *)
(***************************************************************************)
ApplyRunStarted(s, e) ==
  When(/\ s.run[e.task].status = "none"
       /\ e.context # None => /\ s.context[e.context].task = e.task
                              /\ ~s.context[e.context].superseded
       /\ s.task[e.task].status = "Approved",
       [s EXCEPT !.task[e.task].status = "Running",
                 !.run[e.task] = [status |-> "Running", goal |-> s.goal,
                                  context |-> e.context, actor |-> e.actor,
                                  cursor |-> 0]])

ApplyRunStepStarted(s, e) ==
  When(s.run[e.task].status = "Running" /\ s.step[e.step].run = None,
       [s EXCEPT !.step[e.step] = [run |-> e.task, status |-> "started"]])

ApplyRunStepFinished(s, e) ==
  When(/\ s.step[e.step] = [run |-> e.task, status |-> "started"]
       /\ s.run[e.task].status = "Running",
       [s EXCEPT !.step[e.step].status = "finished"])

\* validateCurrentRunContext
RunContextCurrent(s, t) ==
  LET run == s.run[t] IN
  /\ run.context # None
  /\ s.context[run.context] = [task |-> t, goal |-> run.goal, superseded |-> FALSE]

ApplyCheckpointCreated(s, e) ==
  When(/\ e.step # None => s.step[e.step].run = e.task
       /\ s.run[e.task].status = "Running"
       /\ RunContextCurrent(s, e.task),
       [s EXCEPT !.run[e.task].cursor = e.cursor])

(***************************************************************************)
(* The cursor an executor event is recorded under contains the event's id, *)
(* so two recorded events never share one and the id alone decides.        *)
(***************************************************************************)
\* Mutant: an event is looked up under its cursor alone, that of its page.
HasExecutorEventAtCursor(s, t, source) ==
  \E x \in s.received : x.run = t /\ x.source = source /\ x.source = x.cursor

HasExecutorEvent(s, t, source) ==
  \E x \in s.received : x.run = t /\ x.source = source

ApplyExecutorEventReceived(s, e) ==
  IF HasExecutorEvent(s, e.task, e.source) THEN {s}
  ELSE When(/\ e.step # None => s.step[e.step].run = e.task
            /\ e.kind \in Kinds
            /\ s.run[e.task].status = "Running",
            [s EXCEPT
               !.received = @ \cup {[run |-> e.task, source |-> e.source,
                                     kind |-> e.kind, cursor |-> e.cursor]},
               !.run[e.task].status =
                 CASE e.kind = "paused"    -> "Paused"
                   [] e.kind = "failed"    -> "Failed"
                   [] e.kind = "cancelled" -> "Cancelled"
                   [] OTHER                -> @])

ApplyRunResumed(s, e) ==
  LET run == s.run[e.task] IN
  When(/\ run.status \in {"Paused", "Failed"}
       /\ run.cursor # 0 /\ e.cursor = run.cursor
       /\ RunContextCurrent(s, e.task)
       /\ s.task[e.task].status = "Running",
       [s EXCEPT !.run[e.task].status = "Running"])

ApplyRunFinished(s, e) ==
  When(s.run[e.task].status = "Running" /\ s.task[e.task].status = "Running",
       [s EXCEPT !.run[e.task].status = "Finished",
                 !.task[e.task].status = "Verifying"])

-----------------------------------------------------------------------------
(***************************************************************************)
(* Evidence.  A contextual record names the context of the task's run; a   *)
(* legacy record, of evidence.recorded, names none and has goal 0.         *)
(***************************************************************************)
ValidContextualEvidence(s, e) ==
  LET run == s.run[e.task] IN
  /\ e.goal = s.goal
  /\ run.status = "Finished"
  /\ s.task[e.task].status = "Verifying"
  /\ e.context # None /\ run.context = e.context
  /\ s.context[e.context].task = e.task
  /\ s.context[e.context].goal = e.goal

\* Any verified record makes the task Verified, whatever it was before.
RecomputeTaskVerification(s, t) ==
  LET verified == \E e \in Evidence : /\ s.evidence[e].task = t
                                      /\ s.evidence[e].status = "verified"
  IN [s EXCEPT !.task[t].status =
        IF verified THEN "Verified"
        ELSE IF @ \in {"Verified", "Completed"} THEN "Verifying" ELSE @]

\* updateEvidenceStatus, which also keeps the digest the decision checked.
UpdateEvidenceStatus(s, e, status) ==
  LET record == s.evidence[e.evidence] IN
  {RecomputeTaskVerification(t, record.task) :
     t \in When(/\ record.status # "none" /\ record.task = e.task
                /\ status = "verified" => record.status = "candidate",
                [s EXCEPT !.evidence[e.evidence].status = status,
                          !.evidence[e.evidence].digest =
                             IF e.digest = None THEN @ ELSE e.digest])}

ApplyEvidenceRecorded(s, e) ==
  When(s.evidence[e.evidence].status = "none" /\ s.task[e.task].status = "Verifying",
       [s EXCEPT !.evidence[e.evidence] =
                    [status |-> "legacy", task |-> e.task, context |-> None,
                     goal |-> 0, digest |-> None],
                 !.task[e.task].status = IF e.passed THEN "Verified" ELSE @])

ApplyEvidenceCandidateRecorded(s, e) ==
  When(ValidContextualEvidence(s, e) /\ s.evidence[e.evidence].status = "none",
       [s EXCEPT !.evidence[e.evidence] =
                    [status |-> "candidate", task |-> e.task,
                     context |-> e.context, goal |-> e.goal, digest |-> None]])

ApplyEvidenceVerified(s, e) ==
  IF ValidContextualEvidence(s, e) THEN UpdateEvidenceStatus(s, e, "verified")
                                   ELSE {}

ApplyEvidenceInvalidated(s, e) == UpdateEvidenceStatus(s, e, "invalidated")

ApplyTaskCompleted(s, e) ==
  When(/\ s.task[e.task].status = "Verified"
       /\ s.run[e.task].status \in {"none", "Finished"},
       [s EXCEPT !.task[e.task].status = "Completed"])
-----------------------------------------------------------------------------
(***************************************************************************)
(* The changes of the workspace.  A scan replaces the recorded changes; an *)
(* attribution is of one version of one file and is never removed.         *)
(***************************************************************************)
ApplyChangesScanned(s, e) == {[s EXCEPT !.changed = e.files]}

ApplyChangeAttributed(s, e) ==
  When(/\ s.changed[e.path] = e.version /\ e.version # Baseline
       /\ e.to = Manual \/ s.task[e.to].status # "none",
       [s EXCEPT !.credited =
          {x \in @ : <<x.path, x.version>> # <<e.path, e.version>>}
            \cup {[path |-> e.path, version |-> e.version, to |-> e.to]}])
=============================================================================
