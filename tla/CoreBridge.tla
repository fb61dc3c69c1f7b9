----------------------------- MODULE CoreBridge -----------------------------
(***************************************************************************)
(* The bridge that starts AgentTeams runs for Core, and the MCP host that  *)
(* reads what it has persisted.  The bridge keeps one document of missions *)
(* and runs in memory and replaces the file with it; governance goes to    *)
(* the event log.  A start is answered at once if its request is recorded, *)
(* and otherwise runs a session whose events are recorded when it ends.    *)
(***************************************************************************)
EXTENDS Integers, FiniteSets, SequencesExt

CONSTANTS
  Handlers,  \* the requests the bridge serves at a time
  Requests,  \* the starts sent to it: [mission : [id, project, assigned], run, form]
  Projects,
  MaxRoom    \* bound on the events of a run's room

NoProject == "none"

\* A mission names a project, and assigns its functions to agents in their order.
ASSUME RequestsAssumption ==
  /\ MaxRoom \in Nat
  /\ \A r \in Requests : /\ r.mission.project # NoProject
                         /\ r.mission.assigned \in Seq(STRING \X STRING)

VARIABLES
  document,  \* in the memory of the bridge
  stateFile, \* what is persisted of it
  history,   \* what the event log reduces to
  project,   \* the project of the manifest
  handling,  \* per handler, the start it is in
  refused,   \* the missions that were refused after they entered the document
  unsaved,   \* a replacement of the file failed, and none has succeeded since
  removed,   \* a failed replacement has removed the file
  shown      \* every evidence answered from a saved document

bridgeVars == <<document, stateFile, history, project, handling, refused,
                unsaved, removed, shown>>
governanceVars == <<history, project, refused>>
fileVars == <<stateFile, unsaved, removed>>

NoDocument == [missions |-> {}, runs |-> <<>>]
Idle == [phase |-> "idle"]

BridgeInit ==
  /\ document = NoDocument /\ stateFile = NoDocument
  /\ history = [project |-> NoProject, agents |-> <<>>]
  /\ project = NoProject
  /\ handling = [h \in Handlers |-> Idle]
  /\ refused = {} /\ unsaved = FALSE /\ removed = FALSE /\ shown = {}
-----------------------------------------------------------------------------
(* Governance: the manifest, the first event, and one event for each agent. *)
EnsureProject(p) ==
  /\ project \in {NoProject, p} /\ history.project \in {NoProject, p}

\* Mutant: an agent that is known is not compared.
FitsAny(agents, assignment) == TRUE

\* An assignment <<function, agent>> fits if the agent is new or has that function.
Fits(agents, assignment) ==
  assignment[2] \in DOMAIN agents => agents[assignment[2]] = assignment[1]

\* The first of the assignments of an agent.
FirstOf(assigned, agent) ==
  CHOOSE k \in DOMAIN assigned :
    assigned[k][2] = agent /\ \A j \in 1..k - 1 : assigned[j][2] # agent

\* The agents after the first n assignments were registered: one that is known is left as
\* it is, and a new one has the function of its first assignment.
Registered(agents, assigned, n) ==
  [a \in DOMAIN agents \cup {assigned[k][2] : k \in 1..n} |->
     IF a \in DOMAIN agents THEN agents[a] ELSE assigned[FirstOf(assigned, a)][1]]

Registrable(agents, assigned, n) ==
  \A k \in 1..n : Fits(Registered(agents, assigned, k - 1), assigned[k])

\* What ensureGovernanceHistory may have done when it ends, `all` if it succeeds: the
\* manifest is written first, and any append may fail.
GovernanceEnsured(m, all) ==
  IF ~EnsureProject(m.project) THEN ~all /\ UNCHANGED <<project, history>>
  ELSE \/ ~all /\ UNCHANGED history /\ project' \in {project, m.project}
       \/ \E n \in 0..Len(m.assigned) :
            /\ Registrable(history.agents, m.assigned, n)
            /\ all => n = Len(m.assigned)
            /\ project' = m.project
            /\ history' = [project |-> m.project,
                           agents |-> Registered(history.agents, m.assigned, n)]

\* Persisting `doc`: the file is replaced, or it is not, or it is removed.
Persisted(doc) == stateFile' = doc /\ unsaved' = FALSE /\ UNCHANGED removed

NotPersisted ==
  /\ unsaved' = TRUE
  /\ \/ UNCHANGED <<stateFile, removed>>
     \/ stateFile' = NoDocument /\ removed' = TRUE

Diverges(m) == \E x \in document.missions : x.id = m.id /\ x # m

WithMission(m) == [document EXCEPT !.missions = @ \cup {m}]
-----------------------------------------------------------------------------
(* The start of a run. *)
At(h, phase) == handling[h].phase = phase
Done(h) == handling' = [handling EXCEPT ![h] = Idle]

\* The mission is in the document before its history is ensured, and stays there.
RegisterMission(h, request) ==
  LET m == request.mission
  IN  /\ At(h, "idle") /\ ~Diverges(m)
      /\ document' = WithMission(m)
      /\ \/ /\ GovernanceEnsured(m, TRUE) /\ Persisted(WithMission(m))
            /\ handling' = [handling EXCEPT ![h] = [phase |-> "registered", request |-> request]]
            /\ refused' = refused \ {m}
         \/ /\ GovernanceEnsured(m, TRUE) /\ NotPersisted
            /\ UNCHANGED <<handling, refused>>
         \/ /\ GovernanceEnsured(m, FALSE)
            /\ refused' = refused \cup ({m} \ document.missions)
            /\ UNCHANGED <<handling, fileVars>>
      /\ UNCHANGED shown

InitializeProject(p) ==
  /\ EnsureProject(p)
  /\ project' = p /\ history' = [history EXCEPT !.project = p]
  /\ UNCHANGED <<document, fileVars, handling, refused, shown>>

HasRun(doc, run) == run \in DOMAIN doc.runs

Cursor(run) == IF HasRun(document, run) THEN document.runs[run].cursor ELSE 0

\* The evidence of a run is answered from the document in memory.
Evidence(run) ==
  /\ HasRun(document, run)
  /\ shown' = IF unsaved THEN shown ELSE shown \cup {[run |-> run, ids |-> document.runs[run].ids]}

GetEvidence(run) ==
  /\ Evidence(run)
  /\ UNCHANGED <<document, fileVars, governanceVars, handling>>

AnswerRecorded(h) ==
  LET request == handling[h].request
  IN  /\ At(h, "registered")
      /\ HasRun(document, request.run) /\ document.runs[request.run].form = request.form
      /\ Evidence(request.run) /\ Done(h)
      /\ UNCHANGED <<document, fileVars, governanceVars>>

\* A session is started, and may bind the request; its events after the cursor that
\* is read now arrive, or it fails.
StartSession(h) ==
  LET request == handling[h].request
  IN  /\ At(h, "registered")
      /\ HasRun(document, request.run) => document.runs[request.run].form # request.form
      /\ \/ \E last \in Cursor(request.run) + 1 .. MaxRoom, form \in {request.form, "bound"} :
              handling' = [handling EXCEPT ![h] =
                [phase |-> "ended", from |-> Cursor(request.run) + 1, last |-> last,
                 request |-> [mission |-> request.mission, run |-> request.run, form |-> form]]]
         \/ Done(h)
      /\ UNCHANGED <<document, fileVars, governanceVars, shown>>

\* Mutant: a run has the events of its last session.
Replaced(ids, from, last) == [k \in 1..last - from + 1 |-> from + k - 1]

\* The ids of S in the order of the room.
InOrder(S) ==
  [k \in 1..Cardinality(S) |-> CHOOSE x \in S : Cardinality({y \in S : y < x}) = k - 1]

\* The ids a run has, with the new ones of a session behind them.
Merged(ids, from, last) == ids \o InOrder((from..last) \ ToSet(ids))

WithRun(s) ==
  LET run == s.request.run
      ids == IF HasRun(document, run) THEN document.runs[run].ids ELSE <<>>
      recorded == [ids |-> Merged(ids, s.from, s.last), cursor |-> s.last, form |-> s.request.form]
  IN  [document EXCEPT !.runs =
         [r \in DOMAIN @ \cup {run} |-> IF r = run THEN recorded ELSE @[r]]]

RecordRun(h) ==
  /\ At(h, "ended")
  /\ document' = WithRun(handling[h])
  /\ \/ /\ Persisted(document')
        /\ handling' = [handling EXCEPT ![h] = [phase |-> "recorded", request |-> @.request]]
     \/ NotPersisted /\ Done(h)
  /\ UNCHANGED <<governanceVars, shown>>

AnswerStarted(h) ==
  /\ At(h, "recorded")
  /\ Evidence(handling[h].request.run) /\ Done(h)
  /\ UNCHANGED <<document, fileVars, governanceVars>>

\* The bridge ends, wherever it is, and is opened again.
OpenState ==
  /\ document' = stateFile /\ unsaved' = FALSE
  /\ handling' = [h \in Handlers |-> Idle]
  /\ UNCHANGED <<stateFile, removed, governanceVars, shown>>

BridgeNext ==
  \/ \E h \in Handlers :
       \/ \E request \in Requests : RegisterMission(h, request)
       \/ AnswerRecorded(h) \/ StartSession(h) \/ RecordRun(h) \/ AnswerStarted(h)
  \/ \E p \in Projects : InitializeProject(p)
  \/ \E run \in DOMAIN document.runs : GetEvidence(run)
  \/ OpenState

BridgeSpec == BridgeInit /\ [][BridgeNext]_bridgeVars
-----------------------------------------------------------------------------
\* The missions the MCP host serves: it reads the file before every answer.
Served == stateFile.missions

\* The MCP host never serves a mission whose project or agents the log does not
\* have, except one that was refused when it was last sent: the policy decides on this view.
MissionsFounded ==
  \A m \in Served \ refused :
    /\ history.project = m.project
    /\ \A k \in DOMAIN m.assigned :
         /\ m.assigned[k][2] \in DOMAIN history.agents
         /\ history.agents[m.assigned[k][2]] = m.assigned[k][1]

\* Evidence once answered from a saved document is never taken back: a run keeps the
\* events it has in their order and each once, whatever other starts of the run
\* record, whenever the bridge is opened again, unless a failed replacement has
\* removed the file.
EvidenceStays ==
  ~removed => \A e \in shown : \A doc \in {document, stateFile} :
    /\ HasRun(doc, e.run)
    /\ IsPrefix(e.ids, doc.runs[e.run].ids)
    /\ IsInjective(doc.runs[e.run].ids)
=============================================================================
