---------------------------- MODULE SkillRuntime ----------------------------
(***************************************************************************)
(* A skill call, from the MCP server to its answer: the binding is looked  *)
(* up, the policy decides on the state of that moment, and every step is   *)
(* recorded in the trace before the next one.  A caller whose answer was   *)
(* lost, or whose call waited for an approval, calls again under the same  *)
(* invocation id; several calls run at the same time.                      *)
(***************************************************************************)
EXTENDS TraceLedger

CONSTANTS
  Servers,      \* the goroutines or processes that serve calls
  Calls,        \* the invocation ids
  TraceOf,      \* the trace a call names
  Unfit,        \* the checks the call can never pass: its scope, function, ...
  Risky,        \* calls of skills of risk L2 or L3
  Contextual,   \* calls of skills that require a context
  Leased,       \* calls of skills that require a lease
  Promoted,     \* calls of the audit skill
  Outputs,      \* what an adapter may return
  Changing,     \* the checks whose facts may change while calls are made
  MaxCalls,     \* bound on the calls of a behaviour
  MaxChanges    \* bound on what no longer holds at one time

VARIABLES
  broken,    \* what no longer holds of the mission the calls are made for
  approved,  \* the calls whose input a human has approved
  serving,   \* per server, the call it works on
  received,  \* the number of calls so far; it is the time they are made at
  ran        \* the calls whose adapter was called

skillVars == <<ledger, shortened, broken, approved, serving, received, ran>>

\* The checks of Policy.Evaluate, in its order.
Checks == <<"mission", "goal", "binding", "agent", "run", "definition", "function",
            "context", "lease", "scope", "environment", "grant">>
BoundChecks == {"mission", "goal", "context", "run", "agent", "binding", "environment"}

Free == [phase |-> "free"]

Applies(check, c) ==
  (check = "context" => c \in Contextual) /\ (check = "lease" => c \in Leased)

Evaluate(c) ==
  LET failing == {k \in DOMAIN Checks :
                    Checks[k] \in broken \cup Unfit[c] /\ Applies(Checks[k], c)}
  IN  IF failing # {} THEN [status |-> "denied", code |-> Checks[Min(failing)]]
      ELSE IF c \in Risky /\ c \notin approved
           THEN [status |-> "approval_required", code |-> "approval_required"]
           ELSE [status |-> "allowed", code |-> "none"]

\* A decision names the agent's function, except when the call is denied.
Function(decision) == IF decision.status = "denied" THEN "unknown" ELSE "known"
-----------------------------------------------------------------------------
SkillInit ==
  /\ LedgerInit
  /\ broken = {} /\ approved = {} /\ received = 0 /\ ran = {}
  /\ serving = [s \in Servers |-> Free]

Now(s, phase) == serving[s].phase = phase
Goes(s, next) == serving' = [serving EXCEPT ![s] = next]
GoesTo(s, phase) == Goes(s, [serving[s] EXCEPT !.phase = phase])

\* The state the server validates the binding against is read before the policy's.
HandleToolsCall(s, c) ==
  /\ Now(s, "free") /\ received < MaxCalls
  /\ BoundChecks \cap (broken \cup Unfit[c]) = {}
  /\ received' = received + 1
  /\ Goes(s, [phase |-> "evaluate", call |-> c, at |-> received + 1])
  /\ UNCHANGED <<ledgerVars, broken, approved, ran>>

Invoke(s) ==
  /\ Now(s, "evaluate")
  /\ Goes(s, [phase |-> "decided", call |-> serving[s].call, at |-> serving[s].at,
              decision |-> Evaluate(serving[s].call), result |-> "none", audited |-> TRUE])
  /\ UNCHANGED <<ledgerVars, broken, approved, received, ran>>

\* The record of a step: the root of the invocation is made sure of first, and the
\* step carries the root's time.
EnsureRoot(s) ==
  LET v == serving[s]
  IN  AppendIdempotent(Stored, [inv |-> v.call, type |-> "root", trace |-> TraceOf[v.call],
                                body |-> Function(v.decision), at |-> v.at])

Recorded(s, type, body) ==
  LET v == serving[s]
      root == EnsureRoot(s)
  IN  IF ~root.ok THEN root
      ELSE AppendIdempotent(root.records,
             [inv |-> v.call, type |-> type, trace |-> TraceOf[v.call], body |-> body,
              at |-> RootOf(root.records, v.call).at])

\* A step is recorded; when the ledger refuses it, the call has failed.
Trace(s, type, body, next) ==
  /\ Appended(Recorded(s, type, body))
  /\ GoesTo(s, IF Recorded(s, type, body).ok THEN next ELSE "answer")
  /\ UNCHANGED <<broken, approved, received, ran>>

PolicyDecision(s) ==
  /\ Now(s, "decided")
  /\ Trace(s, "decided", serving[s].decision,
           CASE serving[s].decision.status = "denied" -> "answer"
             [] serving[s].decision.status = "approval_required" -> "wait"
             [] OTHER -> "start")

\* The approval candidate is submitted too; whatever comes of it, the call ends.
ApprovalWait(s) == Now(s, "wait") /\ Trace(s, "approval.requested", "waiting", "answer")

AdapterStarted(s) == Now(s, "start") /\ Trace(s, "started", "running", "run")

InvokeAdapter(s) ==
  /\ Now(s, "run")
  /\ ran' = ran \cup {serving[s].call}
  /\ \E output \in Outputs \cup {"failed"} :
       Goes(s, [serving[s] EXCEPT !.phase = "ran", !.result = output])
  /\ UNCHANGED <<ledgerVars, broken, approved, received>>

AdapterFinished(s) == Now(s, "ran") /\ Trace(s, "finished", serving[s].result, "audit")

\* The audit sink keeps a record of its own, with the time of this call.
RecordSkillCall(s) ==
  LET v == serving[s]
      result == AppendIdempotent(Stored,
        [inv |-> v.call, type |-> "audit.persisted", trace |-> TraceOf[v.call],
         body |-> v.result, at |-> v.at])
  IN  /\ Now(s, "audit")
      /\ Appended(result)
      /\ Goes(s, [v EXCEPT !.phase = "audited", !.audited = result.ok])
      /\ UNCHANGED <<broken, approved, received, ran>>

AuditResult(s) ==
  /\ Now(s, "audited")
  /\ Trace(s, "audit.recorded", <<serving[s].audited, serving[s].result>>,
           IF serving[s].audited /\ serving[s].result # "failed" /\ serving[s].call \in Promoted
           THEN "promote" ELSE "answer")

Promote(s) == Now(s, "promote") /\ Trace(s, "evidence.candidate", serving[s].result, "answer")

Answer(s) ==
  /\ Now(s, "answer")
  /\ Goes(s, Free)
  /\ UNCHANGED <<ledgerVars, broken, approved, received, ran>>

\* The process dies between two steps, or while it writes the root or the record.
ServerDies(s) ==
  /\ serving[s] # Free
  /\ Goes(s, Free)
  /\ \/ UNCHANGED ledgerVars
     \/ /\ serving[s].phase \in {"decided", "wait", "start", "ran", "audit", "audited", "promote"}
        /\ TornWrite(Stored) \/ (EnsureRoot(s).ok /\ TornWrite(EnsureRoot(s).records))
  /\ UNCHANGED <<broken, approved, received, ran>>

\* The goal moves, a lease is revoked, a run ends, ..., or it is put right again; a
\* human approves.
Governs ==
  /\ \/ /\ \E fact \in Changing : broken' \in {broken \cup {fact}, broken \ {fact}}
        /\ Cardinality(broken') <= MaxChanges
        /\ UNCHANGED approved
     \/ \E c \in Risky : approved' = approved \cup {c} /\ UNCHANGED broken
  /\ UNCHANGED <<ledgerVars, serving, received, ran>>

SkillNext ==
  \/ \E s \in Servers :
       \/ \E c \in Calls : HandleToolsCall(s, c)
       \/ Invoke(s) \/ PolicyDecision(s) \/ ApprovalWait(s) \/ AdapterStarted(s)
       \/ InvokeAdapter(s) \/ AdapterFinished(s) \/ RecordSkillCall(s)
       \/ AuditResult(s) \/ Promote(s) \/ Answer(s) \/ ServerDies(s)
  \/ Governs
  \/ LedgerNext /\ UNCHANGED <<broken, approved, serving, received, ran>>

SkillSpec == SkillInit /\ [][SkillNext]_skillVars
-----------------------------------------------------------------------------
\* An adapter is called only for a call whose ledger holds the decision that allows
\* it and its start: whatever was refused or sent for approval before never runs
\* under the same id, however the state changes, whoever calls again and wherever a
\* process dies, unless a process died while it removed a tail.
RanAsDecided ==
  ~shortened => \A c \in ran : \E k, j \in DOMAIN ledger.records :
    /\ k < j
    /\ ledger.records[k].inv = c /\ ledger.records[j].inv = c
    /\ ledger.records[k].type = "decided" /\ ledger.records[k].body.status = "allowed"
    /\ ledger.records[j].type = "started"
=============================================================================
