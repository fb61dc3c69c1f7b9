------------------------------ MODULE Transfer ------------------------------
(***************************************************************************)
(* Signed transfer between zones, in the zone that receives a capsule and  *)
(* later returns what was done with it.  The server keeps previews in its  *)
(* memory; an owner confirms one by its hash, and the agents of the        *)
(* capsule are bound one batch of events at a time, without reducing them. *)
(* A return is signed for what a human has approved by its hash.  A hash   *)
(* is what it covers.                                                      *)
(***************************************************************************)
EXTENDS Integers, SequencesExt

CONSTANTS
  Agents,        \* the logical agents
  Archives,      \* the capsules that arrive: [wrong, goal, expires, agents]
  Settings,      \* the configurations an operator writes: [goal, agents, binds]
  Principals,    \* what an agent may be bound to
  Owners,        \* the human owners
  People,        \* all who use the server
  Bases,         \* the manifests a return may start from
  Entries,       \* what it may carry
  Provable,      \* the entries whose provenance the zone can verify
  MaxTime, MaxGoal, MaxBindings, MaxImports, MaxApprovals  \* bounds

ASSUME ArchivesAssumption == \A archive \in Archives : archive.agents \in Seq(Agents)

\* A binding of the configuration is refused if its revision is below 1.
ASSUME SettingsAssumption ==
  \A s \in Settings :
    /\ DOMAIN s.binds \subseteq Agents
    /\ \A a \in DOMAIN s.binds : /\ s.binds[a].revision \in Nat \ {0}
                                /\ s.binds[a].principal \in Principals

VARIABLES
  zone,      \* what the zone's log reduces to, and whether it still does
  manifest,  \* the goal version in the manifest file
  setting,   \* the configuration file
  server,    \* what the process has loaded and remembers
  clock,
  confirmed, \* every import an owner has started, and what it has written
  drifted,   \* the agents, and the goal, that are not what the server loaded
  approvals, \* the return approvals of the log, in order
  signed     \* the archives this zone has signed

transferVars ==
  <<zone, manifest, setting, server, clock, confirmed, drifted, approvals, signed>>
zoneVars == <<zone, manifest, setting, clock>>
returnVars == <<approvals, signed>>

OutOfStep ==
  {a \in DOMAIN setting.binds : setting.binds[a].revision # Len(zone.bound[a])}
    \cup (IF manifest = zone.goal THEN {} ELSE {"goal"})

\* The process loads the configuration and the manifest's goal, and has no preview.
Loaded == [config |-> setting, writerGoal |-> manifest, previews |-> {}]

TransferInit ==
  /\ zone = [goal |-> 1, bound |-> [a \in Agents |-> <<>>], agents |-> {}, ok |-> TRUE]
  /\ manifest = 1
  /\ setting \in Settings
  /\ clock = 0
  /\ server = Loaded
  /\ drifted = OutOfStep
  /\ confirmed = <<>> /\ approvals = <<>> /\ signed = {}
-----------------------------------------------------------------------------
(* The import. *)
\* Mutant: the binding the configuration has is proposed again.
RebindConfigured(archive) ==
  [k \in DOMAIN archive.agents |->
     [agent |-> archive.agents[k]] @@ server.config.binds[archive.agents[k]]]

\* Each agent of the capsule is to be bound after the revision of the configuration,
\* not after the one the log has.
RebindRequired(archive) ==
  [k \in DOMAIN archive.agents |->
     LET target == server.config.binds[archive.agents[k]]
     IN  [agent |-> archive.agents[k], revision |-> target.revision + 1,
          principal |-> target.principal]]

\* wrong: what of the target environment, signature, digests, baseline, context,
\* lease, scope, skills and traces does not match.
Importable(archive) ==
  /\ archive.wrong = {}
  /\ archive.goal = server.config.goal
  /\ clock < archive.expires
  /\ ToSet(archive.agents) \subseteq DOMAIN server.config.binds

PreviewOf(archive) == [archive |-> archive, binds |-> RebindRequired(archive)]

PreviewImport(archive) ==
  /\ Importable(archive)
  /\ server' = [server EXCEPT !.previews = @ \cup {PreviewOf(archive)}]
  /\ UNCHANGED <<zoneVars, confirmed, drifted, returnVars>>

\* A preview may be confirmed again after a failure, or after it was applied, or
\* while it is.
ApplyImport(person, preview) ==
  /\ person \in Owners /\ preview \in server.previews
  /\ Importable(preview.archive) /\ PreviewOf(preview.archive) = preview
  /\ Len(confirmed) < MaxImports
  /\ confirmed' = Append(confirmed,
       [preview |-> preview, at |-> clock, written |-> <<>>, ended |-> FALSE])
  /\ UNCHANGED <<zoneVars, server, drifted, returnVars>>

Reducible(bind) ==
  /\ bind.agent \in zone.agents
  /\ bind.revision = Len(zone.bound[bind.agent]) + 1
  /\ server.writerGoal = zone.goal

\* The zone after the two events of one agent are in its log.
ApplyRuntimeBound(bind) ==
  IF zone.ok /\ Reducible(bind)
  THEN [zone EXCEPT !.bound[bind.agent] = Append(@, bind.principal)]
  ELSE [zone EXCEPT !.ok = FALSE]

CommitImport(k) ==
  LET done == Len(confirmed[k].written)
      bind == confirmed[k].preview.binds[done + 1]
  IN  /\ ~confirmed[k].ended /\ done < Len(confirmed[k].preview.binds)
      /\ zone' = ApplyRuntimeBound(bind)
      /\ confirmed' = [confirmed EXCEPT ![k].written = Append(@,
           [bind |-> bind, fits |-> zone.ok => Reducible(bind),
            drifted |-> {bind.agent, "goal"} \cap drifted # {}])]
      /\ drifted' = drifted \cup {bind.agent}
      /\ UNCHANGED <<manifest, setting, clock, server, returnVars>>

\* The import is answered, or it ends at an agent because the log has grown meanwhile.
EndImport(k) ==
  /\ ~confirmed[k].ended
  /\ confirmed' = [confirmed EXCEPT ![k].ended = TRUE]
  /\ UNCHANGED <<zoneVars, server, drifted, returnVars>>

-----------------------------------------------------------------------------
(* What else happens to the zone. *)
Drift(what) ==
  /\ drifted' = drifted \cup what
  /\ UNCHANGED <<manifest, setting, clock, server, confirmed, returnVars>>

\* Every agent of the configuration is registered, and bound if it has no binding,
\* to revision 1; if it has another binding nothing is done.
BootstrapRuntimeTopology ==
  LET binds == setting.binds
      fresh == {a \in DOMAIN binds : zone.bound[a] = <<>>}
  IN  /\ zone.ok
      /\ \A a \in DOMAIN binds \ fresh : Last(zone.bound[a]) = binds[a].principal
      /\ zone' = [zone EXCEPT
           !.agents = @ \cup DOMAIN binds,
           !.bound = [a \in Agents |-> IF a \in fresh THEN <<binds[a].principal>> ELSE @[a]]]
      /\ Drift(fresh)

BindRuntimeTopology(a, principal) ==
  /\ zone.ok /\ a \in zone.agents /\ Len(zone.bound[a]) < MaxBindings
  /\ zone.bound[a] # <<>> => Last(zone.bound[a]) # principal
  /\ zone' = [zone EXCEPT !.bound[a] = Append(@, principal)]
  /\ Drift({a})

ApproveGoalChange ==
  /\ zone.ok /\ zone.goal < MaxGoal
  /\ zone' = [zone EXCEPT !.goal = @ + 1]
  /\ Drift({"goal"})

\* Only the host of Team Core moves the manifest to the goal of the log.
Materialize ==
  /\ zone.ok /\ manifest' = zone.goal
  /\ UNCHANGED <<zone, setting, clock, server, confirmed, drifted, returnVars>>

Configure ==
  /\ setting' \in Settings
  /\ UNCHANGED <<zone, manifest, clock, server, confirmed, drifted, returnVars>>

\* The server ends, wherever it is, and another one opens the project.
Open ==
  /\ server' = Loaded
  /\ drifted' = OutOfStep
  /\ confirmed' = [k \in DOMAIN confirmed |-> [confirmed[k] EXCEPT !.ended = TRUE]]
  /\ UNCHANGED <<zoneVars, returnVars>>

Tick ==
  /\ clock < MaxTime /\ clock' = clock + 1
  /\ UNCHANGED <<zone, manifest, setting, server, confirmed, drifted, returnVars>>
-----------------------------------------------------------------------------
(* The return. *)
\* What a return exports of the changes a request holds, and the hash of it.
ApprovedChanges(changes, chosen) == changes \cap chosen
ReturnApprovalHash(base, changes, chosen) ==
  [base |-> base, entries |-> ApprovedChanges(changes, chosen)]

RequestApproval(person, base, changes, chosen) ==
  /\ zone.ok /\ Len(approvals) < MaxApprovals
  /\ ApprovedChanges(changes, chosen) # {}
  /\ approvals' = Append(approvals,
       [hash |-> ReturnApprovalHash(base, changes, chosen), requester |-> person,
        status |-> "requested", decider |-> person])
  /\ UNCHANGED <<zoneVars, server, confirmed, drifted, signed>>

\* A decision for another hash invalidates the approval.
DecideApproval(person, id, hash, decision) ==
  /\ zone.ok /\ approvals[id].status = "requested"
  /\ person \in Owners /\ person # approvals[id].requester
  /\ approvals' = [approvals EXCEPT
       ![id].status = IF hash = approvals[id].hash THEN decision ELSE "invalidated",
       ![id].decider = person]
  /\ UNCHANGED <<zoneVars, server, confirmed, drifted, signed>>

\* Mutant: an approval is enough, whatever it is for.
VerifyStatus(id, hash) == approvals[id].status = "approved"

\* The verifier reads the log without reducing it.
VerifyApproval(id, hash) == approvals[id].hash = hash /\ approvals[id].status = "approved"

\* An archive is signed if the provenance of every entry can be verified.
ExportBytes(base, entries, approval) ==
  /\ entries \subseteq Provable
  /\ signed' = signed \cup {[base |-> base, entries |-> entries, approval |-> approval]}
  /\ UNCHANGED <<zoneVars, server, confirmed, drifted, approvals>>

Export(base, entries) == ExportBytes(base, entries, 0)

BuildReturn(id, base, changes, chosen) ==
  /\ VerifyApproval(id, ReturnApprovalHash(base, changes, chosen))
  /\ ApprovedChanges(changes, chosen) # {}
  /\ ExportBytes(base, ApprovedChanges(changes, chosen), id)

ReturnNext ==
  \E base \in Bases, changes, chosen \in SUBSET Entries :
    \/ \E person \in People : RequestApproval(person, base, changes, chosen)
    \/ \E person \in People, id \in DOMAIN approvals, decision \in {"approved", "rejected"} :
         DecideApproval(person, id, ReturnApprovalHash(base, changes, chosen), decision)
    \/ Export(base, changes)
    \/ \E id \in DOMAIN approvals : BuildReturn(id, base, changes, chosen)

ImportNext ==
  \/ \E archive \in Archives : PreviewImport(archive)
  \/ \E person \in People, preview \in server.previews : ApplyImport(person, preview)
  \/ \E k \in DOMAIN confirmed : CommitImport(k) \/ EndImport(k)
  \/ BootstrapRuntimeTopology
  \/ \E a \in Agents, principal \in Principals : BindRuntimeTopology(a, principal)
  \/ ApproveGoalChange \/ Materialize \/ Configure \/ Open \/ Tick

TransferNext == ImportNext \/ ReturnNext

TransferSpec == TransferInit /\ [][TransferNext]_transferVars
-----------------------------------------------------------------------------
\* An import binds exactly what the preview showed that an owner confirmed, in its
\* order and as far as it got, for a capsule that had not expired then; and it makes
\* the zone's log irreducible only if the agent or the goal was not, or is no longer,
\* what the server loaded when it was opened, be it by an import it has done itself.
ImportAsConfirmed ==
  \A k \in DOMAIN confirmed :
    LET c == confirmed[k]
    IN  /\ c.at < c.preview.archive.expires
        /\ Len(c.written) <= Len(c.preview.binds)
        /\ \A j \in DOMAIN c.written :
             /\ c.written[j].bind = c.preview.binds[j]
             /\ c.written[j].fits \/ c.written[j].drifted

\* A return holds the entries, all of them and no other, and the capsule that a human
\* owner has approved, who is not the one that asked.
ReturnAsApproved ==
  \A s \in signed : s.approval # 0 =>
    LET approval == approvals[s.approval]
    IN  /\ approval.hash = [base |-> s.base, entries |-> s.entries]
        /\ approval.status = "approved"
        /\ approval.decider \in Owners \ {approval.requester}
=============================================================================
