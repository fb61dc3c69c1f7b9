------------------------------ MODULE TeamCore ------------------------------
(***************************************************************************)
(* The Team Core service (internal/team): one accepted event log, which    *)
(* Push and ResolveConflict extend under the mutation lock, and the facts  *)
(* materialized from it (the canonical log and the manifest's goal         *)
(* version).  The operators of this module are the service's calls, for    *)
(* the modules that put clients around it: TeamCommands the API callers,   *)
(* TeamSync the devices.                                                   *)
(*                                                                         *)
(* The accepted log is replaced by a rename, so an append happens whole or *)
(* not at all; the materialization that follows may stop anywhere.         *)
(***************************************************************************)
EXTENDS Governance

CONSTANTS Seed,       \* the canonical history Team Core is set up on
          MaxFaults,  \* bound: crashes and failed materializations
          MaxNow      \* bound: the clock

VARIABLES accepted,   \* team/events.jsonl
          canonical,  \* events.jsonl, materialized from accepted
          manifest,   \* the goal version in the manifest
          mode,       \* "writable", "readonly" (a failed service) or "down"
          now,        \* the service's clock
          faults      \* faults so far

core == <<accepted, canonical, manifest, mode, now, faults>>

Modes == {"writable", "readonly", "down"}

\* A sequence, of whatever it holds.
IsSequence(s) == s \in Seq(Range(s))

\* The capsule exists before Team Core does: the seed initializes the project.
ASSUME SeedAssumption ==
  /\ IsSequence(Seed) /\ Seed # <<>> /\ Reducible(Seed)
  /\ MaxFaults \in Nat /\ MaxNow \in Nat

CoreInit ==
  /\ accepted = <<>>
  /\ canonical = Seed
  /\ manifest = Reduce(Seed).goal
  /\ mode = "down"
  /\ now = 0
  /\ faults = 0
-----------------------------------------------------------------------------
(***************************************************************************)
(* A batch is [id, base, events]: its events carry the same batch and base.*)
(* Since(n) is what was accepted after the first n events.                 *)
(***************************************************************************)
Since(n) == SubSeq(accepted, n + 1, Len(accepted))

Scopes(events) == UNION {events[i].scope : i \in DOMAIN events}

ServiceId == <<"svc", Len(accepted) + 1>>

\* Event i of the batch called name, as a caller builds it from a step.
NewEvent(name, i, base, goal, actor, step) ==
  [id |-> <<name, i>>, batch |-> <<name, 0>>, base |-> base, goal |-> goal,
   type |-> step.type, on |-> step.on, task |-> step.task,
   scope |-> step.scope, lease |-> step.lease, actor |-> actor,
   subject |-> step.subject, until |-> step.until, code |-> "",
   local |-> <<>>]

HoldsLeaseOnce(s, e) ==   \* a lease that ended counts
  /\ s.lease[e.lease].subject = e.actor
  /\ InWindow(s.lease[e.lease], now)

HoldsLease(s, e) ==
  /\ s.lease[e.lease].status = "active"
  /\ s.lease[e.lease].subject = e.actor
  /\ InWindow(s.lease[e.lease], now)

\* The baseline of what is built on the accepted log as it is.
BaselinePastHead == Len(accepted) + 1   \* counts the event to come

Baseline == Len(accepted)

\* The kind of conflict a batch, valid at its base, has with what is accepted.
DetectConflict(s, b) ==
  LET candidates == ToSet(b.events)
  IN IF \E e \in candidates : e.goal # s.goal THEN "stale_goal"
     ELSE IF \E e \in candidates : e.lease # None /\ ~HoldsLease(s, e)
          THEN "lease_reassigned"
     ELSE IF \E e \in candidates :
               e.task # None /\ s.task[e.task].status = "Completed"
          THEN "terminal_state"
     ELSE IF Scopes(b.events) \cap Scopes(Since(b.base)) # {}
          THEN "scope_overlap"
     ELSE "none"

PreviewUnreduced(acc, e) ==   \* the policy alone, without the reducer
  IF acc.code # "valid" THEN acc
  ELSE IF ~Authorize(acc.state, e, now) THEN [acc EXCEPT !.code = "unauthorized"]
  ELSE [acc EXCEPT !.state = Apply(@, e)]

\* One event of the batch, previewed on the state its predecessors leave.
Preview(acc, e) ==
  IF acc.code # "valid" THEN acc
  ELSE IF ~Authorize(acc.state, e, now) THEN [acc EXCEPT !.code = "unauthorized"]
  ELSE IF e.goal # acc.state.goal THEN [acc EXCEPT !.code = "invalid_goal"]
  ELSE IF ~Admits(acc.state, e) THEN [acc EXCEPT !.code = "invalid_transition"]
  ELSE [acc EXCEPT !.state = Apply(@, e)]

PreviewCode(s, events) ==
  Fold(Preview, [state |-> s, code |-> "valid"], events).code

StoredNowhere(b) == {}   \* a retry is not recognized

\* Where the batch is stored: by its batch id or else by its event ids.
StoredAt(b) ==
  LET byBatch == {i \in DOMAIN accepted : accepted[i].batch = b.id}
      byEvent == {i \in DOMAIN accepted :
                    \E e \in ToSet(b.events) : accepted[i].id = e.id}
  IN IF byBatch # {} THEN byBatch ELSE byEvent

ConflictWithoutScope(s, b, code) ==   \* the affected scope is dropped
  [id |-> ServiceId, batch |-> ServiceId, base |-> Baseline,
   goal |-> s.goal, type |-> "conflict.opened", on |-> b.id, task |-> None,
   scope |-> {}, lease |-> None, actor |-> b.events[1].actor,
   subject |-> None, until |-> 0, code |-> code, local |-> b.events]

ConflictOpened(s, b, code) ==
  [id |-> ServiceId, batch |-> ServiceId, base |-> Baseline,
   goal |-> s.goal, type |-> "conflict.opened", on |-> b.id, task |-> None,
   scope |-> Scopes(b.events), lease |-> None, actor |-> b.events[1].actor,
   subject |-> None, until |-> 0, code |-> code, local |-> b.events]

(***************************************************************************)
(* What a call answers: its status and code, the range of the accepted log *)
(* it returns, and the events it appends first.                            *)
(***************************************************************************)
Answer(status, code) ==
  [status |-> status, code |-> code, from |-> 0, to |-> 0, append |-> <<>>]

Appended(events) ==
  [status |-> "accepted", code |-> "", from |-> Len(accepted) + 1,
   to |-> Len(accepted) + Len(events), append |-> events]

StoredFirstOnly(at) ==   \* the range ends with the first event
  [Answer("accepted", "") EXCEPT !.from = Min(at), !.to = Min(at)]

Stored(at) ==
  [Answer("accepted", "") EXCEPT !.from = Min(at), !.to = Max(at)]

OpenConflictMissed(s, b) == FALSE   \* a retry opens another conflict

HasOpenConflict(s, b) == \E c \in s.conflicts : c.batch = b.id /\ c.open

Judge(s, b) ==
  LET code == PreviewCode(Reduce(SubSeq(accepted, 1, b.base)), b.events)
      kind == DetectConflict(s, b)
  IN IF code # "valid" THEN Answer("rejected", code)
     ELSE IF HasOpenConflict(s, b) THEN Answer("conflict", "open")
     ELSE IF kind # "none"
          THEN [Answer("conflict", kind) EXCEPT
                  !.append = <<ConflictOpened(s, b, kind)>>]
     ELSE Appended(b.events)

VerdictIn(s, b) ==
  LET at == StoredAt(b)
  IN IF mode # "writable" \/ ~s.ok THEN Answer("error", "")
     ELSE IF at # {}
          THEN IF {accepted[i] : i \in at} = ToSet(b.events)
               THEN Stored(at) ELSE Answer("rejected", "divergent")
     ELSE IF b.base > Len(accepted) THEN Answer("rejected", "invalid_baseline")
     ELSE Judge(s, b)

\* (The choice, from one verdict, makes TLC reduce the log only once.)
Verdict(b) == CHOOSE v \in {VerdictIn(s, b) : s \in {Reduce(accepted)}} : TRUE
-----------------------------------------------------------------------------
(***************************************************************************)
(* ResolveConflict.  A manual merge submits the retained candidate again,  *)
(* in the resolver's name, at the head of the log.                         *)
(***************************************************************************)
Actions == {"accept_team", "withdraw_local", "keep_as_proposal", "manual_merge"}

Resolution(s, c, actor, action, n) ==
  [id |-> <<"svc", Len(accepted) + n + 1>>, batch |-> ServiceId,
   base |-> Len(accepted) + n, goal |-> s.goal, type |-> "conflict.resolved",
   on |-> c.id, task |-> None, scope |-> c.scope, lease |-> None,
   actor |-> actor, subject |-> None, until |-> 0, code |-> action,
   local |-> <<>>]

Reissued(s, e, actor, n) ==
  [e EXCEPT !.id = <<"svc", Len(accepted) + n>>, !.batch = ServiceId,
            !.base = Baseline, !.goal = s.goal, !.actor = actor]

Merged(s, c, actor) ==
  [i \in DOMAIN c.local |-> Reissued(s, c.local[i], actor, i)]

Proposes(c, i) == c.local[i].type = "goal.change.proposed"

Proposal(s, c, actor, i, new) ==
  [Reissued(s, c.local[i], actor, 1) EXCEPT
     !.on = new, !.scope = c.scope, !.task = None, !.lease = None]

\* The first goal change the batch proposed, under a new id.
Proposals(s, c, actor) ==
  {<<Proposal(s, c, actor, i, new)>> :
     i \in {k \in DOMAIN c.local : Proposes(c, k) /\ \A j \in 1..k - 1 : ~Proposes(c, j)},
     new \in {g \in Changes : s.change[g].status = "none"}}

\* The candidate events each action puts before its resolution event.
Preludes(s, c, actor, action) ==
  CASE action = "manual_merge"     ->
         {events \in {Merged(s, c, actor)} : PreviewCode(s, events) = "valid"}
    [] action = "keep_as_proposal" -> Proposals(s, c, actor)
    [] OTHER                       -> {<<>>}

\* The event sequences that resolving conflict c may append.
Resolutions(c, actor, action) ==
  LET s == Reduce(accepted)
      Resolve(prelude) ==
        Append(prelude, Resolution(Replay(s, prelude), c, actor,
                                   action, Len(prelude)))
  IN {events \in {Resolve(p) : p \in Preludes(s, c, actor, action)} :
        Reducible(accepted \o events)}
-----------------------------------------------------------------------------
(***************************************************************************)
(* Materialization of accepted': the canonical log, then the manifest.  It *)
(* can stop at any point, by an I/O error or with the process; a log that  *)
(* does not reduce stops it for good after the import.                     *)
(***************************************************************************)
CanMaterialize ==
  /\ IsPrefix(canonical, accepted')
  /\ Reducible(accepted')
  /\ manifest <= Reduce(accepted').goal

Materialize ==
  /\ CanMaterialize
  /\ canonical' = accepted'
  /\ manifest' = Reduce(accepted').goal
  /\ mode' = "writable"
  /\ UNCHANGED faults

StopMaterializing(stop) ==
  /\ stop \in {"readonly", "down"}
  /\ faults < MaxFaults /\ faults' = faults + 1
  /\ CanMaterialize
  /\ \/ UNCHANGED <<canonical, manifest>>
     \/ /\ canonical' = accepted'
        /\ manifest' \in manifest .. Reduce(accepted').goal
  /\ mode' = stop

CannotMaterialize(stop) ==
  /\ ~CanMaterialize
  /\ canonical' = IF IsPrefix(canonical, accepted') THEN accepted' ELSE canonical
  /\ mode' = stop
  /\ UNCHANGED <<manifest, faults>>

\* The log is not read again after the append, so nothing is materialized: the
\* call fails, and the service stays writable with its facts behind the log.
LeaveUnread ==
  /\ faults < MaxFaults /\ faults' = faults + 1
  /\ UNCHANGED <<canonical, manifest, mode>>

CommitFactsFirst(events) ==   \* a crash before the append leaves the facts ahead
  /\ canonical' = accepted \o events
  /\ manifest' = Reduce(canonical').goal
  /\ \/ accepted' = canonical' /\ UNCHANGED <<mode, faults>>
     \/ /\ faults < MaxFaults /\ faults' = faults + 1
        /\ mode' = "down" /\ UNCHANGED accepted
  /\ UNCHANGED now

\* Append, then read the log again and materialize it.
Commit(events) ==
  /\ accepted' = accepted \o events
  /\ \/ Materialize
     \/ LeaveUnread
     \/ StopMaterializing("readonly")
     \/ StopMaterializing("down")
     \/ CannotMaterialize("readonly")
  /\ UNCHANGED now

RepliedUnread == mode' # "down"   \* the failed read is passed over

\* Does the call reply?  It does when its process is still there and the log
\* was read; a materialization that failed is part of the reply.
Replied == mode' = "readonly" \/ (mode' = "writable" /\ UNCHANGED faults)

\* Only a call that stored its batch, or found it stored, materializes.
Perform(answer) ==
  IF answer.append # <<>> \/ answer.status = "accepted"
  THEN Commit(answer.append)
  ELSE UNCHANGED core

(***************************************************************************)
(* team.New and then Recover, when the process is started again.  A failed *)
(* repair ends the process.                                                *)
(***************************************************************************)
Facts == IF accepted = <<>> THEN canonical ELSE accepted

Restart ==
  /\ mode \in {"readonly", "down"}
  /\ IsPrefix(canonical, Facts)
  /\ accepted' = Facts
  /\ Materialize \/ StopMaterializing("down") \/ CannotMaterialize("down")
  /\ UNCHANGED now

Crash ==
  /\ mode # "down" /\ faults < MaxFaults
  /\ mode' = "down" /\ faults' = faults + 1
  /\ UNCHANGED <<accepted, canonical, manifest, now>>

Tick ==
  /\ now < MaxNow /\ now' = now + 1
  /\ UNCHANGED <<accepted, canonical, manifest, mode, faults>>
=============================================================================
