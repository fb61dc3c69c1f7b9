--------------------------- MODULE MCTeamCommands ---------------------------
(* Small teams for TeamCommands. *)
EXTENDS TeamCommands

CONSTANTS owner, lead, dev, c1, c2, c3, l1, l2, t1, t2, p1, p2, r1, r2, r3, r4

MCChanges == {c1, c2, c3}
MCLeases == {l1, l2}
MCTasks == {t1, t2}
MCActors == {owner, lead, dev}
MCResolvers == {owner}
MCRoleOf == (owner :> "owner") @@ (lead :> "lead") @@ (dev :> "contributor")

Step(type, on) ==
  [type |-> type, on |-> on, task |-> None, scope |-> {}, lease |-> None,
   subject |-> None, until |-> 0]

\* The lease that the seed gives dev on task t1.
Held(type) == [Step(type, t1) EXCEPT !.task = t1, !.scope = {p1}, !.lease = l1]

SeedEvent(i, step, actor) ==
  [id |-> <<"seed", i>>, batch |-> <<"seed", 0>>, base |-> 0,
   goal |-> IF i = 1 THEN 0 ELSE 1, type |-> step.type, on |-> step.on,
   task |-> step.task, scope |-> step.scope, lease |-> step.lease,
   actor |-> actor, subject |-> step.subject, until |-> step.until,
   code |-> "", local |-> <<>>]

\* c1 is proposed, and dev holds the lease l1 on the approved task t1.
LeasedSeed ==
  <<SeedEvent(1, Step("project.initialized", None), owner),
    SeedEvent(2, Step("goal.change.proposed", c1), lead),
    SeedEvent(3, Step("requirement.planned", t1), lead),
    SeedEvent(4, Step("requirement.approved", t1), owner),
    SeedEvent(5, [Step("lease.issued", l1) EXCEPT !.task = t1, !.scope = {p1},
                    !.subject = dev, !.until = 0], lead)>>

\* c1 is proposed, and lead holds the lease l2 on the completed task t2.
CompletedSeed ==
  <<SeedEvent(1, Step("project.initialized", None), owner),
    SeedEvent(2, Step("goal.change.proposed", c1), lead),
    SeedEvent(3, Step("requirement.planned", t2), lead),
    SeedEvent(4, Step("requirement.approved", t2), owner),
    SeedEvent(5, [Step("lease.issued", l2) EXCEPT !.task = t2, !.scope = {p2},
                    !.subject = lead, !.until = 0], owner),
    SeedEvent(6, Step("run.started", t2), lead),
    SeedEvent(7, Step("run.finished", t2), lead),
    SeedEvent(8, Step("evidence.verified", t2), owner),
    SeedEvent(9, Step("task.completed", t2), owner)>>

Command(name, actor, step) ==
  [name |-> name, actor |-> actor, device |-> FALSE, steps |-> <<step>>]

Work(name, actor, steps) ==
  [name |-> name, actor |-> actor, device |-> TRUE, steps |-> steps]

\* A renewal of the lease by its holder.
Renewal == [Step("lease.renewed", l1) EXCEPT !.lease = l1, !.until = 1]

(* Work under a lease while the lease and the goal move under it. *)
LeasedRequests ==
  {Work(r1, dev, <<Held("run.started"), Held("run.finished")>>),
   Command(r2, owner, Step("goal.change.approved", c1)),
   Command(r3, dev, Renewal),
   Work(r4, lead, <<Step("lease.revoked", l1)>>)}

(* Decisions no scope, lease or goal stands for, beside work under a lease on a    *)
(* completed task, and the batch that opens the task and renews the lease again.    *)
UnscopedRequests ==
  {Command(r1, owner, Step("goal.change.rejected", c1)),
   Command(r2, owner, Step("goal.change.approved", c1)),
   Work(r3, lead, <<[Step("goal.change.proposed", c2) EXCEPT
                       !.task = t2, !.scope = {p2}, !.lease = l2]>>),
   Work(r4, lead, <<Step("evidence.invalidated", t2),
                    [Step("lease.renewed", l2) EXCEPT !.until = 1]>>)}

(* The same decision taken twice at once. *)
RacingRequests ==
  {Command(r1, owner, Step("goal.change.rejected", c1)),
   Command(r2, owner, Step("goal.change.rejected", c1)),
   Work(r3, lead, <<Step("requirement.planned", t2)>>)}
=============================================================================
