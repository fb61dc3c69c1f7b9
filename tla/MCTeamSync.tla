----------------------------- MODULE MCTeamSync -----------------------------
(* Two devices on a project with one approved task, leased to dev. *)
EXTENDS TeamSync

CONSTANTS lead, dev, c1, c2, l1, t1, t2, p1, p2, d1, d2, s1, s2, w1, w2, w3

MCChanges == {c1, c2}
MCLeases == {l1}
MCTasks == {t1, t2}
MCActors == {lead, dev}
MCRoleOf == (lead :> "owner") @@ (dev :> "contributor")

TwoDevices == {d1, d2}
OneDevice == {d1}
OneEach == (s1 :> d1) @@ (s2 :> d2)
BothOnOne == (s1 :> d1) @@ (s2 :> d1)
MCActorOf == [d \in Devices |-> IF d = d1 THEN dev ELSE lead]

Step(type, on) ==
  [type |-> type, on |-> on, task |-> None, scope |-> {}, lease |-> None,
   subject |-> None, until |-> 0]

\* The lease that the seed gives dev on task t1.
Held(type) == [Step(type, t1) EXCEPT !.task = t1, !.scope = {p1}, !.lease = l1]

SeedEvent(i, step, actor) ==
  [NewEvent("seed", i, 0, IF i = 1 THEN 0 ELSE 1, actor, step) EXCEPT !.local = <<>>]

MCSeed ==
  <<SeedEvent(1, Step("project.initialized", None), lead),
    SeedEvent(2, Step("requirement.planned", t1), lead),
    SeedEvent(3, Step("requirement.approved", t1), lead),
    SeedEvent(4, [Step("lease.issued", l1) EXCEPT !.task = t1, !.scope = {p1},
                    !.subject = dev, !.until = 0], lead)>>

Item(name, steps) == [name |-> name, steps |-> steps]

(* The holder of the lease runs its task; a lead touches the same path. *)
RunAndTouch ==
  (d1 :> <<Item(w1, <<Held("run.started")>>), Item(w2, <<Held("run.finished")>>)>>)
  @@ (d2 :> <<Item(w3, <<[Step("goal.change.proposed", c1) EXCEPT !.scope = {p1}]>>)>>)

(* One batch on each device, on the same path. *)
OneBatchEach ==
  (d1 :> <<Item(w1, <<Held("run.started")>>)>>)
  @@ (d2 :> <<Item(w3, <<[Step("goal.change.proposed", c1) EXCEPT !.scope = {p1}]>>)>>)

(* One device that runs its task in two batches. *)
RunAlone ==
  d1 :> <<Item(w1, <<Held("run.started")>>), Item(w2, <<Held("run.finished")>>)>>
=============================================================================
