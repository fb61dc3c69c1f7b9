----------------------------- MODULE MCProject -----------------------------
(* Two processes on one project, in one of the situations below. *)
EXTENDS Project

CONSTANTS own, led, bot, t1, t2, c1, c2, e1, e2, s1, s2, f1, v0, v1, g1, g2, g3,
          a1, a2, l1, m1, n1, r1, r2, p1, p2, x, y

MCRoleOf == (own :> "owner") @@ (led :> "lead")
MCTeam == ("manager" :> g1) @@ ("build" :> g2) @@ ("verify" :> g3)

Draft(risk, scope) ==
  [id |-> m1, task |-> t1, context |-> c1, scope |-> scope, assign |-> MCTeam,
   risk |-> risk, env |-> n1]

MCDrafts == {Draft("L3", {x}), Draft("L3", {x, y})}

Seats(principal) ==
  (g1 :> [function |-> "manager", env |-> n1, principal |-> principal]) @@
  (g2 :> [function |-> "build", env |-> n1, principal |-> r1])

\* A topology, with its manager moved, of its manager only, and another function.
MCTopologies ==
  {Seats(r1), Seats(r2), g1 :> Seats(r1)[g1],
   g2 :> [Seats(r1)[g2] EXCEPT !.function = "verify"]}

Planned ==
  <<[type |-> "requirement.planned", task |-> t1],
    [type |-> "requirement.approved", task |-> t1],
    [type |-> "context.issued", task |-> t1, context |-> c1, goal |-> 1]>>

Started ==
  <<[type |-> "run.started", task |-> t1, context |-> c1, actor |-> led]>>

Finished == <<[type |-> "run.finished", task |-> t1]>>

Staffed ==
  [i \in 1..3 |-> [type |-> "agent.identity.registered",
                   agent |-> <<g1, g2, g3>>[i],
                   function |-> <<"manager", "build", "verify">>[i]]]

Leased ==
  <<[type |-> "lease.issued", lease |-> l1, subject |-> g2, task |-> t1,
     context |-> c1, env |-> n1, scope |-> {x, y}]>>

Delegated ==
  Staffed \o Leased \o
  <<[type |-> "agent.runtime.bound", agent |-> g1, env |-> n1, principal |-> r1,
     revision |-> 1, actor |-> own],
    [type |-> "mission.issued", actor |-> own,
     envelope |-> [id |-> m1, task |-> t1, context |-> c1, lease |-> l1, goal |-> 1,
                   scope |-> {x}, assign |-> MCTeam, risk |-> "L1", env |-> n1]]>>

From(history) == ReducedBatch(Initialized, history)

Limits(operations, actors, events) ==
  [operations |-> operations, actors |-> actors, events |-> events]

Situations ==
  {<<<<>>, Limits({"plan", "approve", "context", "run", "finish"}, {own}, 5)>>,
   <<Planned \o Started \o Finished,
     Limits({"candidate", "evidence", "complete", "goal", "edit"}, {own}, 5)>>,
   <<Planned \o Started \o Finished,
     Limits({"verify", "complete", "scan", "attribute", "edit"}, {own}, 4)>>,
   <<Planned \o Delegated \o Started,
     Limits({"execute", "resume", "finish", "restart"}, {own}, 6)>>,
   <<Planned \o Delegated \o Started,
     Limits({"execute", "goal"}, {own}, 3)>>,
   <<Planned \o Delegated \o Started, Limits({"steps", "checkpoint"}, {own}, 3)>>,
   <<Planned \o Staffed \o Leased,
     Limits({"lease", "request", "decide", "mission", "goal"}, {own, led}, 4)>>,
   <<Planned, Limits({"bootstrap", "bind"}, {own, led}, 8)>>}

Init == \E s \in Situations : ProjectInit(From(s[1]), s[2])

Spec == Init /\ [][Next]_vars
=============================================================================
