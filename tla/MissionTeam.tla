----------------------------- MODULE MissionTeam -----------------------------
(***************************************************************************)
(* The AgentTeams bridge and the resources of one mission in Kubernetes: a *)
(* start applies them one after the other, reads back the topology that    *)
(* the AgentTeams controller made of them and delegates; the session that  *)
(* follows stops the team when it is cancelled.  The bridges of several    *)
(* runs work on the same resources, whose names follow from the mission.   *)
(* What a session hears in its room is in Project.                         *)
(***************************************************************************)
EXTENDS Integers, Sequences, SequencesExt

CONSTANTS
  Bridges,      \* the processes
  Humans,       \* those that write to the room as the human of the team
  Runtimes,     \* <<manager, worker, ...>>: the resources that run and are stopped
  Identities,   \* what a resource says it belongs to: mission, hash, controller, environment
  IdentityOf,   \* per bridge, the one of the mission it starts
  MaxRemovals   \* bound on the resources that an operator removes

\* A resource that is there belongs to a mission.
ASSUME IdentityAssumption ==
  /\ Runtimes \in Seq(STRING) /\ Runtimes # <<>>
  /\ "nobody" \notin Identities \cup {IdentityOf[b] : b \in Bridges}

VARIABLES
  cluster,   \* the resources
  copies,    \* per bridge, the resources whose last version it holds
  bridge,    \* per bridge, how far it is
  spent,     \* the bridges whose token to log in is spent
  removals

teamVars == <<cluster, copies, bridge, spent, removals>>

NoResource == [of |-> "nobody", state |-> "", phase |-> "Pending"]
ApplyOrder == <<"human">> \o Runtimes \o <<"team">>
TopologyOrder == <<"team", Head(Runtimes), "human">> \o Tail(Runtimes)
Resources == ToSet(ApplyOrder)
Running == ToSet(Runtimes)

Fresh == [phase |-> "idle"]

Ready(r, identity) ==
  [of |-> identity, state |-> IF r \in Running THEN "Running" ELSE "", phase |-> "Ready"]

\* Nothing is there, or the name of the human is taken, or a session is under way.
MissionTeamInit ==
  /\ \/ /\ bridge = [b \in Bridges |-> Fresh] /\ spent = {}
        /\ \E i \in Identities \cup {"nobody"} : cluster =
             [r \in Resources |-> IF r = "human" THEN [NoResource EXCEPT !.of = i] ELSE NoResource]
     \/ \E b \in Bridges :
          /\ bridge = [other \in Bridges |-> IF other = b THEN [phase |-> "session"] ELSE Fresh]
          /\ spent = {b} \cap Humans
          /\ cluster = [r \in Resources |-> Ready(r, IdentityOf[b])]
  /\ copies = [b \in Bridges |-> {}]
  /\ removals = 0

Exists(r) == cluster[r].of # "nobody"

Proceed(b, next) == bridge' = [bridge EXCEPT ![b] = next]
Is(b, phase) == bridge[b].phase = phase

\* Whoever writes a resource gives it a version that no reader holds.
Write(r, resource) ==
  /\ cluster' = [cluster EXCEPT ![r] = resource]
  /\ copies' = [b \in Bridges |-> copies[b] \ {r}]
Read(b, rs) == copies' = [copies EXCEPT ![b] = @ \cup rs]
Forget(b) == copies' = [copies EXCEPT ![b] = {}]
-----------------------------------------------------------------------------
(* A start: every resource is applied, the topology read, and the run delegated. *)
Start(b) ==
  /\ Is(b, "idle")
  /\ Proceed(b, [phase |-> "applying", at |-> 1, read |-> <<>>])
  /\ UNCHANGED <<cluster, copies, spent, removals>>

GetToApply(b) ==
  LET r == ApplyOrder[bridge[b].at] IN
  /\ Is(b, "applying") /\ bridge[b].read = <<>>
  /\ cluster[r].of \in {"nobody", IdentityOf[b]}
  /\ bridge' = [bridge EXCEPT ![b].read = <<cluster[r]>>]
  /\ Read(b, {r})
  /\ UNCHANGED <<cluster, spent, removals>>

\* Mutant: the version is read again before the update.
RefreshedConflicts(b, r) == ~Exists(r)

\* An update names the version that was read, and is refused if it is not the last one.
UpdateConflicts(b, r) == ~Exists(r) \/ r \notin copies[b]

\* What the controller observed of a resource is kept.
Desired(b, r, read) ==
  [Ready(r, IdentityOf[b]) EXCEPT !.phase = read.phase]

Apply(b) ==
  LET r == ApplyOrder[bridge[b].at]
      read == Head(bridge[b].read)
  IN /\ Is(b, "applying") /\ bridge[b].read # <<>>
     /\ IF read.of = "nobody" THEN ~Exists(r) ELSE ~UpdateConflicts(b, r)
     /\ Write(r, Desired(b, r, read))
     /\ Proceed(b, IF bridge[b].at < Len(ApplyOrder)
                   THEN [phase |-> "applying", at |-> bridge[b].at + 1, read |-> <<>>]
                   ELSE [phase |-> "observing", at |-> 1, of |-> "nobody", ready |-> TRUE])
     /\ UNCHANGED <<spent, removals>>

\* The team is read first; every other resource must be of its mission.
GetTopology(b) ==
  LET r == TopologyOrder[bridge[b].at]
      ready == bridge[b].ready /\ cluster[r].phase = "Ready"
  IN /\ Is(b, "observing") /\ Exists(r)
     /\ bridge[b].at = 1 \/ cluster[r].of = bridge[b].of
     /\ \/ /\ bridge[b].at < Len(TopologyOrder)
           /\ Proceed(b, [phase |-> "observing", at |-> bridge[b].at + 1, of |-> cluster[r].of,
                          ready |-> ready])
        \/ /\ bridge[b].at = Len(TopologyOrder) /\ ready
           /\ Proceed(b, [phase |-> "observed"])
     /\ UNCHANGED <<cluster, copies, spent, removals>>

\* The token that makes a bridge the human is spent by the first attempt to log in.
BindHuman(b) ==
  /\ Is(b, "observed")
  /\ b \in Humans => b \notin spent /\ cluster["human"].phase = "Ready"
  /\ \E next \in {"bound", "idle"} : Proceed(b, [phase |-> next])
  /\ spent' = spent \cup ({b} \cap Humans)
  /\ UNCHANGED <<cluster, copies, removals>>

\* The bindings are recorded, the mission is sent to the room, and the trace written.
Delegate(b) ==
  /\ Is(b, "bound")
  /\ Proceed(b, [phase |-> "session"])
  /\ UNCHANGED <<cluster, copies, spent, removals>>

\* Whatever is refused, missing, not ready or out of reach ends the start or the stop.
Refused(b) ==
  /\ bridge[b].phase \notin {"idle", "session"}
  /\ Proceed(b, [phase |-> "idle"])
  /\ Forget(b)
  /\ UNCHANGED <<cluster, spent, removals>>

Crash(b) ==
  /\ bridge[b] # Fresh \/ b \in spent
  /\ Proceed(b, Fresh)
  /\ spent' = spent \ {b}
  /\ Forget(b)
  /\ UNCHANGED <<cluster, removals>>
-----------------------------------------------------------------------------
(* A cancelled session stops the manager and the workers. *)
Cancel(b) ==
  /\ Is(b, "session")
  /\ Proceed(b, [phase |-> "listing"])
  /\ UNCHANGED <<cluster, copies, spent, removals>>

\* The managers are listed before the workers: nothing is written unless all are there and of
\* one mission.
ListManagers(b) ==
  LET r == Head(Runtimes) IN
  /\ Is(b, "listing") /\ Exists(r)
  /\ Proceed(b, [phase |-> "listed", of |-> cluster[r].of])
  /\ Read(b, {r})
  /\ UNCHANGED <<cluster, spent, removals>>

ListWorkers(b) ==
  LET workers == ToSet(Tail(Runtimes)) IN
  /\ Is(b, "listed") /\ \A r \in workers : cluster[r].of = bridge[b].of
  /\ Proceed(b, [phase |-> "stopping", at |-> 1])
  /\ Read(b, workers)
  /\ UNCHANGED <<cluster, spent, removals>>

StopObject(b) ==
  LET r == Runtimes[bridge[b].at] IN
  /\ Is(b, "stopping") /\ ~UpdateConflicts(b, r)
  /\ Write(r, [cluster[r] EXCEPT !.state = "Stopped"])
  /\ Proceed(b, IF bridge[b].at < Len(Runtimes)
                THEN [phase |-> "stopping", at |-> bridge[b].at + 1]
                ELSE [phase |-> "waiting", at |-> 1, all |-> TRUE])
  /\ UNCHANGED <<spent, removals>>

ObservedStopped(r) == ~Exists(r) \/ "Stopped" \in {cluster[r].state, cluster[r].phase}

\* One pass over the resources after the other, until one finds them all stopped.
WaitForStopped(b) ==
  LET all == bridge[b].all /\ ObservedStopped(Runtimes[bridge[b].at])
      last == bridge[b].at = Len(Runtimes)
  IN /\ Is(b, "waiting")
     /\ Proceed(b, IF last /\ all THEN [phase |-> "idle"]
                   ELSE [phase |-> "waiting", at |-> IF last THEN 1 ELSE bridge[b].at + 1,
                         all |-> last \/ all])
     /\ UNCHANGED <<cluster, copies, spent, removals>>
-----------------------------------------------------------------------------
(* The controller brings a resource to its state, and an operator may remove one. *)
Reconcile(r) ==
  LET phase == IF cluster[r].state = "Stopped" THEN "Stopped" ELSE "Ready" IN
  /\ Exists(r) /\ cluster[r].phase # phase
  /\ Write(r, [cluster[r] EXCEPT !.phase = phase])
  /\ UNCHANGED <<bridge, spent, removals>>

RemoveResource(r) ==
  /\ Exists(r) /\ removals < MaxRemovals
  /\ Write(r, NoResource)
  /\ removals' = removals + 1
  /\ UNCHANGED <<bridge, spent>>

MissionTeamNext ==
  \/ \E r \in Resources : Reconcile(r) \/ RemoveResource(r)
  \/ \E b \in Bridges :
       \/ Start(b) \/ GetToApply(b) \/ Apply(b) \/ GetTopology(b) \/ BindHuman(b) \/ Delegate(b)
       \/ Refused(b) \/ Crash(b)
       \/ Cancel(b) \/ ListManagers(b) \/ ListWorkers(b) \/ StopObject(b) \/ WaitForStopped(b)

MissionTeamSpec == MissionTeamInit /\ [][MissionTeamNext]_teamVars
-----------------------------------------------------------------------------
\* A resource that was stopped runs again only by a start that had read that it was stopped:
\* a start that goes on while another session stops the team does not bring parts of it back
\* (the resourceVersion of apply and stopObject).
StopNotOverwritten ==
  [][\A r \in Running :
       cluster[r].state = "Stopped" /\ cluster'[r].state = "Running"
         => \E b \in Bridges : /\ Is(b, "applying") /\ ApplyOrder[bridge[b].at] = r
                               /\ ToSet(bridge[b].read) = {cluster[r]}]_teamVars
=============================================================================
