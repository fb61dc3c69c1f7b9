---------------------------- MODULE BridgeProofs ----------------------------
(***************************************************************************)
(* The bridges.  For any number of bridges, resources, missions and        *)
(* removals, a start does not undo a stop that it has not seen.  For any   *)
(* number of requests, missions and runs of the Core Bridge, a mission     *)
(* that is served is founded in the log, and evidence stays what it was.   *)
(***************************************************************************)
EXTENDS MissionTeam, CoreBridge, FiniteSetTheorems, SequenceTheorems, WellFoundedInduction, TLAPS

(***************************************************************************)
(* What a bridge has read of a resource is what the resource is, as long   *)
(* as nobody has written it since; and what is not there is not stopped.   *)
(***************************************************************************)
Owners == {"nobody"} \cup Identities \cup {IdentityOf[b] : b \in Bridges}
ResourceType ==
  [of : Owners, state : {"", "Running", "Stopped"}, phase : {"Pending", "Ready", "Stopped"}]

ResourcesOK ==
  /\ cluster \in [Resources -> ResourceType]
  /\ \A r \in Resources : ~Exists(r) => cluster[r].state # "Stopped"

ApplyingType ==
  [phase : {"applying"}, at : DOMAIN ApplyOrder, read : {<<>>} \cup {<<x>> : x \in ResourceType}]

StoppingType == [phase : {"stopping"}, at : DOMAIN Runtimes]

\* How far a bridge is: at a resource that there is.
PhaseOK(x) ==
  /\ x.phase = "applying" => x \in ApplyingType
  /\ x.phase = "stopping" => x \in StoppingType

\* A bridge that has read nothing yet.
Begun(x) == PhaseOK(x) /\ (x.phase = "applying" => x.read = <<>>)

ReadIsCurrent(b) ==
  LET r == ApplyOrder[bridge[b].at]
  IN bridge[b].read # <<>> /\ r \in copies[b] => bridge[b].read = <<cluster[r]>>

BridgesOK ==
  /\ DOMAIN bridge = Bridges /\ DOMAIN copies = Bridges
  /\ \A b \in Bridges : PhaseOK(bridge[b]) /\ (Is(b, "applying") => ReadIsCurrent(b))

TeamInv == ResourcesOK /\ BridgesOK
-----------------------------------------------------------------------------
LEMMA ApplyOrderIsSequence ==
  /\ DOMAIN ApplyOrder = 1..Len(ApplyOrder)
  /\ Len(ApplyOrder) \in Nat /\ Len(ApplyOrder) > 1
  /\ \A i \in DOMAIN ApplyOrder : ApplyOrder[i] \in Resources
  /\ Running \subseteq Resources
<1>. DEFINE S == {"human", "team"} \cup Running
<1>1. /\ Runtimes \in Seq(S) /\ <<"human">> \in Seq(S) /\ <<"team">> \in Seq(S)
      /\ Len(<<"human">>) = 1 /\ Len(<<"team">>) = 1
  <2>1. Len(Runtimes) \in Nat /\ Runtimes \in [1..Len(Runtimes) -> STRING]
    BY IdentityAssumption, LenProperties
  <2>2. Runtimes \in [1..Len(Runtimes) -> S]
    BY <2>1 DEF Running, ToSet
  <2>3. QED
    BY <2>1, <2>2
<1>. HIDE DEF S
<1>. DEFINE front == <<"human">> \o Runtimes
<1>2. /\ front \in Seq(S) /\ Len(front) = 1 + Len(Runtimes) /\ Len(Runtimes) \in Nat
      /\ \A i \in 1..Len(Runtimes) : front[i + 1] = Runtimes[i]
  BY <1>1, ConcatProperties, LenProperties
<1>. HIDE DEF front
<1>3. /\ ApplyOrder \in Seq(S) /\ Len(ApplyOrder) = Len(front) + 1
      /\ \A i \in 1..Len(front) : ApplyOrder[i] = front[i]
  BY <1>1, <1>2, ConcatProperties, LenProperties DEF ApplyOrder, front
<1>4. DOMAIN ApplyOrder = 1..Len(ApplyOrder) /\ DOMAIN Runtimes = 1..Len(Runtimes)
  BY <1>1, <1>3, LenProperties
<1>5. ASSUME NEW i \in DOMAIN Runtimes PROVE Runtimes[i] \in Resources
  <2>1. i + 1 \in 1..Len(front) /\ i + 1 \in DOMAIN ApplyOrder /\ ApplyOrder[i + 1] = Runtimes[i]
    BY <1>2, <1>3, <1>4, <1>5
  <2>2. QED
    BY <2>1 DEF Resources, ToSet
<1>6. QED
  BY <1>2, <1>3, <1>4, <1>5 DEF Resources, Running, ToSet

LEMMA ReadyType ==
  ASSUME NEW r, NEW i \in Owners
  PROVE  Ready(r, i) \in ResourceType /\ Ready(r, i).of = i /\ Ready(r, i).state # "Stopped"
  BY DEF Ready, ResourceType

LEMMA TeamInitially == MissionTeamInit => TeamInv
<1>. SUFFICES ASSUME MissionTeamInit PROVE TeamInv
  OBVIOUS
<1>1. BridgesOK
  BY DEF MissionTeamInit, BridgesOK, Fresh, Is, PhaseOK
<1>2. ResourcesOK
  <2>1. NoResource \in ResourceType /\ NoResource.state = "" /\ NoResource.of = "nobody"
    BY DEF NoResource, ResourceType, Owners
  <2>2. CASE \E i \in Identities \cup {"nobody"} : cluster =
             [r \in Resources |-> IF r = "human" THEN [NoResource EXCEPT !.of = i] ELSE NoResource]
    <3>1. PICK i \in Identities \cup {"nobody"} : cluster =
             [r \in Resources |-> IF r = "human" THEN [NoResource EXCEPT !.of = i] ELSE NoResource]
      BY <2>2
    <3>2. /\ [NoResource EXCEPT !.of = i] \in ResourceType
          /\ [NoResource EXCEPT !.of = i].state # "Stopped"
      BY DEF NoResource, ResourceType, Owners
    <3>3. QED
      BY <2>1, <3>1, <3>2 DEF ResourcesOK
  <2>3. CASE \E b \in Bridges : cluster = [r \in Resources |-> Ready(r, IdentityOf[b])]
    <3>1. PICK b \in Bridges : cluster = [r \in Resources |-> Ready(r, IdentityOf[b])]
      BY <2>3
    <3>2. IdentityOf[b] \in Owners
      BY DEF Owners
    <3>3. QED
      BY <3>1, <3>2, ReadyType DEF ResourcesOK
  <2>4. QED
    BY <2>2, <2>3 DEF MissionTeamInit
<1>3. QED
  BY <1>1, <1>2 DEF TeamInv

\* A resource is written: nobody holds its last version, and what was read of others stays.
LEMMA WriteKeeps ==
  ASSUME TeamInv, NEW r \in Resources, NEW x \in ResourceType, Write(r, x),
         x.of = "nobody" => x.state # "Stopped",
         DOMAIN bridge' = Bridges,
         \A c \in Bridges : bridge'[c] = bridge[c] \/ Begun(bridge'[c])
  PROVE  TeamInv'
<1>1. ResourcesOK'
  BY DEF TeamInv, ResourcesOK, Write, Exists
<1>2. ASSUME NEW c \in Bridges
      PROVE  PhaseOK(bridge'[c]) /\ (Is(c, "applying") => ReadIsCurrent(c))'
  <2>. SUFFICES ASSUME PhaseOK(bridge'[c]), Is(c, "applying")' PROVE ReadIsCurrent(c)'
    BY DEF TeamInv, BridgesOK, Begun
  <2>1. CASE Begun(bridge'[c])
    BY <2>1 DEF Begun, Is, ReadIsCurrent
  <2>2. CASE bridge'[c] = bridge[c]
    <3>1. bridge'[c] = bridge[c] /\ bridge[c] \in ApplyingType /\ ReadIsCurrent(c)
      BY <2>2 DEF TeamInv, BridgesOK, Is, PhaseOK
    <3>2. ApplyOrder[bridge[c].at] \in Resources
      BY <3>1, ApplyOrderIsSequence DEF ApplyingType
    <3>3. ASSUME ApplyOrder[bridge[c].at] \in copies'[c]
          PROVE  /\ ApplyOrder[bridge[c].at] \in copies[c]
                 /\ cluster'[ApplyOrder[bridge[c].at]] = cluster[ApplyOrder[bridge[c].at]]
      BY <3>2, <3>3 DEF Write, TeamInv, ResourcesOK
    <3>4. QED
      BY <3>1, <3>3 DEF ReadIsCurrent
  <2>3. QED
    BY <2>1, <2>2
<1>3. DOMAIN copies' = Bridges
  BY DEF Write
<1>4. QED
  BY <1>1, <1>2, <1>3 DEF TeamInv, BridgesOK

\* A bridge goes on; nothing is written, and what it reads is added to what it holds.
LEMMA ProceedKeeps ==
  ASSUME TeamInv, UNCHANGED cluster, NEW b \in Bridges, NEW next, Proceed(b, next),
         Begun(next),
         DOMAIN copies' = Bridges, \A c \in Bridges \ {b} : copies'[c] = copies[c]
  PROVE  TeamInv'
<1>1. ResourcesOK'
  BY DEF TeamInv, ResourcesOK, Exists
<1>2. /\ DOMAIN bridge' = Bridges /\ bridge'[b] = next
      /\ \A c \in Bridges \ {b} : bridge'[c] = bridge[c]
  BY DEF Proceed, TeamInv, BridgesOK
<1>3. ASSUME NEW c \in Bridges
      PROVE  PhaseOK(bridge'[c]) /\ (Is(c, "applying") => ReadIsCurrent(c))'
  BY <1>2 DEF ReadIsCurrent, TeamInv, BridgesOK, Is, Begun
<1>4. QED
  BY <1>1, <1>2, <1>3 DEF TeamInv, BridgesOK

LEMMA TeamStep == TeamInv /\ [MissionTeamNext]_teamVars => TeamInv'
<1>. SUFFICES ASSUME TeamInv, [MissionTeamNext]_teamVars PROVE TeamInv'
  OBVIOUS
<1>. USE DEF TeamInv, Begun, PhaseOK
<1>1. CASE UNCHANGED teamVars
  BY <1>1 DEF teamVars, ResourcesOK, BridgesOK, Exists, Is, ReadIsCurrent
<1>2. ASSUME NEW r \in Resources, Reconcile(r) PROVE TeamInv'
  <2>. DEFINE phase == IF cluster[r].state = "Stopped" THEN "Stopped" ELSE "Ready"
              x == [cluster[r] EXCEPT !.phase = phase]
  <2>1. x \in ResourceType /\ x.of = cluster[r].of /\ x.state = cluster[r].state
    BY DEF ResourcesOK, ResourceType
  <2>2. Write(r, x) /\ bridge' = bridge /\ (x.of = "nobody" => x.state # "Stopped")
    BY <1>2, <2>1 DEF Reconcile, ResourcesOK, Exists
  <2>. HIDE DEF x
  <2>3. QED
    BY <2>1, <2>2, WriteKeeps DEF BridgesOK
<1>3. ASSUME NEW r \in Resources, RemoveResource(r) PROVE TeamInv'
  <2>1. NoResource \in ResourceType /\ NoResource.state # "Stopped"
    BY DEF NoResource, ResourceType, Owners
  <2>2. Write(r, NoResource) /\ bridge' = bridge
    BY <1>3 DEF RemoveResource
  <2>3. QED
    BY <2>1, <2>2, WriteKeeps DEF BridgesOK
<1>. SUFFICES ASSUME NEW b \in Bridges PROVE
       /\ Start(b) \/ GetTopology(b) \/ BindHuman(b) \/ Delegate(b) \/ Refused(b) \/ Crash(b) => TeamInv'
       /\ Cancel(b) \/ ListManagers(b) \/ ListWorkers(b) \/ WaitForStopped(b) => TeamInv'
       /\ GetToApply(b) \/ Apply(b) \/ StopObject(b) => TeamInv'
  BY <1>1, <1>2, <1>3 DEF MissionTeamNext
<1>. DOMAIN copies = Bridges /\ DOMAIN bridge = Bridges
  BY DEF BridgesOK
<1>4. ASSUME Start(b) PROVE TeamInv'
  <2>1. [phase |-> "applying", at |-> 1, read |-> <<>>] \in ApplyingType
    BY ApplyOrderIsSequence DEF ApplyingType
  <2>2. QED
    BY <1>4, <2>1, ProceedKeeps DEF Start
<1>5. ASSUME GetTopology(b) PROVE TeamInv'
  <2>1. PICK next : Proceed(b, next) /\ next.phase \in {"observing", "observed"}
    BY <1>5 DEF GetTopology
  <2>2. QED
    BY <1>5, <2>1, ProceedKeeps DEF GetTopology
<1>6. ASSUME BindHuman(b) PROVE TeamInv'
  <2>1. PICK p \in {"bound", "idle"} : Proceed(b, [phase |-> p])
    BY <1>6 DEF BindHuman
  <2>2. QED
    BY <1>6, <2>1, ProceedKeeps DEF BindHuman
<1>7. ASSUME Delegate(b) PROVE TeamInv'
  BY <1>7, ProceedKeeps DEF Delegate
<1>8. ASSUME Refused(b) PROVE TeamInv'
  BY <1>8, ProceedKeeps DEF Refused, Forget
<1>9. ASSUME Crash(b) PROVE TeamInv'
  BY <1>9, ProceedKeeps DEF Crash, Forget, Fresh
<1>10. ASSUME Cancel(b) PROVE TeamInv'
  BY <1>10, ProceedKeeps DEF Cancel
<1>11. ASSUME ListManagers(b) PROVE TeamInv'
  BY <1>11, ProceedKeeps DEF ListManagers, Read
<1>12. ASSUME ListWorkers(b) PROVE TeamInv'
  <2>1. [phase |-> "stopping", at |-> 1] \in StoppingType
    BY IdentityAssumption DEF StoppingType
  <2>2. QED
    BY <1>12, <2>1, ProceedKeeps DEF ListWorkers, Read
<1>13. ASSUME WaitForStopped(b) PROVE TeamInv'
  <2>1. PICK next : Proceed(b, next) /\ next.phase \in {"idle", "waiting"}
    BY <1>13 DEF WaitForStopped
  <2>2. QED
    BY <1>13, <2>1, ProceedKeeps DEF WaitForStopped
<1>14. ASSUME GetToApply(b) PROVE TeamInv'
  <2>. DEFINE r == ApplyOrder[bridge[b].at]
  <2>1. bridge[b] \in ApplyingType /\ r \in Resources /\ cluster[r] \in ResourceType
    BY <1>14, ApplyOrderIsSequence DEF GetToApply, BridgesOK, ResourcesOK, ApplyingType, Is
  <2>2. bridge' = [bridge EXCEPT ![b] = [bridge[b] EXCEPT !.read = <<cluster[r]>>]]
    BY <1>14 DEF GetToApply
  <2>3. /\ bridge'[b] \in ApplyingType /\ bridge'[b].at = bridge[b].at
        /\ bridge'[b].read = <<cluster[r]>> /\ DOMAIN bridge' = Bridges
    BY <2>1, <2>2 DEF ApplyingType
  <2>4. UNCHANGED cluster /\ \A c \in Bridges \ {b} : bridge'[c] = bridge[c] /\ copies'[c] = copies[c]
    BY <1>14, <2>2 DEF GetToApply, Read
  <2>5. ResourcesOK' /\ DOMAIN copies' = Bridges
    BY <1>14, <2>4 DEF ResourcesOK, Exists, GetToApply, Read
  <2>6. ReadIsCurrent(b)'
    BY <2>3, <2>4 DEF ReadIsCurrent
  <2>7. ASSUME NEW c \in Bridges \ {b}
        PROVE  PhaseOK(bridge'[c]) /\ (Is(c, "applying") => ReadIsCurrent(c))'
    BY <2>4 DEF BridgesOK, Is, ReadIsCurrent
  <2>8. PhaseOK(bridge'[b])
    BY <2>3 DEF ApplyingType
  <2>9. QED
    BY <2>3, <2>5, <2>6, <2>7, <2>8 DEF BridgesOK
<1>15. ASSUME Apply(b) PROVE TeamInv'
  <2>. DEFINE r == ApplyOrder[bridge[b].at]
              read == Head(bridge[b].read)
              next == IF bridge[b].at < Len(ApplyOrder)
                      THEN [phase |-> "applying", at |-> bridge[b].at + 1, read |-> <<>>]
                      ELSE [phase |-> "observing", at |-> 1, of |-> "nobody", ready |-> TRUE]
  <2>1. bridge[b] \in ApplyingType /\ bridge[b].read # <<>>
    BY <1>15 DEF Apply, BridgesOK, Is
  <2>2. r \in Resources /\ bridge[b].at \in 1..Len(ApplyOrder)
    BY <2>1, ApplyOrderIsSequence DEF ApplyingType
  <2>3. read \in ResourceType
    BY <2>1 DEF ApplyingType
  <2>4. Desired(b, r, read) \in ResourceType /\ Desired(b, r, read).state # "Stopped"
    <3>1. IdentityOf[b] \in Owners /\ read.phase \in {"Pending", "Ready", "Stopped"}
      BY <2>3 DEF Owners, ResourceType
    <3>. HIDE DEF read, r
    <3>2. QED
      BY <3>1 DEF Desired, ResourceType, Ready
  <2>5. Write(r, Desired(b, r, read)) /\ bridge' = [bridge EXCEPT ![b] = next]
    BY <1>15 DEF Apply, Proceed
  <2>6. Begun(next)
    BY <2>2, ApplyOrderIsSequence DEF ApplyingType
  <2>. HIDE DEF next, read, r
  <2>7. QED
    BY <2>2, <2>4, <2>5, <2>6, WriteKeeps
<1>16. ASSUME StopObject(b) PROVE TeamInv'
  <2>. DEFINE r == Runtimes[bridge[b].at]
              x == [cluster[r] EXCEPT !.state = "Stopped"]
              next == IF bridge[b].at < Len(Runtimes)
                      THEN [phase |-> "stopping", at |-> bridge[b].at + 1]
                      ELSE [phase |-> "waiting", at |-> 1, all |-> TRUE]
  <2>1. Write(r, x) /\ Exists(r) /\ bridge' = [bridge EXCEPT ![b] = next]
    BY <1>16 DEF StopObject, UpdateConflicts, Proceed
  <2>2. bridge[b].at \in 1..Len(Runtimes) /\ Len(Runtimes) \in Nat /\ r \in Resources
    <3>1. bridge[b].at \in DOMAIN Runtimes
      BY <1>16 DEF StopObject, Is, BridgesOK, StoppingType
    <3>2. QED
      BY <3>1, IdentityAssumption, LenProperties, ApplyOrderIsSequence DEF Running, ToSet
  <2>3. Begun(next)
    BY <2>2, IdentityAssumption, LenProperties DEF StoppingType
  <2>4. x \in ResourceType /\ x.of # "nobody"
    BY <2>1, <2>2 DEF ResourcesOK, ResourceType, Exists
  <2>. HIDE DEF r, x, next
  <2>5. QED
    BY <2>1, <2>2, <2>3, <2>4, WriteKeeps
<1>17. QED
  BY <1>4, <1>5, <1>6, <1>7, <1>8, <1>9, <1>10, <1>11, <1>12, <1>13, <1>14, <1>15, <1>16

\* What a bridge has read of a resource whose version it holds is the resource as it is, for
\* every number of bridges that apply, stop and are stopped, and of resources removed.
THEOREM ReadsAreCurrent == MissionTeamSpec => []TeamInv
<1>. QED
  BY TeamInitially, TeamStep, PTL DEF MissionTeamSpec

LEMMA StopStep ==
  ASSUME TeamInv, [MissionTeamNext]_teamVars,
         NEW r \in Running, cluster[r].state = "Stopped", cluster'[r].state = "Running"
  PROVE  \E b \in Bridges : /\ Is(b, "applying") /\ ApplyOrder[bridge[b].at] = r
                            /\ ToSet(bridge[b].read) = {cluster[r]}
<1>1. r \in Resources /\ cluster[r] \in ResourceType /\ Exists(r) /\ DOMAIN cluster = Resources
  BY ApplyOrderIsSequence DEF TeamInv, ResourcesOK
<1>2. ASSUME NEW q \in Resources, NEW x, Write(q, x), x.state # "Running" \/ x.state = cluster[q].state
      PROVE  FALSE
  BY <1>1, <1>2 DEF Write
<1>3. PICK b \in Bridges : Apply(b)
  <2>1. cluster' # cluster
    OBVIOUS
  <2>2. ASSUME NEW q \in Resources, Reconcile(q) PROVE FALSE
    <3>. DEFINE phase == IF cluster[q].state = "Stopped" THEN "Stopped" ELSE "Ready"
                x == [cluster[q] EXCEPT !.phase = phase]
    <3>1. Write(q, x) /\ x.state = cluster[q].state
      BY <2>2 DEF Reconcile, TeamInv, ResourcesOK, ResourceType
    <3>. HIDE DEF x
    <3>2. QED
      BY <3>1, <1>2
  <2>3. ASSUME NEW q \in Resources, RemoveResource(q) PROVE FALSE
    BY <2>3, <1>2 DEF RemoveResource, NoResource
  <2>4. ASSUME NEW c \in Bridges, StopObject(c) PROVE FALSE
    <3>. DEFINE q == Runtimes[bridge[c].at]
                x == [cluster[q] EXCEPT !.state = "Stopped"]
    <3>1. q \in Resources
      BY <2>4, IdentityAssumption, ApplyOrderIsSequence
         DEF StopObject, Is, TeamInv, BridgesOK, PhaseOK, StoppingType, Running, ToSet
    <3>2. Write(q, x) /\ x.state = "Stopped"
      BY <2>4, <3>1 DEF StopObject, TeamInv, ResourcesOK, ResourceType
    <3>. HIDE DEF x, q
    <3>3. QED
      BY <3>1, <3>2, <1>2
  <2>5. QED
    BY <2>1, <2>2, <2>3, <2>4
       DEF MissionTeamNext, teamVars, Start, GetToApply, GetTopology, BindHuman, Delegate, Refused,
           Crash, Cancel, ListManagers, ListWorkers, WaitForStopped
<1>. DEFINE q == ApplyOrder[bridge[b].at]
            read == Head(bridge[b].read)
<1>4. bridge[b] \in ApplyingType /\ ReadIsCurrent(b) /\ bridge[b].read # <<>>
  BY <1>3 DEF Apply, TeamInv, BridgesOK, PhaseOK, Is
<1>5. q = r
  <2>1. q \in Resources /\ Write(q, Desired(b, q, read))
    BY <1>3, <1>4, ApplyOrderIsSequence DEF Apply, ApplyingType
  <2>. HIDE DEF q, read
  <2>2. QED
    BY <1>1, <2>1 DEF Write
<1>6. r \in copies[b]
  BY <1>1, <1>3, <1>5 DEF Apply, UpdateConflicts
<1>7. bridge[b].read = <<cluster[r]>>
  BY <1>4, <1>5, <1>6 DEF ReadIsCurrent
<1>8. ToSet(bridge[b].read) = {cluster[r]}
  BY <1>7 DEF ToSet
<1>9. QED
  BY <1>3, <1>5, <1>8 DEF Apply

\* Whoever makes a stopped resource run had read it stopped: a start that goes on while another
\* session stops the team does not undo the stop, however many of either there are.
THEOREM StopIsNotOverwritten == MissionTeamSpec => StopNotOverwritten
<1>1. TeamInv /\ [MissionTeamNext]_teamVars =>
        [\A r \in Running :
           cluster[r].state = "Stopped" /\ cluster'[r].state = "Running"
             => \E b \in Bridges : /\ Is(b, "applying") /\ ApplyOrder[bridge[b].at] = r
                                   /\ ToSet(bridge[b].read) = {cluster[r]}]_teamVars
  BY StopStep
<1>2. QED
  BY <1>1, ReadsAreCurrent, PTL DEF MissionTeamSpec, StopNotOverwritten
-----------------------------------------------------------------------------
(***************************************************************************)
(* The Core Bridge: a mission of the document that was not refused is      *)
(* founded in the log, whether the document is saved or not.               *)
(***************************************************************************)
Sent == {r.mission : r \in Requests}

Founded(m) ==
  /\ history.project = m.project
  /\ \A k \in DOMAIN m.assigned :
       /\ m.assigned[k][2] \in DOMAIN history.agents
       /\ history.agents[m.assigned[k][2]] = m.assigned[k][1]

MissionsInv ==
  /\ history = [project |-> history.project, agents |-> history.agents]
  /\ document = [missions |-> document.missions, runs |-> document.runs]
  /\ stateFile = [missions |-> stateFile.missions, runs |-> stateFile.runs]
  /\ document.missions \subseteq Sent
  /\ stateFile.missions \subseteq document.missions
  /\ \A m \in document.missions \ refused : Founded(m)

\* There is a least element in every set of numbers that is not empty.
LEMMA LeastNatural ==
  ASSUME NEW T \in SUBSET Nat, T # {}
  PROVE  \E x \in T : \A y \in T : x <= y
<1>1. PICK x \in T : \A y \in T : ~(<<y, x>> \in OpToRel(<, Nat))
  BY WFMin, NatLessThanWellFounded, Zenon
<1>2. \A y \in T : ~(y < x)
  BY <1>1 DEF OpToRel
<1>3. QED
  BY <1>2

LEMMA FirstAssignment ==
  ASSUME NEW assigned \in Seq(STRING \X STRING), NEW k \in DOMAIN assigned
  PROVE  LET first == FirstOf(assigned, assigned[k][2])
         IN  /\ first \in DOMAIN assigned /\ assigned[first][2] = assigned[k][2]
             /\ \A j \in 1..first - 1 : assigned[j][2] # assigned[k][2]
<1>. DEFINE a == assigned[k][2]
            T == {j \in DOMAIN assigned : assigned[j][2] = a}
<1>1. DOMAIN assigned = 1..Len(assigned) /\ Len(assigned) \in Nat
  BY LenProperties
<1>2. T \in SUBSET Nat /\ k \in T
  BY <1>1
<1>. HIDE DEF T
<1>3. PICK first \in T : \A j \in T : first <= j
  BY <1>2, LeastNatural
<1>. USE DEF T
<1>4. /\ first \in DOMAIN assigned /\ assigned[first][2] = a
      /\ \A j \in 1..first - 1 : assigned[j][2] # a
  <2>1. ASSUME NEW j \in 1..first - 1 PROVE assigned[j][2] # a
    <3>1. j \in DOMAIN assigned /\ j < first
      BY <1>1, <1>3
    <3>2. ~(first <= j)
      BY <1>1, <1>3, <3>1
    <3>3. QED
      BY <1>3, <3>1, <3>2
  <2>2. QED
    BY <1>3, <2>1
<1>. HIDE DEF a, T
<1>5. /\ FirstOf(assigned, a) \in DOMAIN assigned /\ assigned[FirstOf(assigned, a)][2] = a
      /\ \A j \in 1..FirstOf(assigned, a) - 1 : assigned[j][2] # a
  BY <1>4 DEF FirstOf
<1>6. QED
  BY <1>5 DEF a

\* No agent that is known changes, and the agents of a registered mission have its functions.
LEMMA RegisteredAgents ==
  ASSUME NEW agents, NEW assigned \in Seq(STRING \X STRING), NEW n \in 0..Len(assigned),
         Registrable(agents, assigned, n)
  PROVE  LET new == Registered(agents, assigned, n)
         IN  /\ \A a \in DOMAIN agents : a \in DOMAIN new /\ new[a] = agents[a]
             /\ \A k \in 1..n : assigned[k][2] \in DOMAIN new /\ new[assigned[k][2]] = assigned[k][1]
<1>. DEFINE new == Registered(agents, assigned, n)
<1>1. DOMAIN assigned = 1..Len(assigned) /\ Len(assigned) \in Nat
  BY LenProperties
<1>2. \A a \in DOMAIN agents : a \in DOMAIN new /\ new[a] = agents[a]
  BY DEF Registered
<1>3. ASSUME NEW k \in 1..n
      PROVE  assigned[k][2] \in DOMAIN new /\ new[assigned[k][2]] = assigned[k][1]
  <2>. DEFINE a == assigned[k][2]
              first == FirstOf(assigned, a)
              before == Registered(agents, assigned, k - 1)
  <2>1. a \in DOMAIN before => before[a] = assigned[k][1]
    BY DEF Registrable, Fits
  <2>2. /\ DOMAIN new = DOMAIN agents \cup {assigned[j][2] : j \in 1..n}
        /\ DOMAIN before = DOMAIN agents \cup {assigned[j][2] : j \in 1..k - 1}
    BY DEF Registered
  <2>3. a \in DOMAIN new
    BY <2>2
  <2>4. CASE a \in DOMAIN agents
    <3>1. before[a] = agents[a] /\ a \in DOMAIN before
      BY <2>4 DEF Registered
    <3>2. QED
      BY <1>2, <2>1, <2>3, <2>4, <3>1
  <2>5. CASE a \notin DOMAIN agents
    <3>1. new[a] = assigned[first][1]
      BY <2>3, <2>5 DEF Registered
    <3>2. /\ first \in DOMAIN assigned /\ assigned[first][2] = a
          /\ \A j \in 1..first - 1 : assigned[j][2] # a
      <4>1. k \in DOMAIN assigned
        BY <1>1
      <4>2. QED
        BY <4>1, FirstAssignment
    <3>3. CASE first = k
      BY <2>3, <3>1, <3>3
    <3>4. CASE first # k
      <4>1. first \in 1..k - 1
        <5>1. first \in Nat /\ first >= 1 /\ k \in Nat /\ k >= 1 /\ ~(k \in 1..first - 1)
          BY <1>1, <3>2
        <5>. HIDE DEF first
        <5>2. QED
          BY <3>4, <5>1
      <4>2. a \in DOMAIN before
        BY <2>2, <3>2, <4>1
      <4>3. before[a] = assigned[first][1]
        BY <2>5, <4>2 DEF Registered
      <4>4. QED
        BY <2>1, <2>3, <3>1, <4>2, <4>3
    <3>5. QED
      BY <3>3, <3>4
  <2>6. QED
    BY <2>4, <2>5
<1>4. QED
  BY <1>2, <1>3

LEMMA SentMissions ==
  ASSUME NEW m \in Sent
  PROVE  /\ m.project # NoProject /\ m.assigned \in Seq(STRING \X STRING)
         /\ DOMAIN m.assigned = 1..Len(m.assigned) /\ Len(m.assigned) \in Nat
<1>1. m.project # NoProject /\ m.assigned \in Seq(STRING \X STRING)
  BY RequestsAssumption DEF Sent
<1>2. QED
  BY <1>1, LenProperties

\* However far it gets, governance takes nothing from the missions that are founded.
LEMMA GovernanceKeeps ==
  ASSUME NEW m \in Sent, NEW all \in BOOLEAN, GovernanceEnsured(m, all), MissionsInv
  PROVE  /\ history' = [project |-> history'.project, agents |-> history'.agents]
         /\ \A other \in Sent : Founded(other) => Founded(other)'
         /\ all => Founded(m)'
<1>1. CASE history' = history /\ ~all
  BY <1>1 DEF Founded, MissionsInv
<1>2. ASSUME NEW n \in 0..Len(m.assigned), Registrable(history.agents, m.assigned, n),
             all => n = Len(m.assigned), EnsureProject(m.project),
             history' = [project |-> m.project, agents |-> Registered(history.agents, m.assigned, n)]
      PROVE  /\ history' = [project |-> history'.project, agents |-> history'.agents]
             /\ \A other \in Sent : Founded(other) => Founded(other)'
             /\ all => Founded(m)'
  <2>1. /\ \A a \in DOMAIN history.agents :
             a \in DOMAIN history'.agents /\ history'.agents[a] = history.agents[a]
        /\ \A k \in 1..n : /\ m.assigned[k][2] \in DOMAIN history'.agents
                          /\ history'.agents[m.assigned[k][2]] = m.assigned[k][1]
        /\ history'.project = m.project
    <3>1. m.assigned \in Seq(STRING \X STRING)
      BY SentMissions
    <3>. DEFINE new == Registered(history.agents, m.assigned, n)
    <3>2. /\ \A a \in DOMAIN history.agents : a \in DOMAIN new /\ new[a] = history.agents[a]
          /\ \A k \in 1..n : m.assigned[k][2] \in DOMAIN new /\ new[m.assigned[k][2]] = m.assigned[k][1]
      <4>. DEFINE agents == history.agents
                  assigned == m.assigned
      <4>1. assigned \in Seq(STRING \X STRING) /\ n \in 0..Len(assigned) /\ Registrable(agents, assigned, n)
        BY <1>2, <3>1
      <4>. HIDE DEF agents, assigned
      <4>2. /\ \A a \in DOMAIN agents : /\ a \in DOMAIN Registered(agents, assigned, n)
                                       /\ Registered(agents, assigned, n)[a] = agents[a]
            /\ \A k \in 1..n : /\ assigned[k][2] \in DOMAIN Registered(agents, assigned, n)
                              /\ Registered(agents, assigned, n)[assigned[k][2]] = assigned[k][1]
        BY <4>1, RegisteredAgents
      <4>3. QED
        BY <4>2 DEF agents, assigned
    <3>3. history'.agents = new /\ history'.project = m.project
      BY <1>2
    <3>. HIDE DEF new
    <3>4. QED
      BY <3>2, <3>3
  <2>2. ASSUME NEW other \in Sent, Founded(other) PROVE Founded(other)'
    <3>1. other.project # NoProject /\ history.project = other.project
      BY <2>2, SentMissions DEF Founded
    <3>2. m.project = other.project
      BY <1>2, <3>1 DEF EnsureProject
    <3>3. QED
      BY <2>1, <2>2, <3>2 DEF Founded
  <2>3. all => Founded(m)'
    BY <1>2, <2>1, SentMissions DEF Founded
  <2>4. QED
    BY <1>2, <2>2, <2>3
<1>3. QED
  BY <1>1, <1>2 DEF GovernanceEnsured

LEMMA MissionsStep == MissionsInv /\ [BridgeNext]_bridgeVars => MissionsInv'
<1>. SUFFICES ASSUME MissionsInv, [BridgeNext]_bridgeVars PROVE MissionsInv'
  OBVIOUS
<1>1. ASSUME NEW h \in Handlers, NEW request \in Requests, RegisterMission(h, request)
      PROVE  MissionsInv'
  <2>. DEFINE m == request.mission
              doc == [missions |-> document.missions \cup {m}, runs |-> document.runs]
  <2>1. m \in Sent
    BY DEF Sent
  <2>2. document' = doc /\ WithMission(m) = doc
    <3>1. document = [missions |-> document.missions, runs |-> document.runs]
      BY DEF MissionsInv
    <3>2. WithMission(m) = doc
      <4>. DEFINE missions == document.missions \cup {m}
      <4>1. WithMission(m) = [document EXCEPT !.missions = missions]
        BY DEF WithMission
      <4>. HIDE DEF missions, m
      <4>2. [document EXCEPT !.missions = missions] = [missions |-> missions, runs |-> document.runs]
        BY <3>1
      <4>3. QED
        BY <4>1, <4>2 DEF missions
    <3>3. document' = WithMission(m)
      BY <1>1 DEF RegisterMission
    <3>4. QED
      BY <3>2, <3>3
  <2>3. PICK all \in BOOLEAN :
          /\ GovernanceEnsured(m, all)
          /\ \/ all /\ refused' = refused \ {m}
             \/ all /\ refused' = refused
             \/ refused' = refused \cup ({m} \ document.missions)
          /\ stateFile' \in {doc, stateFile, NoDocument}
    BY <1>1, <2>2 DEF RegisterMission, Persisted, NotPersisted, fileVars
  <2>4. /\ history' = [project |-> history'.project, agents |-> history'.agents]
        /\ \A other \in Sent : Founded(other) => Founded(other)'
        /\ all => Founded(m)'
    BY <2>1, <2>3, GovernanceKeeps
  <2>5. /\ document'.missions = document.missions \cup {m}
        /\ document' = [missions |-> document'.missions, runs |-> document'.runs]
    BY <2>2
  <2>6. /\ stateFile' = [missions |-> stateFile'.missions, runs |-> stateFile'.runs]
        /\ stateFile'.missions \subseteq document.missions \cup {m}
    <3>1. CASE stateFile' = doc
      BY <3>1
    <3>2. CASE stateFile' = stateFile
      BY <3>2 DEF MissionsInv
    <3>3. CASE stateFile' = NoDocument
      BY <3>3 DEF NoDocument
    <3>4. QED
      BY <2>3, <3>1, <3>2, <3>3
  <2>7. ASSUME NEW other \in document.missions \cup {m}, other \notin refused'
        PROVE  Founded(other)'
    <3>1. other \in Sent
      BY <2>1 DEF MissionsInv
    <3>2. CASE other = m /\ all
      BY <2>4, <3>2
    <3>3. CASE other = m /\ ~all
      <4>1. m \in document.missions \ refused
        BY <2>3, <2>7, <3>3
      <4>2. QED
        BY <2>4, <3>1, <3>3, <4>1 DEF MissionsInv
    <3>4. CASE other # m
      <4>1. other \in document.missions \ refused
        BY <2>3, <2>7, <3>4
      <4>2. QED
        BY <2>4, <3>1, <4>1 DEF MissionsInv
    <3>5. QED
      BY <3>2, <3>3, <3>4
  <2>8. QED
    BY <2>1, <2>4, <2>5, <2>6, <2>7 DEF MissionsInv
<1>2. ASSUME NEW p \in Projects, InitializeProject(p)
      PROVE  MissionsInv'
  <2>1. history' = [project |-> p, agents |-> history.agents]
    BY <1>2 DEF InitializeProject, MissionsInv
  <2>2. document' = document /\ stateFile' = stateFile /\ refused' = refused /\ EnsureProject(p)
    BY <1>2 DEF InitializeProject, fileVars
  <2>3. ASSUME NEW m \in document.missions \ refused PROVE Founded(m)'
    <3>1. Founded(m) /\ m.project # NoProject
      BY SentMissions DEF MissionsInv
    <3>2. history.project = p
      BY <2>2, <3>1 DEF EnsureProject, Founded
    <3>3. QED
      BY <2>1, <3>1, <3>2 DEF Founded
  <2>4. QED
    BY <2>1, <2>2, <2>3 DEF MissionsInv
<1>3. ASSUME history' = history, refused' = refused, document' = stateFile, stateFile' = stateFile
      PROVE  MissionsInv'
  BY <1>3 DEF MissionsInv, Founded
<1>4. ASSUME NEW h \in Handlers, RecordRun(h)
      PROVE  MissionsInv'
  <2>. DEFINE runs == WithRun(handling[h]).runs
  <2>1. history' = history /\ refused' = refused /\ document' = WithRun(handling[h])
    BY <1>4 DEF RecordRun, governanceVars
  <2>2. WithRun(handling[h]) = [missions |-> document.missions, runs |-> runs]
    BY DEF WithRun, MissionsInv
  <2>. HIDE DEF runs
  <2>3. stateFile' \in {document', stateFile, NoDocument}
    BY <1>4 DEF RecordRun, Persisted, NotPersisted
  <2>4. /\ document'.missions = document.missions
        /\ document' = [missions |-> document'.missions, runs |-> document'.runs]
    BY <2>1, <2>2
  <2>5. /\ stateFile' = [missions |-> stateFile'.missions, runs |-> stateFile'.runs]
        /\ stateFile'.missions \subseteq document.missions
    <3>1. CASE stateFile' = document'
      BY <2>4, <3>1
    <3>2. CASE stateFile' = stateFile
      BY <3>2 DEF MissionsInv
    <3>3. CASE stateFile' = NoDocument
      BY <3>3 DEF NoDocument
    <3>4. QED
      BY <2>3, <3>1, <3>2, <3>3
  <2>6. QED
    BY <2>1, <2>4, <2>5 DEF MissionsInv, Founded
<1>5. ASSUME history' = history, refused' = refused, document' = document, stateFile' = stateFile
      PROVE  MissionsInv'
  BY <1>5 DEF MissionsInv, Founded
<1>6. ASSUME NEW h \in Handlers, AnswerRecorded(h) \/ StartSession(h) \/ AnswerStarted(h)
      PROVE  MissionsInv'
  BY <1>5, <1>6 DEF AnswerRecorded, StartSession, AnswerStarted, governanceVars, fileVars
<1>7. ASSUME NEW run, GetEvidence(run) PROVE MissionsInv'
  BY <1>5, <1>7 DEF GetEvidence, governanceVars, fileVars
<1>8. CASE OpenState
  BY <1>3, <1>8 DEF OpenState, governanceVars
<1>9. CASE UNCHANGED bridgeVars
  BY <1>5, <1>9 DEF bridgeVars
<1>10. QED
  BY <1>1, <1>2, <1>4, <1>6, <1>7, <1>8, <1>9 DEF BridgeNext

\* A mission the MCP host serves and that was not refused when it was last sent is of the
\* project of the log, and the log has its agents with its functions (RegisterMission),
\* wherever a registration or the saving of the document has failed.
THEOREM ServedMissionsAreFounded == BridgeSpec => []MissionsFounded
<1>1. BridgeInit => MissionsInv
  BY DEF BridgeInit, MissionsInv, NoDocument
<1>2. MissionsInv => MissionsFounded
  BY DEF MissionsInv, MissionsFounded, Founded, Served
<1>3. QED
  BY <1>1, <1>2, MissionsStep, PTL DEF BridgeSpec
-----------------------------------------------------------------------------
(***************************************************************************)
(* The runs: a run has the first events of its room.  A session begins     *)
(* behind the cursor that was read when it started, which is never behind  *)
(* the events the run has by the time they are recorded.                   *)
(***************************************************************************)
FirstOfRoom(n) == [k \in 1..n |-> k]

RunOK(r) == \E n \in Nat : r.ids = FirstOfRoom(n) /\ r.cursor \in 0..n

RunsOK(doc) == \A run \in DOMAIN doc.runs : RunOK(doc.runs[run])

Events(doc, run) == IF HasRun(doc, run) THEN Len(doc.runs[run].ids) ELSE 0

\* doc has every event of older.
Extends(doc, older) ==
  \A run \in DOMAIN older.runs : HasRun(doc, run) /\ Events(older, run) <= Events(doc, run)

SessionOK(h) ==
  handling[h].phase = "ended" =>
    LET s == handling[h]
    IN  /\ s.from \in Nat /\ s.last \in Nat /\ s.from >= 1 /\ s.from <= s.last
        /\ s.from <= Events(document, s.request.run) + 1

ShownOK(e) ==
  /\ HasRun(stateFile, e.run)
  /\ \E n \in Nat : e.ids = FirstOfRoom(n) /\ n <= Events(stateFile, e.run)

RunsInv ==
  /\ handling = [h \in Handlers |-> handling[h]]
  /\ RunsOK(document) /\ RunsOK(stateFile)
  /\ \A h \in Handlers : SessionOK(h)
  /\ ~unsaved => stateFile.runs = document.runs
  /\ ~removed => Extends(document, stateFile) /\ \A e \in shown : ShownOK(e)
-----------------------------------------------------------------------------
LEMMA RoomIsSequence ==
  ASSUME NEW n \in Nat
  PROVE  FirstOfRoom(n) \in Seq(Nat) /\ Len(FirstOfRoom(n)) = n /\ DOMAIN FirstOfRoom(n) = 1..n
BY DEF FirstOfRoom

LEMMA EventsOfRun ==
  ASSUME NEW doc, RunsOK(doc), NEW run
  PROVE  /\ Events(doc, run) \in Nat
         /\ HasRun(doc, run) => /\ doc.runs[run].ids = FirstOfRoom(Events(doc, run))
                               /\ doc.runs[run].cursor \in 0..Events(doc, run)
<1>1. CASE HasRun(doc, run)
  <2>1. PICK n \in Nat : doc.runs[run].ids = FirstOfRoom(n) /\ doc.runs[run].cursor \in 0..n
    BY <1>1 DEF RunsOK, RunOK, HasRun
  <2>2. Events(doc, run) = n
    BY <1>1, <2>1, RoomIsSequence DEF Events
  <2>3. QED
    BY <2>1, <2>2
<1>2. CASE ~HasRun(doc, run)
  BY <1>2 DEF Events
<1>3. QED
  BY <1>1, <1>2

\* The ids behind the first n, in their order.
LEMMA RestInOrder ==
  ASSUME NEW n \in Nat, NEW last \in Nat, n <= last
  PROVE  InOrder(n + 1..last) = [k \in 1..last - n |-> n + k]
<1>. DEFINE S == n + 1..last
<1>1. Cardinality(S) = last - n
  <2>1. Cardinality(S) = IF n + 1 > last THEN 0 ELSE last - (n + 1) + 1
    BY FS_Interval
  <2>2. QED
    BY <2>1
<1>2. ASSUME NEW x \in S PROVE Cardinality({y \in S : y < x}) = x - n - 1
  <2>1. {y \in S : y < x} = n + 1..x - 1
    <3>1. x \in Int /\ x >= n + 1 /\ x <= last
      OBVIOUS
    <3>2. \A y : y \in S /\ y < x <=> y \in n + 1..x - 1
      BY <3>1
    <3>3. QED
      BY <3>2
  <2>2. Cardinality(n + 1..x - 1) = IF n + 1 > x - 1 THEN 0 ELSE x - 1 - (n + 1) + 1
    <3>. DEFINE a == n + 1
                b == x - 1
    <3>1. a \in Int /\ b \in Int
      OBVIOUS
    <3>. HIDE DEF a, b
    <3>2. Cardinality(a..b) = IF a > b THEN 0 ELSE b - a + 1
      BY <3>1, FS_Interval
    <3>3. QED
      BY <3>2 DEF a, b
  <2>3. (IF n + 1 > x - 1 THEN 0 ELSE x - 1 - (n + 1) + 1) = x - n - 1
    OBVIOUS
  <2>4. Cardinality({y \in S : y < x}) = Cardinality(n + 1..x - 1)
    BY <2>1
  <2>5. QED
    BY <2>2, <2>3, <2>4
<1>3. ASSUME NEW k \in 1..last - n
      PROVE  (CHOOSE x \in S : Cardinality({y \in S : y < x}) = k - 1) = n + k
  <2>1. n + k \in S
    OBVIOUS
  <2>2. \A x \in S : Cardinality({y \in S : y < x}) = k - 1 <=> x = n + k
    BY <1>2
  <2>. HIDE DEF S
  <2>3. QED
    BY <2>1, <2>2
<1>4. QED
  BY <1>1, <1>3 DEF InOrder

LEMMA MergedRoom ==
  ASSUME NEW n \in Nat, NEW from \in Nat, NEW last \in Nat, from >= 1, from <= last, from <= n + 1
  PROVE  \E all \in Nat : /\ Merged(FirstOfRoom(n), from, last) = FirstOfRoom(all)
                          /\ all >= n /\ all >= last
<1>. DEFINE all == IF last > n THEN last ELSE n
            rest == InOrder(n + 1..all)
<1>1. all \in Nat /\ all >= n /\ all >= last
  OBVIOUS
<1>2. (from..last) \ ToSet(FirstOfRoom(n)) = n + 1..all
  <2>1. ToSet(FirstOfRoom(n)) = 1..n
    BY DEF ToSet, FirstOfRoom
  <2>2. CASE last > n
    BY <2>1, <2>2
  <2>3. CASE ~(last > n)
    BY <2>1, <2>3
  <2>4. QED
    BY <2>2, <2>3
<1>. HIDE DEF all
<1>3. rest = [k \in 1..all - n |-> n + k]
  BY <1>1, RestInOrder
<1>4. /\ FirstOfRoom(n) \in Seq(Nat) /\ Len(FirstOfRoom(n)) = n
      /\ FirstOfRoom(all) \in Seq(Nat) /\ Len(FirstOfRoom(all)) = all
  BY <1>1, RoomIsSequence
<1>5. rest \in Seq(Nat) /\ Len(rest) = all - n
  <2>1. all - n \in Nat /\ \A k \in 1..all - n : n + k \in Nat
    BY <1>1
  <2>2. [k \in 1..all - n |-> n + k] \in Seq(Nat) /\ Len([k \in 1..all - n |-> n + k]) = all - n
    BY <2>1
  <2>3. QED
    BY <1>3, <2>2
<1>6. FirstOfRoom(n) \o rest = FirstOfRoom(all)
  <2>. DEFINE s == FirstOfRoom(n)
  <2>1. \A i \in 1..n : s[i] = i
    BY DEF FirstOfRoom
  <2>2. \A i \in 1..all - n : rest[i] = n + i
    BY <1>3
  <2>3. \A i \in 1..all : FirstOfRoom(all)[i] = i
    BY DEF FirstOfRoom
  <2>4. s \in Seq(Nat) /\ Len(s) = n
    BY <1>4
  <2>. HIDE DEF rest, s
  <2>5. /\ s \o rest \in Seq(Nat) /\ Len(s \o rest) = n + (all - n)
        /\ \A i \in 1..n + (all - n) : (s \o rest)[i] = IF i <= n THEN s[i] ELSE rest[i - n]
    <3>1. /\ s \o rest \in Seq(Nat) /\ Len(s \o rest) = Len(s) + Len(rest)
          /\ \A i \in 1..Len(s) + Len(rest) :
               (s \o rest)[i] = IF i <= Len(s) THEN s[i] ELSE rest[i - Len(s)]
      BY <1>5, <2>4, ConcatProperties
    <3>2. QED
      BY <1>5, <2>4, <3>1
  <2>6. n + (all - n) = all
    BY <1>1
  <2>7. ASSUME NEW i \in 1..all PROVE (s \o rest)[i] = FirstOfRoom(all)[i]
    <3>1. CASE i <= n
      BY <2>1, <2>3, <2>5, <2>6, <3>1
    <3>2. CASE ~(i <= n)
      <4>1. i - n \in 1..all - n /\ n + (i - n) = i
        BY <1>1, <3>2
      <4>2. QED
        BY <2>2, <2>3, <2>5, <2>6, <3>2, <4>1
    <3>3. QED
      BY <3>1, <3>2
  <2>8. s \o rest = FirstOfRoom(all)
    BY <1>4, <2>5, <2>6, <2>7, SeqEqual
  <2>9. QED
    BY <2>8 DEF s
<1>7. Merged(FirstOfRoom(n), from, last) = FirstOfRoom(all)
  BY <1>2, <1>6 DEF Merged
<1>8. QED
  BY <1>1, <1>7
-----------------------------------------------------------------------------
LEMMA ExtendsEvents ==
  ASSUME NEW doc, NEW older, RunsOK(doc), RunsOK(older), Extends(doc, older)
  PROVE  \A run : Events(older, run) <= Events(doc, run)
<1>. SUFFICES ASSUME NEW run PROVE Events(older, run) <= Events(doc, run)
  OBVIOUS
<1>1. Events(doc, run) \in Nat
  BY EventsOfRun
<1>2. CASE HasRun(older, run)
  BY <1>2 DEF Extends, HasRun
<1>3. CASE ~HasRun(older, run)
  BY <1>1, <1>3 DEF Events
<1>4. QED
  BY <1>2, <1>3

LEMMA SameRuns ==
  ASSUME NEW doc, NEW older, doc.runs = older.runs, RunsOK(older)
  PROVE  RunsOK(doc) /\ Extends(doc, older) /\ Extends(older, doc)
<1>1. \A run : Events(doc, run) = Events(older, run) /\ HasRun(doc, run) = HasRun(older, run)
  BY DEF Events, HasRun
<1>2. \A run : Events(older, run) \in Nat
  BY EventsOfRun
<1>3. QED
  BY <1>1, <1>2 DEF RunsOK, Extends, HasRun

\* The other sessions begin behind fewer events than the runs have.
LEMMA OtherSessions ==
  ASSUME NEW q \in Handlers, SessionOK(q), handling'[q] = handling[q],
         RunsOK(document), RunsOK(document'), Extends(document', document)
  PROVE  SessionOK(q)'
<1>1. \A run : Events(document, run) <= Events(document', run)
  BY ExtendsEvents
<1>2. \A run : Events(document, run) \in Nat /\ Events(document', run) \in Nat
  BY EventsOfRun
<1>3. QED
  BY <1>1, <1>2 DEF SessionOK

\* Whether the document is saved, or not, or the file is lost.
LEMMA FileKeepsEvidence ==
  ASSUME RunsInv, RunsOK(document'), Extends(document', document), shown' = shown,
         \/ stateFile' = document' /\ unsaved' = FALSE /\ removed' = removed
         \/ stateFile' = stateFile /\ unsaved' = TRUE /\ removed' = removed
         \/ stateFile' = NoDocument /\ unsaved' = TRUE /\ removed' = TRUE
         \/ /\ stateFile' = stateFile /\ unsaved' = unsaved /\ removed' = removed
            /\ document'.runs = document.runs
  PROVE  /\ RunsOK(stateFile')
         /\ ~unsaved' => stateFile'.runs = document'.runs
         /\ ~removed' => Extends(document', stateFile') /\ \A e \in shown' : ShownOK(e)'
<1>1. RunsOK(document) /\ RunsOK(stateFile)
  BY DEF RunsInv
<1>2. RunsOK(stateFile')
  <2>1. RunsOK(NoDocument)
    BY DEF RunsOK, NoDocument
  <2>2. QED
    BY <1>1, <2>1
<1>3. ~unsaved' => stateFile'.runs = document'.runs
  BY DEF RunsInv
<1>4. ASSUME ~removed', ~removed PROVE Extends(document', stateFile)
  <2>1. Extends(document, stateFile)
    BY <1>4 DEF RunsInv
  <2>2. ASSUME NEW run, run \in DOMAIN stateFile.runs
        PROVE  HasRun(document', run) /\ Events(stateFile, run) <= Events(document', run)
    <3>1. HasRun(document, run) /\ Events(stateFile, run) <= Events(document, run)
      BY <2>1, <2>2 DEF Extends
    <3>2. HasRun(document', run) /\ Events(document, run) <= Events(document', run)
      BY <3>1 DEF Extends, HasRun
    <3>3. Events(stateFile, run) \in Nat /\ Events(document, run) \in Nat /\ Events(document', run) \in Nat
      BY <1>1, EventsOfRun
    <3>4. QED
      BY <3>1, <3>2, <3>3
  <2>3. QED
    BY <2>2 DEF Extends
<1>5. ASSUME ~removed' PROVE /\ ~removed /\ Extends(document', stateFile')
                            /\ Extends(stateFile', stateFile)
  <2>1. ~removed /\ (stateFile' = document' \/ stateFile' = stateFile)
    BY <1>5
  <2>2. Extends(document', stateFile)
    BY <1>4, <1>5, <2>1
  <2>3. Extends(document', document') /\ Extends(stateFile, stateFile)
    BY <1>1, SameRuns
  <2>4. QED
    BY <2>1, <2>2, <2>3
<1>6. ASSUME ~removed', NEW e \in shown PROVE ShownOK(e)'
  <2>1. ShownOK(e) /\ Extends(stateFile', stateFile)
    BY <1>5, <1>6 DEF RunsInv
  <2>2. PICK n \in Nat : e.ids = FirstOfRoom(n) /\ n <= Events(stateFile, e.run)
    BY <2>1 DEF ShownOK
  <2>3. HasRun(stateFile', e.run) /\ Events(stateFile, e.run) <= Events(stateFile', e.run)
    BY <2>1 DEF ShownOK, Extends, HasRun
  <2>4. Events(stateFile, e.run) \in Nat /\ Events(stateFile', e.run) \in Nat
    BY <1>1, <1>2, EventsOfRun
  <2>5. n <= Events(stateFile', e.run)
    BY <2>2, <2>3, <2>4
  <2>6. QED
    BY <2>2, <2>3, <2>5 DEF ShownOK
<1>7. QED
  BY <1>2, <1>3, <1>5, <1>6

LEMMA RegisterKeepsRuns ==
  ASSUME MissionsInv, RunsInv, NEW h \in Handlers, NEW request \in Requests, RegisterMission(h, request)
  PROVE  RunsInv'
<1>. DEFINE m == request.mission
<1>1. WithMission(m).runs = document.runs
  BY DEF WithMission, MissionsInv
<1>2. document' = WithMission(m) /\ document'.runs = document.runs /\ shown' = shown
  BY <1>1 DEF RegisterMission
<1>3. RunsOK(document) /\ RunsOK(document') /\ Extends(document', document)
  BY <1>2, SameRuns DEF RunsInv
<1>4. \/ stateFile' = document' /\ unsaved' = FALSE /\ removed' = removed
      \/ stateFile' = stateFile /\ unsaved' = TRUE /\ removed' = removed
      \/ stateFile' = NoDocument /\ unsaved' = TRUE /\ removed' = TRUE
      \/ stateFile' = stateFile /\ unsaved' = unsaved /\ removed' = removed
  BY <1>2 DEF RegisterMission, Persisted, NotPersisted, fileVars
<1>5. /\ handling = [q \in Handlers |-> handling[q]]
      /\ \/ handling' = handling
         \/ handling' = [handling EXCEPT ![h] = [phase |-> "registered", request |-> request]]
  BY DEF RegisterMission, RunsInv
<1>6. handling' = [q \in Handlers |-> handling'[q]]
  BY <1>5
<1>7. ASSUME NEW q \in Handlers PROVE SessionOK(q)'
  <2>1. CASE handling'[q] = handling[q]
    BY <1>3, <2>1, OtherSessions DEF RunsInv
  <2>2. CASE handling'[q] = [phase |-> "registered", request |-> request]
    BY <2>2 DEF SessionOK
  <2>3. QED
    BY <1>5, <2>1, <2>2
<1>8. /\ RunsOK(stateFile')
      /\ ~unsaved' => stateFile'.runs = document'.runs
      /\ ~removed' => Extends(document', stateFile') /\ \A e \in shown' : ShownOK(e)'
  BY <1>2, <1>3, <1>4, FileKeepsEvidence
<1>9. QED
  BY <1>3, <1>6, <1>7, <1>8 DEF RunsInv

LEMMA RecordKeepsRuns ==
  ASSUME MissionsInv, RunsInv, NEW h \in Handlers, RecordRun(h)
  PROVE  RunsInv'
<1>. DEFINE s == handling[h]
            run == s.request.run
            n == Events(document, run)
            ids == IF HasRun(document, run) THEN document.runs[run].ids ELSE <<>>
            recorded == [ids |-> Merged(ids, s.from, s.last), cursor |-> s.last, form |-> s.request.form]
            runs == [r \in DOMAIN document.runs \cup {run} |->
                       IF r = run THEN recorded ELSE document.runs[r]]
<1>1. /\ s.from \in Nat /\ s.last \in Nat /\ s.from >= 1 /\ s.from <= s.last /\ s.from <= n + 1
      /\ RunsOK(document) /\ n \in Nat
  BY EventsOfRun DEF RecordRun, At, RunsInv, SessionOK
<1>2. ids = FirstOfRoom(n)
  <2>1. CASE HasRun(document, run)
    BY <1>1, <2>1, EventsOfRun
  <2>2. CASE ~HasRun(document, run)
    BY <2>2 DEF Events, FirstOfRoom
  <2>3. QED
    BY <2>1, <2>2
<1>3. PICK all \in Nat : Merged(ids, s.from, s.last) = FirstOfRoom(all) /\ all >= n /\ all >= s.last
  <2>. DEFINE from == s.from
              last == s.last
  <2>1. from \in Nat /\ last \in Nat /\ from >= 1 /\ from <= last /\ from <= n + 1 /\ n \in Nat
    BY <1>1
  <2>. HIDE DEF from, last, n
  <2>2. \E all \in Nat : /\ Merged(FirstOfRoom(n), from, last) = FirstOfRoom(all)
                         /\ all >= n /\ all >= last
    BY <2>1, MergedRoom
  <2>3. QED
    BY <1>2, <2>2 DEF from, last
<1>4. document' = [document EXCEPT !.runs = runs]
  BY DEF RecordRun, WithRun
<1>5. recorded.ids = FirstOfRoom(all) /\ recorded.cursor = s.last
  BY <1>3
<1>. HIDE DEF recorded, ids, n
<1>6. document'.runs = runs
  <2>1. document = [missions |-> document.missions, runs |-> document.runs]
    BY DEF MissionsInv
  <2>. HIDE DEF runs
  <2>2. QED
    BY <1>4, <2>1
<1>7. RunsOK(document')
  <2>1. RunOK(recorded)
    BY <1>1, <1>3, <1>5 DEF RunOK
  <2>2. \A r \in DOMAIN runs : runs[r] = recorded \/ (r \in DOMAIN document.runs /\ runs[r] = document.runs[r])
    OBVIOUS
  <2>3. \A r \in DOMAIN document.runs : RunOK(document.runs[r])
    BY <1>1 DEF RunsOK
  <2>. HIDE DEF runs
  <2>4. QED
    BY <1>6, <2>1, <2>2, <2>3 DEF RunsOK
<1>8. Extends(document', document)
  <2>. SUFFICES ASSUME NEW r \in DOMAIN document.runs
                PROVE  HasRun(document', r) /\ Events(document, r) <= Events(document', r)
    BY DEF Extends
  <2>1. HasRun(document', r) /\ HasRun(document, r)
    BY <1>6 DEF HasRun
  <2>2. CASE r = run
    <3>1. document'.runs[r].ids = FirstOfRoom(all)
      BY <1>5, <1>6, <2>2
    <3>2. Events(document', r) = all
      BY <2>1, <3>1, RoomIsSequence DEF Events
    <3>3. Events(document, r) = n
      BY <2>2 DEF n
    <3>4. QED
      BY <1>3, <2>1, <3>2, <3>3
  <2>3. CASE r # run
    <3>1. document'.runs[r] = document.runs[r]
      BY <1>6, <2>3
    <3>2. Events(document, r) = Events(document', r) /\ Events(document, r) \in Nat
      BY <1>1, <2>1, <3>1, EventsOfRun DEF Events
    <3>3. QED
      BY <2>1, <3>2
  <2>4. QED
    BY <2>2, <2>3
<1>9. \/ stateFile' = document' /\ unsaved' = FALSE /\ removed' = removed
      \/ stateFile' = stateFile /\ unsaved' = TRUE /\ removed' = removed
      \/ stateFile' = NoDocument /\ unsaved' = TRUE /\ removed' = TRUE
  BY DEF RecordRun, Persisted, NotPersisted
<1>10. /\ handling = [q \in Handlers |-> handling[q]] /\ shown' = shown
       /\ \E next : /\ handling' = [handling EXCEPT ![h] = next]
                   /\ next.phase # "ended"
  BY DEF RecordRun, RunsInv, Done, Idle
<1>11. handling' = [q \in Handlers |-> handling'[q]]
  BY <1>10
<1>12. ASSUME NEW q \in Handlers PROVE SessionOK(q)'
  <2>1. CASE handling'[q] = handling[q]
    BY <1>1, <1>7, <1>8, <2>1, OtherSessions DEF RunsInv
  <2>2. CASE handling'[q].phase # "ended"
    BY <2>2 DEF SessionOK
  <2>3. QED
    BY <1>10, <2>1, <2>2
<1>13. /\ RunsOK(stateFile')
       /\ ~unsaved' => stateFile'.runs = document'.runs
       /\ ~removed' => Extends(document', stateFile') /\ \A e \in shown' : ShownOK(e)'
  BY <1>7, <1>8, <1>9, <1>10, FileKeepsEvidence
<1>14. QED
  BY <1>7, <1>11, <1>12, <1>13 DEF RunsInv

\* Evidence that is newly shown is that of the file.
LEMMA NewEvidence ==
  ASSUME RunsInv, document' = document, UNCHANGED fileVars, ~removed,
         \A e \in shown' \ shown : ~unsaved /\ HasRun(document, e.run) /\ e.ids = document.runs[e.run].ids
  PROVE  \A e \in shown' : ShownOK(e)'
<1>. SUFFICES ASSUME NEW e \in shown' PROVE ShownOK(e)'
  OBVIOUS
<1>1. RunsOK(document) /\ RunsOK(stateFile) /\ stateFile' = stateFile
  BY DEF RunsInv, fileVars
<1>2. CASE e \in shown
  BY <1>1, <1>2 DEF RunsInv, ShownOK
<1>3. CASE e \notin shown
  <2>1. /\ HasRun(document, e.run) /\ e.ids = document.runs[e.run].ids
        /\ stateFile.runs = document.runs
    BY <1>3 DEF RunsInv
  <2>2. HasRun(stateFile, e.run) /\ e.ids = stateFile.runs[e.run].ids
    BY <2>1 DEF HasRun
  <2>3. e.ids = FirstOfRoom(Events(stateFile, e.run)) /\ Events(stateFile, e.run) \in Nat
    BY <1>1, <2>2, EventsOfRun
  <2>4. QED
    BY <1>1, <2>2, <2>3 DEF ShownOK
<1>4. QED
  BY <1>2, <1>3

\* What a handler may go on to: if its session has ended, the events of the session
\* begin where those of the run end, or before.
Starts(next) ==
  next.phase = "ended" => /\ next.from \in Nat /\ next.last \in Nat
                          /\ next.from >= 1 /\ next.from <= next.last
                          /\ next.from <= Events(document, next.request.run) + 1

\* A step of one handler that leaves the document and the file as they are.
LEMMA HandlerKeepsRuns ==
  ASSUME RunsInv, NEW h \in Handlers, NEW next, handling' = [handling EXCEPT ![h] = next],
         document' = document, UNCHANGED fileVars,
         Starts(next),
         \A e \in shown' \ shown : ~unsaved /\ HasRun(document, e.run) /\ e.ids = document.runs[e.run].ids
  PROVE  RunsInv'
<1>1. /\ handling = [q \in Handlers |-> handling[q]] /\ RunsOK(document) /\ RunsOK(stateFile)
      /\ stateFile' = stateFile /\ unsaved' = unsaved /\ removed' = removed
  BY DEF RunsInv, fileVars
<1>2. handling' = [q \in Handlers |-> handling'[q]] /\ handling'[h] = next
      /\ \A q \in Handlers \ {h} : handling'[q] = handling[q]
  BY <1>1
<1>3. ASSUME NEW q \in Handlers PROVE SessionOK(q)'
  <2>1. CASE q = h
    BY <1>2, <2>1 DEF SessionOK, Starts
  <2>2. CASE q # h
    <3>1. Extends(document', document) /\ RunsOK(document')
      BY <1>1, SameRuns
    <3>2. QED
      BY <1>1, <1>2, <2>2, <3>1, OtherSessions DEF RunsInv
  <2>3. QED
    BY <2>1, <2>2
<1>4. ASSUME ~removed, NEW e \in shown' PROVE ShownOK(e)'
  BY <1>4, NewEvidence
<1>5. QED
  BY <1>1, <1>2, <1>3, <1>4 DEF RunsInv

LEMMA ShownEvidence ==
  ASSUME NEW run, Evidence(run)
  PROVE  \A e \in shown' \ shown : ~unsaved /\ HasRun(document, e.run) /\ e.ids = document.runs[e.run].ids
BY DEF Evidence

\* Evidence is read, or governance moves.
LEMMA ReadKeepsRuns ==
  ASSUME RunsInv, handling' = handling, document' = document, UNCHANGED fileVars,
         \A e \in shown' \ shown : ~unsaved /\ HasRun(document, e.run) /\ e.ids = document.runs[e.run].ids
  PROVE  RunsInv'
<1>1. /\ RunsOK(document) /\ RunsOK(stateFile) /\ handling = [h \in Handlers |-> handling[h]]
      /\ stateFile' = stateFile /\ unsaved' = unsaved /\ removed' = removed
  BY DEF RunsInv, fileVars
<1>2. ASSUME ~removed, NEW e \in shown' PROVE ShownOK(e)'
  BY <1>2, NewEvidence
<1>3. ASSUME NEW q \in Handlers PROVE SessionOK(q)'
  <2>1. Extends(document', document) /\ RunsOK(document')
    BY <1>1, SameRuns
  <2>2. QED
    BY <1>1, <2>1, OtherSessions DEF RunsInv
<1>4. QED
  BY <1>1, <1>2, <1>3 DEF RunsInv

\* A step of one handler that ends its start.
LEMMA DoneKeepsRuns ==
  ASSUME RunsInv, NEW h \in Handlers, handling' = [handling EXCEPT ![h] = Idle],
         document' = document, UNCHANGED fileVars,
         \A e \in shown' \ shown : ~unsaved /\ HasRun(document, e.run) /\ e.ids = document.runs[e.run].ids
  PROVE  RunsInv'
<1>1. Starts(Idle)
  BY DEF Starts, Idle
<1>2. QED
  BY <1>1, HandlerKeepsRuns

LEMMA StartKeepsRuns ==
  ASSUME RunsInv, NEW h \in Handlers, StartSession(h)
  PROVE  RunsInv'
<1>. DEFINE request == handling[h].request
            cursor == Cursor(request.run)
<1>1. cursor \in 0..Events(document, request.run) /\ Events(document, request.run) \in Nat
  <2>1. RunsOK(document)
    BY DEF RunsInv
  <2>2. QED
    BY <2>1, EventsOfRun DEF Cursor
<1>2. document' = document /\ UNCHANGED fileVars /\ shown' = shown
  BY DEF StartSession
<1>3. CASE handling' = [handling EXCEPT ![h] = Idle]
  BY <1>2, <1>3, DoneKeepsRuns
<1>4. ASSUME NEW last \in cursor + 1..MaxRoom, NEW form,
             handling' = [handling EXCEPT ![h] =
               [phase |-> "ended", from |-> cursor + 1, last |-> last,
                request |-> [mission |-> request.mission, run |-> request.run, form |-> form]]]
      PROVE  RunsInv'
  <2>. DEFINE next == [phase |-> "ended", from |-> cursor + 1, last |-> last,
                       request |-> [mission |-> request.mission, run |-> request.run, form |-> form]]
  <2>1. /\ next.from \in Nat /\ next.last \in Nat /\ next.from >= 1 /\ next.from <= next.last
        /\ next.from <= Events(document, request.run) + 1
    <3>. HIDE DEF cursor
    <3>1. cursor \in Nat /\ MaxRoom \in Nat /\ cursor <= Events(document, request.run)
      BY <1>1, RequestsAssumption
    <3>2. QED
      BY <1>1, <3>1
  <2>2. next.request.run = request.run
    OBVIOUS
  <2>3. handling' = [handling EXCEPT ![h] = next]
    BY <1>4
  <2>. HIDE DEF next
  <2>4. Starts(next)
    BY <2>1, <2>2 DEF Starts
  <2>5. QED
    BY <1>2, <2>3, <2>4, HandlerKeepsRuns
<1>5. QED
  BY <1>3, <1>4 DEF StartSession, Done

LEMMA AnswerKeepsRuns ==
  ASSUME RunsInv, NEW h \in Handlers, AnswerRecorded(h) \/ AnswerStarted(h)
  PROVE  RunsInv'
<1>1. /\ handling' = [handling EXCEPT ![h] = Idle] /\ document' = document /\ UNCHANGED fileVars
      /\ Evidence(handling[h].request.run)
  BY DEF AnswerRecorded, AnswerStarted, Done
<1>2. \A e \in shown' \ shown : ~unsaved /\ HasRun(document, e.run) /\ e.ids = document.runs[e.run].ids
  BY <1>1, ShownEvidence
<1>3. QED
  BY <1>1, <1>2, DoneKeepsRuns

LEMMA OpenKeepsRuns ==
  ASSUME RunsInv, OpenState
  PROVE  RunsInv'
<1>1. /\ document' = stateFile /\ stateFile' = stateFile /\ unsaved' = FALSE /\ removed' = removed
      /\ handling' = [h \in Handlers |-> Idle] /\ shown' = shown /\ RunsOK(stateFile)
  BY DEF OpenState, RunsInv
<1>2. Extends(stateFile, stateFile)
  BY <1>1, SameRuns
<1>3. \A h \in Handlers : SessionOK(h)'
  BY <1>1 DEF SessionOK, Idle
<1>4. ~removed' => \A e \in shown' : ShownOK(e)'
  BY <1>1 DEF RunsInv, ShownOK
<1>5. QED
  BY <1>1, <1>2, <1>3, <1>4 DEF RunsInv

LEMMA RunsStep == MissionsInv /\ RunsInv /\ [BridgeNext]_bridgeVars => RunsInv'
<1>. SUFFICES ASSUME MissionsInv, RunsInv, [BridgeNext]_bridgeVars PROVE RunsInv'
  OBVIOUS
<1>1. ASSUME NEW run, GetEvidence(run) PROVE RunsInv'
  BY <1>1, ShownEvidence, ReadKeepsRuns DEF GetEvidence
<1>2. ASSUME NEW p, InitializeProject(p) PROVE RunsInv'
  BY <1>2, ReadKeepsRuns DEF InitializeProject
<1>3. CASE UNCHANGED bridgeVars
  BY <1>3, ReadKeepsRuns DEF bridgeVars, fileVars
<1>4. QED
  BY <1>1, <1>2, <1>3, RegisterKeepsRuns, RecordKeepsRuns, StartKeepsRuns, AnswerKeepsRuns, OpenKeepsRuns
     DEF BridgeNext

LEMMA RoomPrefix ==
  ASSUME NEW n \in Nat, NEW k \in Nat, k <= n
  PROVE  IsPrefix(FirstOfRoom(k), FirstOfRoom(n)) /\ IsInjective(FirstOfRoom(n))
<1>1. Len(FirstOfRoom(k)) = k /\ Len(FirstOfRoom(n)) = n
  BY RoomIsSequence
<1>2. SubSeq(FirstOfRoom(k), 1, k) = SubSeq(FirstOfRoom(n), 1, k)
  BY DEF FirstOfRoom
<1>3. IsInjective(FirstOfRoom(n))
  BY DEF IsInjective, FirstOfRoom
<1>4. QED
  BY <1>1, <1>2, <1>3 DEF IsPrefix

LEMMA EvidenceOfRuns == RunsInv => EvidenceStays
<1>. SUFFICES ASSUME RunsInv, ~removed, NEW e \in shown, NEW doc \in {document, stateFile}
              PROVE  /\ HasRun(doc, e.run) /\ IsPrefix(e.ids, doc.runs[e.run].ids)
                     /\ IsInjective(doc.runs[e.run].ids)
  BY DEF EvidenceStays
<1>1. /\ RunsOK(document) /\ RunsOK(stateFile) /\ Extends(document, stateFile) /\ ShownOK(e)
  BY DEF RunsInv
<1>2. PICK k \in Nat : e.ids = FirstOfRoom(k) /\ k <= Events(stateFile, e.run)
  BY <1>1 DEF ShownOK
<1>3. HasRun(doc, e.run) /\ Events(stateFile, e.run) <= Events(doc, e.run)
  <2>1. HasRun(stateFile, e.run) /\ Events(stateFile, e.run) \in Nat
    BY <1>1, EventsOfRun DEF ShownOK
  <2>2. HasRun(document, e.run) /\ Events(stateFile, e.run) <= Events(document, e.run)
    BY <1>1, <2>1 DEF Extends, HasRun
  <2>3. QED
    BY <2>1, <2>2
<1>4. /\ Events(doc, e.run) \in Nat /\ Events(stateFile, e.run) \in Nat
      /\ doc.runs[e.run].ids = FirstOfRoom(Events(doc, e.run))
  BY <1>1, <1>3, EventsOfRun
<1>5. k <= Events(doc, e.run)
  BY <1>2, <1>3, <1>4
<1>6. QED
  BY <1>2, <1>3, <1>4, <1>5, RoomPrefix

\* Evidence that was answered from a saved document is never taken back (RecordRun,
\* persistLocked, OpenState): it stays a prefix of what the run has, in memory and in the
\* file, with every event once, for any number of overlapping sessions of a run.
THEOREM EvidenceIsKept == BridgeSpec => []EvidenceStays
<1>1. BridgeInit => MissionsInv /\ RunsInv
  <2>1. BridgeInit => MissionsInv
    BY DEF BridgeInit, MissionsInv, NoDocument
  <2>2. BridgeInit => RunsInv
    BY DEF BridgeInit, RunsInv, RunsOK, NoDocument, SessionOK, Idle, Extends
  <2>3. QED
    BY <2>1, <2>2
<1>2. QED
  BY <1>1, MissionsStep, RunsStep, EvidenceOfRuns, PTL DEF BridgeSpec
=============================================================================
