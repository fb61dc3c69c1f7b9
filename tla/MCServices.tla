----------------------------- MODULE MCServices -----------------------------
(***************************************************************************)
(* The instance of the services that share no state: each behaviour is one *)
(* of one service, and the other services stay as they start.              *)
(***************************************************************************)
EXTENDS EventStore, SkillRuntime, Transfer, CoreBridge, LocalCore, Provenance,
        RemoteObserver, LocalView, MissionTeam, TLC

VARIABLE part

otherVars == <<provenanceVars, remoteVars, viewVars, teamVars>>
services == <<storeVars, skillVars, transferVars, bridgeVars, coreVars, otherVars>>

(* The event store: two writers, four events, batches that overlap, and histories a  *)
(* replica may be given, one of which the writers may have and one they may not.      *)
Event(id, content) == [id |-> id, content |-> content]
MCContents == {Event("e1", "x"), Event("e1", "y"), Event("e2", "x")}
MCBatches == {<<Event("e1", "x"), Event("e2", "x")>>, <<Event("e2", "x"), Event("e3", "x")>>}
MCChains == {ChainedBatch(<<>>, b) : b \in MCBatches}

(* Skill calls: c1 may run, c2 has no grant; both are of one trace.  c1 is risky, needs *)
(* a lease and promotes its result.                                                    *)
MCTraceOf == [c \in Calls |-> "t"]
MCUnfit == ("c1" :> {}) @@ ("c2" :> {"grant"})

(* Capsules of two agents, of one, and one with a wrong signature; configurations that  *)
(* are in step with a first binding, and with a second one of an agent.                 *)
Capsule(wrong, expires, agents) ==
  [wrong |-> wrong, goal |-> 1, expires |-> expires, agents |-> agents]
MCArchives == {Capsule({}, 1, <<"a1", "a2">>), Capsule({"signature"}, 2, <<"a1">>)}
MCSettings ==
  {[goal |-> 1, binds |-> [a \in Agents |->
      [revision |-> IF a = "a1" THEN first ELSE 1, principal |-> "p"]]] : first \in 1..2}

(* Two missions that give an agent different functions: the second of them is refused,   *)
(* after another agent of it was registered.                                            *)
Mission(id, assigned) == [id |-> id, project |-> "P", assigned |-> assigned]
MCRequests ==
  {[mission |-> m, run |-> "r", form |-> "plain"] :
     m \in {Mission("m1", <<<<"build", "a1">>>>),
            Mission("m2", <<<<"build", "a2">>, <<"verify", "a1">>>>)}}

(* Bindings of one commit to a mission of each kind of confirmation. *)
MCRisk == ("m0" :> "L0") @@ ("m2" :> "L2")
MCCovers == [m \in Missions |-> Commits]

(* Two runs of one mission on one team, of a manager and one worker. *)
MCRuntimes == <<"manager", "build">>
MCIdentityOf == [b \in Bridges |-> "i1"]

\* The services that do not move start in one state.  The page looks at nothing of the log but
\* its version, which changes in the same way on a device and elsewhere.
Init ==
  /\ StoreInit /\ SkillInit /\ TransferInit /\ BridgeInit /\ CoreInit
  /\ ProvenanceInit /\ RemoteInit /\ ViewInit /\ MissionTeamInit
  /\ part \in {"store", "skill", "import", "return", "bridge", "core", "provenance", "remote",
              "history", "page", "team"}
  /\ part = "import" \/ setting = CHOOSE s \in Settings : TRUE
  /\ part = "history" \/ ~eventLog.joined
  /\ part = "team" \/ \A r \in Resources : ~Exists(r)
  /\ part = "remote" \/ github.ref = CHOOSE h \in Heads : TRUE

Next ==
  /\ UNCHANGED part
  /\ \/ /\ part = "store" /\ StoreNext
        /\ UNCHANGED <<skillVars, transferVars, bridgeVars, coreVars, otherVars>>
     \/ /\ part = "skill" /\ SkillNext
        /\ UNCHANGED <<storeVars, transferVars, bridgeVars, coreVars, otherVars>>
     \/ /\ part = "import" /\ ImportNext
        /\ UNCHANGED <<storeVars, skillVars, bridgeVars, coreVars, otherVars>>
     \/ /\ part = "return" /\ ReturnNext
        /\ UNCHANGED <<storeVars, skillVars, bridgeVars, coreVars, otherVars>>
     \/ /\ part = "bridge" /\ BridgeNext
        /\ UNCHANGED <<storeVars, skillVars, transferVars, coreVars, otherVars>>
     \/ /\ part = "core" /\ CoreNext
        /\ UNCHANGED <<storeVars, skillVars, transferVars, bridgeVars, otherVars>>
     \/ /\ part = "provenance" /\ ProvenanceNext
        /\ UNCHANGED <<storeVars, skillVars, transferVars, bridgeVars, coreVars, remoteVars, viewVars, teamVars>>
     \/ /\ part = "remote" /\ RemoteNext
        /\ UNCHANGED <<storeVars, skillVars, transferVars, bridgeVars, coreVars, provenanceVars, viewVars, teamVars>>
     \/ /\ \/ part = "history" /\ HistoryNext
           \/ part = "page" /\ PageNext
        /\ UNCHANGED <<storeVars, skillVars, transferVars, bridgeVars, coreVars, provenanceVars, remoteVars, teamVars>>
     \/ /\ part = "team" /\ MissionTeamNext
        /\ UNCHANGED <<storeVars, skillVars, transferVars, bridgeVars, coreVars, provenanceVars, remoteVars, viewVars>>

Spec == Init /\ [][Next]_<<part, services>>
=============================================================================
