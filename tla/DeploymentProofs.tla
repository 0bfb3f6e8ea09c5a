-------------------------- MODULE DeploymentProofs --------------------------
(***************************************************************************)
(* What Deployment keeps, for any nodes, people and outcomes of saving.    *)
(***************************************************************************)
EXTENDS Deployment, TLAPS

USE DeploymentConstants, NoStateIsNone

(* While the server runs on loaded state, memory has all that is stored; the  *)
(* seed is only at hand while nothing is.                                     *)
StateInHand ==
    /\ server = "seeding" => row = NoState
    /\ server \in {"loaded", "serving"} =>
          row # NoState /\ row.accounts \subseteq memory.accounts

DeployInv == DeployTypeOK /\ StateInHand /\ PromisedIsStored

-----------------------------------------------------------------------------
(* A request that is handled while the server serves leaves memory with all   *)
(* it had and the row as it was or a copy of memory, and what it promises it  *)
(* has stored.                                                                *)
LEMMA RequestKeeps ==
    ASSUME DeployInv,
           server = "serving", server' = server, database' = database,
           memory' \in State, memory.accounts \subseteq memory'.accounts,
           row' = row \/ row' = memory',
           \/ promised' = promised
           \/ row' = memory' /\ promised' \subseteq memory'.accounts,
           agents' \in [Nodes -> AgentPhases],
           enlisted' \subseteq Nodes, promised' \subseteq People
    PROVE  DeployInv'
<1> USE DEF DeployInv, DeployTypeOK, StateInHand, PromisedIsStored
<1>1. memory' # NoState  OBVIOUS
<1>2. DeployTypeOK'  BY <1>1
<1>3. StateInHand'  BY <1>1
<1>4. PromisedIsStored'  BY <1>1
<1> QED BY <1>2, <1>3, <1>4

(* A heartbeat or bootstrap changes the status of a node and no account. *)
LEMMA NodeStatusKept ==
    ASSUME NEW n \in Nodes, NEW status \in {"online", "offline"}, memory \in State,
           memory' = [memory EXCEPT !.nodes[n] = status]
    PROVE  memory' \in State /\ memory'.accounts = memory.accounts
BY DEF State

-----------------------------------------------------------------------------
LEMMA DeployInitially == DeployInit => DeployInv
BY DEF DeployInit, DeployInv, DeployTypeOK, StateInHand, PromisedIsStored,
       ServerPhases, AgentPhases

LEMMA DeployStep == ASSUME DeployInv, [DeployNext]_deployVars PROVE DeployInv'
<1> USE DEF DeployInv, DeployTypeOK
<1>0. memory \in State \/ server \notin {"seeding", "loaded", "serving"}  OBVIOUS
<1>1. CASE UNCHANGED deployVars
  BY <1>1 DEF deployVars, StateInHand, PromisedIsStored
<1>2. CASE OpenStore \/ Listen \/ Crash \/ DatabaseTurns
  BY <1>2 DEF OpenStore, Listen, Crash, DatabaseTurns, Exit, agentVars, ServerPhases,
              StateInHand, PromisedIsStored
<1>3. CASE LoadState
  <2>1. Seed \in State  BY DEF Seed, State
  <2>2. CASE IsEmptySnapshot /\ server' = "seeding" /\ memory' = Seed
    BY <1>3, <2>1, <2>2 DEF LoadState, IsEmptySnapshot, agentVars, ServerPhases,
                            StateInHand, PromisedIsStored
  <2>3. CASE ~IsEmptySnapshot /\ database = "up" /\ server' = "loaded" /\ memory' = row
    BY <1>3, <2>3 DEF LoadState, IsEmptySnapshot, agentVars, ServerPhases,
                      StateInHand, PromisedIsStored
  <2>4. CASE Exit
    BY <1>3, <2>4 DEF LoadState, Exit, agentVars, ServerPhases, StateInHand,
                      PromisedIsStored
  <2> QED BY <1>3, <2>2, <2>3, <2>4 DEF LoadState
<1>4. ASSUME NEW saved \in SaveOutcomes, SaveSeed(saved) PROVE DeployInv'
  BY <1>4 DEF SaveSeed, SeedStored, Save, Exit, agentVars, ServerPhases, StateInHand,
              PromisedIsStored
<1>5. ASSUME NEW saved \in SaveOutcomes, NEW p \in People, Register(p, saved)
      PROVE  DeployInv'
  <2>1. memory' \in State /\ memory'.accounts = memory.accounts \cup {p}
    BY <1>0, <1>5 DEF Register, State
  <2>2. promised \subseteq memory.accounts
    BY <1>5 DEF Register, StateInHand, PromisedIsStored
  <2> QED BY <1>5, <2>1, <2>2, RequestKeeps DEF Register, Save, agentVars
<1>6. ASSUME NEW saved \in SaveOutcomes, NEW n \in Nodes,
             AgentBootstraps(n, saved) \/ Heartbeat(n, saved)
      PROVE  DeployInv'
  <2>1. PutOnline(n, saved)  BY <1>6 DEF AgentBootstraps, Heartbeat
  <2>2. memory' \in State /\ memory'.accounts = memory.accounts
    BY <1>0, <2>1, NodeStatusKept DEF PutOnline
  <2>3. agents' \in [Nodes -> AgentPhases] /\ enlisted' \subseteq Nodes
    BY <1>6 DEF AgentBootstraps, Heartbeat, AgentGoesOn, AgentPhases
  <2> QED BY <2>1, <2>2, <2>3, RequestKeeps DEF PutOnline, Save
<1>7. ASSUME NEW saved \in SaveOutcomes, NEW n \in Nodes, ReportOffline(n, saved)
      PROVE  DeployInv'
  <2>1. memory' \in State /\ memory'.accounts = memory.accounts
    BY <1>0, <1>7, NodeStatusKept DEF ReportOffline
  <2> QED BY <1>7, <2>1, RequestKeeps DEF ReportOffline, Save, agentVars
<1>8. ASSUME NEW n \in Nodes,
             AgentStarts(n) \/ BootstrapFails(n) \/ HeartbeatFails(n) \/ AgentStopped(n)
      PROVE  DeployInv'
  <2>1. agents' \in [Nodes -> AgentPhases] /\ enlisted' \subseteq Nodes
    BY <1>8 DEF AgentStarts, BootstrapFails, HeartbeatFails, AgentStopped,
                AgentGoesOn, AgentPhases
  <2>2. UNCHANGED <<server, memory, row, database, promised>>
    BY <1>8 DEF AgentStarts, BootstrapFails, HeartbeatFails, AgentStopped
  <2> QED BY <2>1, <2>2 DEF StateInHand, PromisedIsStored
<1> QED BY <1>1, <1>2, <1>3, <1>4, <1>5, <1>6, <1>7, <1>8 DEF DeployNext

LEMMA DeployAlways == DeploySpec => []DeployInv
<1> QED BY DeployInitially, DeployStep, PTL DEF DeploySpec

-----------------------------------------------------------------------------
(* Nothing that was answered with success is ever replaced by the seed or by *)
(* an older state: NewService, saveLocked.                                   *)
THEOREM AnsweredIsStored == DeploySpec => []PromisedIsStored
<1>1. DeployInv => PromisedIsStored  BY DEF DeployInv
<1> QED BY <1>1, DeployAlways, PTL

(* Requests are only taken on top of what is stored: NewService, applySnapshot. *)
THEOREM ServedStateIsStored == DeploySpec => []ServesWhatIsStored
<1>1. DeployInv => ServesWhatIsStored  BY DEF DeployInv, StateInHand, ServesWhatIsStored
<1> QED BY <1>1, DeployAlways, PTL
=============================================================================
