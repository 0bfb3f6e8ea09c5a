----------------------------- MODULE Deployment -----------------------------
(***************************************************************************)
(* The processes: the server, which opens the database, loads the stored   *)
(* row or seeds an empty one before it listens; the database, which comes  *)
(* and goes; and the agents of the nodes, which bootstrap once and then    *)
(* send heartbeats.  Of the service's state only the nodes' statuses and   *)
(* the accounts are kept, the latter for all records that must last.       *)
(***************************************************************************)
EXTENDS Integers, FiniteSets

CONSTANTS
    Nodes, People,
    Enrolled,       \* nodes whose agents were given the right token
    NoState,        \* no row in the database, nothing in memory
    SaveOutcomes    \* how saving to a database that is up can end

ASSUME DeploymentConstants ==
    /\ Enrolled \subseteq Nodes
    /\ SaveOutcomes \subseteq {"ok", "failed", "unsure"}

VARIABLES
    server,     \* how far the server's main has come
    memory,     \* the service's maps
    row,        \* what the database holds
    database,   \* whether the database answers
    agents,     \* how far each agent's main has come
    enlisted,   \* nodes that bootstrapped and were not stopped since
    promised    \* accounts whose registration was answered with success

deployVars == <<server, memory, row, database, agents, enlisted, promised>>

ServerPhases == {"down", "opened", "seeding", "loaded", "serving"}
AgentPhases == {"stopped", "starting", "running"}

State == [nodes : [Nodes -> {"online", "offline"}], accounts : SUBSET People]

ASSUME NoStateIsNone == NoState \notin State

Seed == [nodes |-> [n \in Nodes |-> "online"], accounts |-> {}]

DeployInit ==
    /\ server = "down"
    /\ memory = NoState
    /\ row = NoState
    /\ database \in {"up", "down"}
    /\ agents = [n \in Nodes |-> "stopped"]
    /\ enlisted = {}
    /\ promised = {}

-----------------------------------------------------------------------------
(* A database that does not answer fails every save. *)
MayEnd(saved) == database = "up" \/ saved = "failed"

Save(saved, state) ==
    /\ MayEnd(saved)
    /\ row' = IF saved = "failed" THEN row ELSE state

Exit == server' = "down" /\ memory' = NoState

agentVars == <<agents, enlisted>>

(* NewPostgresStore pings and creates its table: without an answer main ends  *)
(* where it began.                                                            *)
OpenStore ==
    /\ server = "down" /\ database = "up"
    /\ server' = "opened"
    /\ UNCHANGED <<memory, row, database, agentVars, promised>>

(* Mutant: any error of Load is taken for an empty database. *)
SeedsOnAnyError == row = NoState \/ database = "down"

(* ErrEmptySnapshot: the database answered, and has no row. *)
IsEmptySnapshot == row = NoState /\ database = "up"

LoadState ==
    /\ server = "opened"
    /\ \/ IsEmptySnapshot /\ server' = "seeding" /\ memory' = Seed
       \/ ~IsEmptySnapshot /\ database = "up" /\ server' = "loaded" /\ memory' = row
       \/ ~IsEmptySnapshot /\ database = "down" /\ Exit
    /\ UNCHANGED <<row, database, agentVars, promised>>

(* Mutant: the error of the first save is not looked at. *)
SeedStoredAnyway(saved) == TRUE

SeedStored(saved) == saved = "ok"

SaveSeed(saved) ==
    /\ server = "seeding"
    /\ Save(saved, memory)
    /\ IF SeedStored(saved) THEN server' = "loaded" /\ UNCHANGED memory ELSE Exit
    /\ UNCHANGED <<database, agentVars, promised>>

Listen ==
    /\ server = "loaded"
    /\ server' = "serving"
    /\ UNCHANGED <<memory, row, database, agentVars, promised>>

(* A crash, or an address that is taken, at any point. *)
Crash ==
    /\ server # "down"
    /\ Exit
    /\ UNCHANGED <<row, database, agentVars, promised>>

DatabaseTurns ==
    /\ database' = IF database = "up" THEN "down" ELSE "up"
    /\ UNCHANGED <<server, memory, row, agentVars, promised>>

-----------------------------------------------------------------------------
(* Any operation that adds a record and answers after its save. *)
Register(p, saved) ==
    /\ server = "serving"
    /\ p \notin memory.accounts
    /\ memory' = [memory EXCEPT !.accounts = @ \cup {p}]
    /\ promised' = IF saved = "ok" THEN promised \cup {p} ELSE promised
    /\ UNCHANGED <<server, database, agentVars>>
    /\ Save(saved, memory')

(* The server's part of both calls an agent makes. *)
PutOnline(n, saved) ==
    /\ server = "serving"
    /\ memory' = [memory EXCEPT !.nodes[n] = "online"]
    /\ UNCHANGED <<server, database, promised>>
    /\ Save(saved, memory')

AgentStarts(n) ==
    /\ agents[n] = "stopped"
    /\ agents' = [agents EXCEPT ![n] = "starting"]
    /\ UNCHANGED <<server, memory, row, database, enlisted, promised>>

(* The agent's first call, answered with success. *)
AgentBootstraps(n, saved) ==
    /\ agents[n] = "starting"
    /\ n \in Enrolled
    /\ PutOnline(n, saved)
    /\ IF saved = "ok"
         THEN /\ agents' = [agents EXCEPT ![n] = "running"]
              /\ enlisted' = enlisted \cup {n}
         ELSE /\ agents' = [agents EXCEPT ![n] = "stopped"]
              /\ UNCHANGED enlisted

(* log.Fatalf: refused, nobody listening, or the call or its answer lost. *)
BootstrapFails(n) ==
    /\ agents[n] = "starting"
    /\ agents' = [agents EXCEPT ![n] = "stopped"]
    /\ UNCHANGED <<server, memory, row, database, enlisted, promised>>

(* Mutant: a heartbeat that fails ends the agent as well. *)
AgentDiesOnError(n, sent) ==
    agents' = IF sent THEN agents ELSE [agents EXCEPT ![n] = "stopped"]

(* The loop goes on whether or not a heartbeat was sent. *)
AgentGoesOn(n, sent) == UNCHANGED agents

Heartbeat(n, saved) ==
    /\ agents[n] = "running"
    /\ PutOnline(n, saved)
    /\ AgentGoesOn(n, saved = "ok")
    /\ UNCHANGED enlisted

HeartbeatFails(n) ==
    /\ agents[n] = "running"
    /\ AgentGoesOn(n, FALSE)
    /\ UNCHANGED <<server, memory, row, database, enlisted, promised>>

(* Its host, or whoever runs it, stops the agent. *)
AgentStopped(n) ==
    /\ agents' = [agents EXCEPT ![n] = "stopped"]
    /\ enlisted' = enlisted \ {n}
    /\ UNCHANGED <<server, memory, row, database, promised>>

(* A heartbeat for n that somebody else sends, with another status. *)
ReportOffline(n, saved) ==
    /\ server = "serving"
    /\ memory' = [memory EXCEPT !.nodes[n] = "offline"]
    /\ UNCHANGED <<server, database, agentVars, promised>>
    /\ Save(saved, memory')

DeployNext ==
    \/ OpenStore \/ LoadState \/ Listen \/ Crash \/ DatabaseTurns
    \/ \E saved \in SaveOutcomes :
        \/ SaveSeed(saved)
        \/ \E p \in People : Register(p, saved)
        \/ \E n \in Nodes : \/ AgentBootstraps(n, saved)
                            \/ Heartbeat(n, saved)
                            \/ ReportOffline(n, saved)
    \/ \E n \in Nodes : \/ AgentStarts(n) \/ BootstrapFails(n)
                        \/ HeartbeatFails(n) \/ AgentStopped(n)

DeploySpec == DeployInit /\ [][DeployNext]_deployVars

(* The agent's ticker never stops, and a heartbeat that reaches a server with *)
(* its database is saved.                                                     *)
FairDeploySpec ==
    DeploySpec /\ \A n \in Nodes : WF_deployVars(Heartbeat(n, "ok"))

-----------------------------------------------------------------------------
(* Each process is at some point of its main, and memory and row hold a whole *)
(* state from the point on where it is loaded or stored.                      *)
DeployTypeOK ==
    /\ server \in ServerPhases
    /\ memory \in State \cup {NoState} /\ row \in State \cup {NoState}
    /\ memory # NoState <=> server \in {"seeding", "loaded", "serving"}
    /\ database \in {"up", "down"}
    /\ agents \in [Nodes -> AgentPhases]
    /\ enlisted \subseteq Nodes /\ promised \subseteq People

(* An account whose registration was answered is in the database for good: no *)
(* start of the server, however its database fails while it starts, puts the  *)
(* seed in the place of what is stored (NewService, PostgresStore.Load).      *)
PromisedIsStored ==
    promised # {} => row # NoState /\ promised \subseteq row.accounts

(* The server only takes requests when the database holds its state, and is   *)
(* never behind it (NewService's first save, applySnapshot).                  *)
ServesWhatIsStored ==
    server = "serving" => row # NoState /\ row.accounts \subseteq memory.accounts

(* Once server and database stay up, a node whose agent bootstrapped and was  *)
(* not stopped is put back online and stored so, again and again, whatever    *)
(* heartbeats failed before or others reported (the agent's loop).            *)
EnlistedComeBack ==
    \A n \in Nodes :
        <>[](server = "serving" /\ database = "up" /\ n \in enlisted)
            => []<>(row # NoState /\ row.nodes[n] = "online")
=============================================================================
