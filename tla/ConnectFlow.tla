----------------------------- MODULE ConnectFlow ----------------------------
(***************************************************************************)
(* What a client does to connect: it asks for a session with a device, an  *)
(* entitlement and a node out of lists it read earlier, and when that      *)
(* succeeds fetches the profile for them.  Between the two calls the user  *)
(* may unbind or disconnect from elsewhere, nodes come and go, and the     *)
(* server may restart.  With it goes what the answers to this and all other *)
(* clients have promised.                                                  *)
(***************************************************************************)
EXTENDS Access

CONSTANT Client     \* the user whose client this is

VARIABLES
    client,     \* where handleConnect is, what it asked for, its session
    told        \* what answers have promised to anybody: ids of sessions
                \* connected and disconnected, and of devices bound and unbound

flowVars == <<entitlements, devices, sessions, nodes, now, disk, told, client>>

Ready == [phase |-> "ready"]
Holding(s, e, d, n) ==
    [phase |-> "connected", session |-> s, entitlement |-> e, device |-> d, node |-> n]

FlowInit ==
    /\ Init
    /\ client = Ready
    /\ told = [connected |-> {}, disconnected |-> {}, bound |-> {}, unbound |-> {}]

(* Mutant: the answer does not depend on the save. *)
TellAlways(saved, kind, id) == told' = [told EXCEPT ![kind] = @ \cup {id}]

(* Clients are only told that a call succeeded when its save did. *)
Tell(saved, kind, id) ==
    told' = IF saved = "ok" THEN [told EXCEPT ![kind] = @ \cup {id}] ELSE told

BindAnswered(u, d, saved) ==
    /\ d \notin told.bound \cup told.unbound
    /\ BindDevice(u, d, saved)
    /\ Tell(saved, "bound", d)

UnbindAnswered(u, d, saved) == UnbindDevice(u, d, saved) /\ Tell(saved, "unbound", d)

ConnectAnswered(u, e, d, n, protocol, s, saved) ==
    Connect(u, e, d, n, protocol, s, saved) /\ Tell(saved, "connected", s)

DisconnectAnswered(u, s, saved) ==
    Disconnect(u, s, saved) /\ Tell(saved, "disconnected", s)

-----------------------------------------------------------------------------
(* Mutant: the request was answered, with an error. *)
AcceptedAnyAnswer(saved, heard) == heard

(* connectSession returns a session only when the server saved it. *)
Accepted(saved, heard) == saved = "ok" /\ heard

ClientConnects(e, d, n, protocol, s, saved, heard) ==
    /\ client.phase \in {"ready", "shown"}
    /\ ConnectAnswered(Client, e, d, n, protocol, s, saved)
    /\ client' = IF Accepted(saved, heard) THEN Holding(s, e, d, n) ELSE Ready

(* GetProfile looks at owners only: neither at the session nor at the term,  *)
(* the limits or the node's status.                                          *)
ProfileServed(u, d, e, n) ==
    /\ d \in DOMAIN devices /\ devices[d] = u
    /\ e \in DOMAIN entitlements /\ entitlements[e].user = u
    /\ n \in Nodes

(* The client asks with what it asked to connect with. *)
ServedNow == ProfileServed(Client, client.device, client.entitlement, client.node)

ClientGetsProfile ==
    /\ client.phase = "connected"
    /\ client' = IF ServedNow THEN [client EXCEPT !.phase = "shown"] ELSE Ready
    /\ UNCHANGED <<vars, told>>

(* The request or its answer is lost: an error is shown, the session stays. *)
ProfileLost ==
    /\ client.phase = "connected"
    /\ client' = Ready
    /\ UNCHANGED <<vars, told>>

(* Everything else goes on beside, this user's other clients included. *)
Elsewhere ==
    /\ UNCHANGED client
    /\ \/ \E saved \in SaveOutcomes, u \in Users :
            \/ \E d \in DeviceIds : BindAnswered(u, d, saved) \/ UnbindAnswered(u, d, saved)
            \/ \E e \in EntIds, d \in DeviceIds, n \in Nodes, protocol \in Protocols,
                  s \in SessionIds : ConnectAnswered(u, e, d, n, protocol, s, saved)
            \/ \E s \in SessionIds : DisconnectAnswered(u, s, saved)
       \/ Unasked /\ UNCHANGED told

FlowNext ==
    \/ \E saved \in SaveOutcomes, heard \in BOOLEAN, e \in EntIds, d \in DeviceIds,
          n \in Nodes, protocol \in Protocols, s \in SessionIds :
          ClientConnects(e, d, n, protocol, s, saved, heard)
    \/ ClientGetsProfile
    \/ ProfileLost
    \/ Elsewhere

FlowSpec == FlowInit /\ [][FlowNext]_flowVars

-----------------------------------------------------------------------------
(* What a client was told is in the database: a device it bound and has not   *)
(* removed, a removal, a session and its end, whatever saves failed before or *)
(* fail later (the answers of BindDevice, UnbindDevice, Connect, Disconnect). *)
AnswersStored ==
    /\ told.bound \cap DOMAIN devices \subseteq DOMAIN disk.devices
    /\ told.unbound \cap DOMAIN disk.devices = {}
    /\ told.connected \subseteq DOMAIN disk.sessions
    /\ \A s \in told.disconnected :
         s \in DOMAIN disk.sessions /\ disk.sessions[s].status = "disconnected"

(* A client that was given a session gets its profile unless the user ended   *)
(* the session in between: neither a restart nor unbinding from another       *)
(* client takes the device or the session away (Connect, UnbindDevice,        *)
(* GetProfile).                                                               *)
ConnectedClientServed ==
    client.phase = "connected" =>
        /\ client.session \in DOMAIN sessions
        /\ sessions[client.session].status = "connected" => ServedNow

(* What a client shows as its session is one the database holds, as connected *)
(* or as ended, from the device, entitlement and node it asked for            *)
(* (handleConnect, onConnect).                                                *)
ShownSessionStored ==
    client.phase # "ready" =>
        /\ client.session \in DOMAIN disk.sessions
        /\ \E status \in {"connected", "disconnected"} :
              disk.sessions[client.session] =
                 [user |-> Client, device |-> client.device, node |-> client.node,
                  entitlement |-> client.entitlement, status |-> status]
=============================================================================
