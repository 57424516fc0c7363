----------------------------- MODULE SignalRChat -----------------------------
(***************************************************************************)
(* signalr: clients that make noise (main.ts) and the replicas of the hub    *)
(* Chat (Program.cs).  A client keeps one connection, sends "Echo" over it    *)
(* every thirty seconds, and hears what the hub sends.  The hub says to all   *)
(* when a connection joins or leaves: Clients.All.SendAsync hands the message  *)
(* to Redis or to the Azure service, which forward it later, to each client at *)
(* a moment of its own and in any order; one that is connected at that moment   *)
(* hears it, also when it was not there yet when the message was sent.          *)
(*                                                                          *)
(* The connections are those of the SignalR library and service: a client     *)
(* and a replica learn of a broken one apart from each other; a replica that   *)
(* dies says nothing; one that is shut down gives its connections to another   *)
(* where the Azure service is used and closes them where Redis is.             *)
(***************************************************************************)
EXTENDS Integers, FiniteSets

CONSTANTS Client,
          Server,    \* the replicas of the hub
          Retries,   \* the tries of a reconnect: at once, and after 2, 10, 30 s
          MaxFaults  \* how often something breaks, or a replica is shut down

ASSUME ChatAssumption ==
  /\ IsFiniteSet(Client) /\ IsFiniteSet(Server)
  /\ Retries \in Nat \ {0} /\ MaxFaults \in Nat

VARIABLES
  azure,   \* whether the Azure service connects the replicas, or Redis
  state,   \* the state of the connection as the client has it
  tries,   \* the tries of the reconnect that failed
  noise,   \* where start and noise of the client are: it is connecting, the next
           \* call of noise is due, or an invoke is out
  told,    \* joins less leaves that it was sent over this connection
  base,    \* how many were in the chat when the connection was made, less what
           \* was then still under way to its client
  flight,  \* joins and leaves under way to each client
  dismissed, \* clients the hub has closed and told not to connect again
  conn,    \* the connections of the hub, by number
  server,  \* the state of a replica
  lost,    \* joins that were said and whose leave will never be
  faults

vars == <<azure, state, tries, noise, told, base, flight, dismissed, conn,
          server, lost, faults>>

clientVars == <<state, tries, noise>>
chatVars == <<told, base, flight, dismissed, conn, lost, azure>>

----------------------------------------------------------------------------
(* A connection is cut when the client no longer holds it.  joined says that   *)
(* OnConnectedAsync has run for it.                                            *)
Conn == 1 .. (Cardinality(Client) + MaxFaults)
NoMessage == [joined |-> 0, left |-> 0]
Free == [client |-> "none", server |-> "none", joined |-> FALSE, cut |-> TRUE]

TypeOK ==
  /\ azure \in BOOLEAN
  /\ state \in [Client -> {"Disconnected", "Connected", "Reconnecting"}]
  /\ tries \in [Client -> 0 .. Retries]
  /\ noise \in [Client -> {"starting", "due", "invoking"}]
  /\ told \in [Client -> Int]
  /\ base \in [Client -> Int]
  /\ flight \in [Client -> [joined : Nat, left : Nat]]
  /\ dismissed \subseteq Client
  /\ conn \in [Conn -> [client : Client, server : Server,
                        joined : BOOLEAN, cut : BOOLEAN] \cup {Free}]
  /\ server \in [Server -> {"up", "stopping", "down"}]
  /\ lost \in Nat
  /\ faults \in 0 .. MaxFaults

Init ==
  /\ azure \in BOOLEAN
  /\ state = [c \in Client |-> "Disconnected"]
  /\ tries = [c \in Client |-> 0]
  /\ noise = [c \in Client |-> "starting"]
  /\ told = [c \in Client |-> 0]
  /\ base = [c \in Client |-> 0]
  /\ flight = [c \in Client |-> NoMessage]
  /\ dismissed = {}
  /\ conn = [i \in Conn |-> Free]
  /\ server = [s \in Server |-> "up"]
  /\ lost = 0
  /\ faults = 0

Of(c) == {i \in Conn : conn[i].client = c /\ ~conn[i].cut}
On(s) == {i \in Conn : conn[i].server = s}
Joined == {i \in Conn : conn[i].joined}
InChat == Cardinality(Joined) + lost
UnderWay(c) == flight[c].joined - flight[c].left

Fault ==
  /\ faults < MaxFaults
  /\ faults' = faults + 1

----------------------------------------------------------------------------
(* The client: start, then noise every thirty seconds, whatever fails.         *)

(* A connection of c to replica s: its messages begin with it. *)
Accepted(c, s) ==
  /\ server[s] = "up"
  /\ \E i \in Conn :
       /\ conn[i] = Free /\ \A j \in 1 .. (i - 1) : conn[j] # Free
       /\ conn' = [conn EXCEPT ![i] =
                     [client |-> c, server |-> s, joined |-> FALSE, cut |-> FALSE]]
  /\ state' = [state EXCEPT ![c] = "Connected"]
  /\ tries' = [tries EXCEPT ![c] = 0]
  /\ told' = [told EXCEPT ![c] = 0]
  /\ base' = [base EXCEPT ![c] = InChat - UnderWay(c)]
  /\ UNCHANGED <<flight, dismissed, server, lost, faults, azure>>

(* A try to connect fails when no replica is up, and else for a fault. *)
Refused ==
  /\ IF \E s \in Server : server[s] = "up" THEN Fault ELSE UNCHANGED faults
  /\ UNCHANGED <<chatVars, server>>

(* connection.start(): a failure is logged and the noise begins all the same;  *)
(* it is not tried again.                                                      *)
Start(c) ==
  /\ noise[c] = "starting"
  /\ noise' = [noise EXCEPT ![c] = "due"]
  /\ \/ \E s \in Server : Accepted(c, s)
     \/ Refused /\ UNCHANGED <<state, tries>>

(* Mutant: no further try is made when the first one fails.                     *)
TriesOnce(c) ==
  /\ state[c] = "Reconnecting" /\ tries[c] = 0
  /\ \/ \E s \in Server : Accepted(c, s)
     \/ /\ Refused
        /\ tries' = [tries EXCEPT ![c] = @ + 1]
        /\ state' = [state EXCEPT ![c] = IF tries[c] + 1 = Retries THEN "Disconnected" ELSE @]
  /\ UNCHANGED noise

(* withAutomaticReconnect: after the last try the connection stays closed.     *)
Reconnect(c) ==
  /\ state[c] = "Reconnecting"
  /\ \/ \E s \in Server : Accepted(c, s)
     \/ /\ Refused
        /\ tries' = [tries EXCEPT ![c] = @ + 1]
        /\ state' = [state EXCEPT ![c] = IF tries[c] + 1 = Retries THEN "Disconnected" ELSE @]
  /\ UNCHANGED noise

(* noise, called by start and then by its timer: invoke is sent over a         *)
(* connection that is open and rejected at once over one that is not; the       *)
(* error is caught and the timer set.                                           *)
Noise(c) ==
  /\ noise[c] = "due"
  /\ noise' = [noise EXCEPT ![c] = IF state[c] = "Connected" THEN "invoking" ELSE "due"]
  /\ UNCHANGED <<state, tries, chatVars, server, faults>>

(* The client sees that its connection is gone, or closed by the hub, which     *)
(* then says that it shall not connect again (if that arrives).  The invoke it   *)
(* waits for is rejected; that, too, is caught.                                 *)
Closed(c) ==
  /\ state[c] = "Connected" /\ Of(c) = {}
  /\ \/ state' = [state EXCEPT ![c] = "Reconnecting"]
     \/ c \in dismissed /\ state' = [state EXCEPT ![c] = "Disconnected"]
  /\ noise' = [noise EXCEPT ![c] = IF @ = "invoking" THEN "due" ELSE @]
  /\ dismissed' = dismissed \ {c}
  /\ told' = [told EXCEPT ![c] = 0]
  /\ base' = [base EXCEPT ![c] = 0]
  /\ UNCHANGED <<tries, flight, conn, server, lost, faults, azure>>

----------------------------------------------------------------------------
(* The hub.                                                                    *)

(* Clients.All.SendAsync: one more message is under way to each client.         *)
All(kind) == flight' = [c \in Client |-> [flight[c] EXCEPT ![kind] = @ + 1]]

(* It arrives at a client that is connected, and else nowhere.                  *)
Deliver(c, kind) ==
  /\ flight[c][kind] > 0
  /\ flight' = [flight EXCEPT ![c][kind] = @ - 1]
  /\ told' = [told EXCEPT ![c] =
                IF Of(c) = {} THEN @ ELSE @ + (IF kind = "joined" THEN 1 ELSE -1)]
  /\ UNCHANGED <<clientVars, base, dismissed, conn, server, lost, faults, azure>>

(* OnConnectedAsync, also of a connection that is broken by now. *)
Entering(i) ==
  conn[i] # Free /\ ~conn[i].joined /\ server[conn[i].server] # "down"

OnConnectedAsync(i) ==
  /\ Entering(i)
  /\ conn' = [conn EXCEPT ![i].joined = TRUE]
  /\ All("joined")
  /\ UNCHANGED <<clientVars, told, base, dismissed, server, lost, faults, azure>>

(* SendAsync throws, the message sent or not: the hub closes the connection,    *)
(* tells the client not to reconnect, and OnDisconnectedAsync does not run.      *)
OnConnectedThrows(i) ==
  /\ Entering(i)
  /\ Fault
  /\ \/ All("joined") /\ lost' = lost + 1
     \/ UNCHANGED <<flight, lost>>
  /\ conn' = [conn EXCEPT ![i] = Free]
  /\ dismissed' = IF conn[i].cut THEN dismissed ELSE dismissed \cup {conn[i].client}
  /\ UNCHANGED <<clientVars, told, base, server, azure>>

(* OnDisconnectedAsync of a connection that has joined; an exception of         *)
(* SendAsync is logged, and nobody is told.                                     *)
SaysLeft ==
  \/ All("left") /\ UNCHANGED <<lost, faults>>
  \/ Fault /\ lost' = lost + 1 /\ UNCHANGED flight

Leave(i) ==
  /\ conn[i] # Free /\ conn[i].joined
  /\ conn' = [conn EXCEPT ![i] = Free]

(* Mutant: nobody is told that a connection left.                               *)
DisconnectedQuiet(i) ==
  /\ Leave(i) /\ conn[i].cut
  /\ UNCHANGED <<clientVars, told, base, flight, dismissed, server, lost, faults,
                 azure>>

(* The replica sees that a connection is broken. *)
Disconnected(i) ==
  /\ Leave(i) /\ conn[i].cut
  /\ SaysLeft
  /\ UNCHANGED <<clientVars, told, base, dismissed, server, azure>>

(* MigrateClients: the replica that stops says that the connection leaves, the *)
(* one that takes it over that it joins; the client notices nothing.           *)
Migrate(i) ==
  /\ azure /\ conn[i].joined /\ ~conn[i].cut
  /\ server[conn[i].server] = "stopping"
  /\ \E s \in Server :
       /\ server[s] = "up"
       /\ conn' = [conn EXCEPT ![i].server = s, ![i].joined = FALSE]
  /\ SaysLeft
  /\ UNCHANGED <<clientVars, told, base, dismissed, server, azure>>

(* Where there is nothing to migrate to the connection is closed. *)
Close(i) ==
  /\ Leave(i) /\ ~conn[i].cut
  /\ server[conn[i].server] = "stopping"
  /\ ~azure \/ \A s \in Server : server[s] # "up"
  /\ SaysLeft
  /\ UNCHANGED <<clientVars, told, base, dismissed, server, azure>>

(* Echo answers the caller alone, and then invoke is completed; a connection  *)
(* is served once it has joined.                                               *)
Echo(c) ==
  /\ noise[c] = "invoking" /\ state[c] = "Connected"
  /\ \E i \in Of(c) : conn[i].joined
  /\ noise' = [noise EXCEPT ![c] = "due"]
  /\ UNCHANGED <<state, tries, chatVars, server, faults>>

----------------------------------------------------------------------------
(* What happens to connections and replicas.                                   *)
Drop(i) ==
  /\ Fault
  /\ conn[i] # Free /\ ~conn[i].cut
  /\ conn' = [conn EXCEPT ![i].cut = TRUE]
  /\ UNCHANGED <<clientVars, told, base, flight, dismissed, server, lost, azure>>

(* A replica dies: OnDisconnectedAsync runs for none of its connections. *)
Crash(s) ==
  /\ Fault
  /\ server[s] # "down"
  /\ server' = [server EXCEPT ![s] = "down"]
  /\ lost' = lost + Cardinality(On(s) \cap Joined)
  /\ conn' = [i \in Conn |-> IF i \in On(s) THEN Free ELSE conn[i]]
  /\ UNCHANGED <<clientVars, told, base, flight, dismissed, azure>>

Stop(s) ==
  /\ Fault
  /\ server[s] = "up"
  /\ server' = [server EXCEPT ![s] = "stopping"]
  /\ UNCHANGED <<clientVars, chatVars>>

Stopped(s) ==
  /\ server[s] = "stopping" /\ On(s) = {}
  /\ server' = [server EXCEPT ![s] = "down"]
  /\ UNCHANGED <<clientVars, chatVars, faults>>

Restart(s) ==
  /\ server[s] = "down"
  /\ server' = [server EXCEPT ![s] = "up"]
  /\ UNCHANGED <<clientVars, chatVars, faults>>

Next ==
  \/ \E c \in Client : Start(c) \/ Reconnect(c) \/ Noise(c) \/ Closed(c) \/ Echo(c)
                      \/ Deliver(c, "joined") \/ Deliver(c, "left")
  \/ \E i \in Conn : OnConnectedAsync(i) \/ OnConnectedThrows(i) \/ Disconnected(i) \/ Migrate(i)
                     \/ Close(i) \/ Drop(i)
  \/ \E s \in Server : Crash(s) \/ Stop(s) \/ Stopped(s) \/ Restart(s)

Spec == Init /\ [][Next]_vars

(* Timers fire, tries end, handlers run; nothing has to break or to come back.  *)
Fairness ==
  /\ \A c \in Client :
       /\ WF_vars(Start(c)) /\ WF_vars(Reconnect(c))
       /\ WF_vars(Noise(c)) /\ WF_vars(Closed(c)) /\ WF_vars(Echo(c))
  /\ \A i \in Conn :
       /\ WF_vars(OnConnectedAsync(i))
       /\ WF_vars(Disconnected(i) \/ Migrate(i) \/ Close(i))

FairSpec == Spec /\ Fairness

----------------------------------------------------------------------------
(* What a client is told adds up.  The joins less the leaves that it was sent    *)
(* since it was connected, and those still under way to it, are by how many the   *)
(* chat has grown since, plus what was under way when it connected: that arrives   *)
(* too, and counts for it a second time for good.  So it is through broken         *)
(* connections that the hub still holds, migrations and reconnects.  Who died      *)
(* with a replica, or whose leave could not be said, is in the chat for ever.       *)
RosterAddsUp ==
  \A c \in Client :
    Of(c) # {} => told[c] + UnderWay(c) = InChat - base[c]

(* No client falls silent by itself: its loop goes round for ever, and it hears  *)
(* its echo again and again, through crashes, migrations and lost connections,   *)
(* unless its connection was given up: not made at the start, not made again     *)
(* within the tries of a reconnect, or closed by the hub when it joined.          *)
GivenUp(c) == state[c] = "Disconnected" /\ noise[c] # "starting"
Echoed(c) == noise[c] = "invoking" /\ noise'[c] = "due" /\ state'[c] = "Connected"

KeepsTalking ==
  \A c \in Client :
    /\ []<>(noise[c] = "due")
    /\ []<><<Echoed(c)>>_vars \/ <>[]GivenUp(c)

----------------------------------------------------------------------------
(* The inductive invariant: a connection that is there was never tried in vain   *)
(* too often, and what its client was told adds up.                              *)
TriesLeft ==
  \A c \in Client :
    /\ state[c] = "Connected" => tries[c] = 0
    /\ state[c] = "Reconnecting" => tries[c] < Retries

IInv == TypeOK /\ TriesLeft /\ RosterAddsUp

=============================================================================
