-------------------------- MODULE SignalRChatProofs --------------------------
(***************************************************************************)
(* Proofs about SignalRChat: its types, and that what a client is told, with    *)
(* what is under way to it, adds up, for any number of clients, replicas, tries *)
(* and faults.                                                                 *)
(***************************************************************************)
EXTENDS SignalRChat, FiniteSetTheorems, TLAPS

Connections ==
  [client : Client, server : Server, joined : BOOLEAN, cut : BOOLEAN] \cup {Free}

LEMMA FreeFields == Free.joined = FALSE /\ Free.cut = TRUE
  BY DEF Free

LEMMA ConnFinite == IsFiniteSet(Conn) /\ \A S \in SUBSET Conn : /\ IsFiniteSet(S)
                                                              /\ Cardinality(S) \in Nat
  <1>1. Cardinality(Client) + MaxFaults \in Nat
    BY ChatAssumption, FS_CardinalityType
  <1>2. IsFiniteSet(Conn)
    BY <1>1, FS_Interval DEF Conn
  <1>3. QED
    BY <1>2, FS_Subset, FS_CardinalityType

(* The chat as a function of its connections. *)
JoinedIn(f) == {i \in Conn : f[i].joined}
OfIn(f, c) == {i \in Conn : f[i].client = c /\ ~f[i].cut}

(* One connection changes: the chat grows, shrinks or stays. *)
LEMMA OneChanges ==
  ASSUME NEW f, NEW g, NEW i \in Conn,
         \A j \in Conn \ {i} : g[j] = f[j], f[i].joined \in BOOLEAN, g[i].joined \in BOOLEAN
  PROVE  Cardinality(JoinedIn(g)) =
           Cardinality(JoinedIn(f)) + (IF g[i].joined THEN 1 ELSE 0)
                                    - (IF f[i].joined THEN 1 ELSE 0)
  <1> DEFINE rest == JoinedIn(f) \ {i}
  <1>1. /\ IsFiniteSet(JoinedIn(f)) /\ IsFiniteSet(JoinedIn(g)) /\ IsFiniteSet(rest)
        /\ Cardinality(rest) \in Nat
    BY ConnFinite DEF JoinedIn
  <1>2. JoinedIn(f) = IF f[i].joined THEN rest \cup {i} ELSE rest
    BY DEF JoinedIn
  <1>3. JoinedIn(g) = IF g[i].joined THEN rest \cup {i} ELSE rest
    BY DEF JoinedIn
  <1>4. i \notin rest
    OBVIOUS
  <1> HIDE DEF rest
  <1>5. Cardinality(rest \cup {i}) = Cardinality(rest) + 1
    BY <1>1, <1>4, FS_AddElement
  <1>6. QED
    BY <1>1, <1>2, <1>3, <1>5

LEMMA InChatIs == InChat = Cardinality(JoinedIn(conn)) + lost
                  /\ \A c : Of(c) = OfIn(conn, c)
  BY DEF InChat, Joined, JoinedIn, Of, OfIn

LEMMA UnderWayType == TypeOK => \A c \in Client : UnderWay(c) \in Int
  BY DEF TypeOK, UnderWay

LEMMA InChatType == TypeOK => InChat \in Int
  <1>1. Joined \in SUBSET Conn
    BY DEF Joined
  <1>2. QED
    BY <1>1, ConnFinite DEF InChat, TypeOK

----------------------------------------------------------------------------
(* What all connections are told, or will be, is by how many the chat grows.     *)
LEMMA RosterKept ==
  ASSUME TypeOK, TypeOK', RosterAddsUp, NEW n \in Int, InChat' = InChat + n, base' = base,
         \A c \in Client : /\ Of(c)' \subseteq Of(c)
                           /\ Of(c)' # {} =>
                                told'[c] + UnderWay(c)' = told[c] + UnderWay(c) + n
  PROVE  RosterAddsUp'
  <1> SUFFICES ASSUME NEW c \in Client, Of(c)' # {}
               PROVE  told'[c] + UnderWay(c)' = InChat' - base'[c]
    BY DEF RosterAddsUp
  <1>1. told[c] + UnderWay(c) = InChat - base[c]
    BY DEF RosterAddsUp
  <1>2. told[c] \in Int /\ base[c] \in Int /\ InChat \in Int /\ UnderWay(c) \in Int
    BY InChatType, UnderWayType DEF TypeOK
  <1>3. told'[c] + UnderWay(c)' = told[c] + UnderWay(c) + n
    OBVIOUS
  <1>4. base'[c] = base[c]
    OBVIOUS
  <1> DEFINE heard == told'[c] + UnderWay(c)'
  <1>5. heard = InChat' - base[c]
    BY <1>1, <1>2, <1>3
  <1>6. QED
    BY <1>4, <1>5

(* One connection of the hub changes: it may join, leave or move; the chat grows  *)
(* by it and by those whose leave will never be said.                             *)
Changes(i, x, n) ==
  /\ conn' = [conn EXCEPT ![i] = x]
  /\ x.cut \/ (x.client = conn[i].client /\ ~conn[i].cut)
  /\ lost' \in Nat
  /\ n = (IF x.joined THEN 1 ELSE 0) - (IF conn[i].joined THEN 1 ELSE 0) + (lost' - lost)
  /\ flight' \in [Client -> [joined : Nat, left : Nat]]
  /\ \A c \in Client : UnderWay(c)' = UnderWay(c) + n
  /\ dismissed' \subseteq Client
  /\ UNCHANGED <<clientVars, told, base, azure>>
  /\ server' \in [Server -> {"up", "stopping", "down"}]
  /\ faults' \in 0 .. MaxFaults

LEMMA ConnStep ==
  ASSUME IInv, NEW i \in Conn, NEW x \in Connections, NEW n \in Int, Changes(i, x, n)
  PROVE  IInv'
  <1>0. /\ conn' = [conn EXCEPT ![i] = x]
        /\ x.cut \/ (x.client = conn[i].client /\ ~conn[i].cut)
        /\ lost' \in Nat
        /\ n = (IF x.joined THEN 1 ELSE 0) - (IF conn[i].joined THEN 1 ELSE 0)
                 + (lost' - lost)
        /\ flight' \in [Client -> [joined : Nat, left : Nat]]
        /\ \A c \in Client : UnderWay(c)' = UnderWay(c) + n
        /\ dismissed' \subseteq Client
        /\ UNCHANGED <<clientVars, told, base, azure>>
        /\ server' \in [Server -> {"up", "stopping", "down"}]
        /\ faults' \in 0 .. MaxFaults
    BY DEF Changes
  <1>1. /\ TypeOK /\ TriesLeft /\ RosterAddsUp /\ conn \in [Conn -> Connections]
        /\ lost \in Nat
    BY DEF IInv, TypeOK, Connections
  <1>2. conn' \in [Conn -> Connections] /\ conn'[i] = x /\ \A j \in Conn \ {i} : conn'[j] = conn[j]
    BY <1>0, <1>1
  <1>3. TypeOK'
    BY <1>0, <1>1, <1>2 DEF TypeOK, Connections, clientVars
  <1>4. TriesLeft'
    BY <1>0, <1>1 DEF TriesLeft, clientVars
  <1>5. conn[i].joined \in BOOLEAN /\ x.joined \in BOOLEAN
    BY <1>1, FreeFields DEF Connections
  <1>6. Cardinality(JoinedIn(conn')) = Cardinality(JoinedIn(conn)) + n - (lost' - lost)
    <2>1. Cardinality(JoinedIn(conn')) =
            Cardinality(JoinedIn(conn)) + (IF conn'[i].joined THEN 1 ELSE 0)
                                        - (IF conn[i].joined THEN 1 ELSE 0)
      <3> DEFINE f == conn
      <3> DEFINE g == conn'
      <3>1. /\ \A j \in Conn \ {i} : g[j] = f[j]
            /\ f[i].joined \in BOOLEAN /\ g[i].joined \in BOOLEAN
        BY <1>2, <1>5
      <3> HIDE DEF f, g
      <3>2. Cardinality(JoinedIn(g)) =
              Cardinality(JoinedIn(f)) + (IF g[i].joined THEN 1 ELSE 0)
                                       - (IF f[i].joined THEN 1 ELSE 0)
        BY <3>1, OneChanges
      <3>3. QED
        BY <3>2 DEF f, g
    <2>2. Cardinality(JoinedIn(conn)) \in Nat
      BY ConnFinite DEF JoinedIn
    <2>3. QED
      BY <1>0, <1>1, <1>2, <1>5, <2>1, <2>2
  <1>7. InChat' = InChat + n
    <2>1. InChat' = Cardinality(JoinedIn(conn')) + lost'
      BY DEF InChat, Joined, JoinedIn
    <2>2. Cardinality(JoinedIn(conn)) \in Nat
      BY ConnFinite DEF JoinedIn
    <2>3. QED
      BY <1>0, <1>1, <1>6, <2>1, <2>2, InChatIs
  <1>8. \A c \in Client : Of(c)' \subseteq Of(c)
    BY <1>0, <1>1, <1>2 DEF Of
  <1>9. RosterAddsUp'
    <2>1. \A c \in Client : told'[c] + UnderWay(c)' = told[c] + UnderWay(c) + n
      <3> TAKE c \in Client
      <3>1. told'[c] = told[c] /\ told[c] \in Int /\ UnderWay(c) \in Int
        BY <1>0, <1>1, UnderWayType DEF TypeOK
      <3>2. UnderWay(c)' = UnderWay(c) + n
        BY <1>0
      <3>3. QED
        BY <3>1, <3>2
    <2>2. QED
      BY <1>0, <1>1, <1>3, <1>7, <1>8, <2>1, RosterKept
  <1>10. QED
    BY <1>3, <1>4, <1>9 DEF IInv

LEMMA FaultType == TypeOK /\ Fault => faults' \in 0 .. MaxFaults
  BY ChatAssumption DEF TypeOK, Fault

(* A message is under way to every client. *)
LEMMA AllSaid ==
  ASSUME TypeOK, NEW kind \in {"joined", "left"}, All(kind)
  PROVE  /\ flight' \in [Client -> [joined : Nat, left : Nat]]
         /\ \A c \in Client :
              UnderWay(c)' = UnderWay(c) + (IF kind = "joined" THEN 1 ELSE -1)
  <1>1. \A c \in Client : /\ flight[c] \in [joined : Nat, left : Nat]
                          /\ flight'[c] = [flight[c] EXCEPT ![kind] = @ + 1]
    BY DEF TypeOK, All
  <1>2. CASE kind = "joined"
    BY <1>1, <1>2 DEF All, UnderWay
  <1>3. CASE kind = "left"
    BY <1>1, <1>3 DEF All, UnderWay
  <1>4. QED
    BY <1>2, <1>3

(* A leave is said, or one more is in the chat for ever. *)
LEMMA LeftSaid ==
  ASSUME TypeOK, SaysLeft
  PROVE  /\ flight' \in [Client -> [joined : Nat, left : Nat]]
         /\ lost' \in Nat /\ faults' \in 0 .. MaxFaults
         /\ \A c \in Client : UnderWay(c)' = UnderWay(c) + (-1 + (lost' - lost))
  <1>1. lost \in Nat /\ \A c \in Client : UnderWay(c) \in Int
    BY UnderWayType DEF TypeOK
  <1>2. CASE All("left") /\ UNCHANGED <<lost, faults>>
    <2>1. /\ flight' \in [Client -> [joined : Nat, left : Nat]]
          /\ \A c \in Client : UnderWay(c)' = UnderWay(c) + (-1)
      BY <1>2, AllSaid
    <2>2. lost' - lost = 0
      BY <1>1, <1>2
    <2>3. QED
      BY <1>1, <1>2, <2>1, <2>2 DEF TypeOK
  <1>3. CASE Fault /\ lost' = lost + 1 /\ UNCHANGED flight
    <2>1. /\ lost' - lost = 1 /\ lost' \in Nat
      BY <1>1, <1>3
    <2>2. \A c \in Client : UnderWay(c)' = UnderWay(c)
      BY <1>3 DEF UnderWay
    <2>3. QED
      BY <1>1, <1>3, <2>1, <2>2, FaultType DEF TypeOK
  <1>4. QED
    BY <1>2, <1>3 DEF SaysLeft

LEMMA EnteringConn ==
  ASSUME IInv, NEW i \in Conn, Entering(i)
  PROVE  /\ conn[i] \in [client : Client, server : Server,
                         joined : BOOLEAN, cut : BOOLEAN]
         /\ ~conn[i].joined
  BY DEF IInv, TypeOK, Entering

LEMMA OnConnectedInv ==
  ASSUME IInv, NEW i \in Conn, OnConnectedAsync(i)
  PROVE  IInv'
  <1> DEFINE x == [conn[i] EXCEPT !.joined = TRUE]
  <1>1. /\ TypeOK /\ ~conn[i].joined
        /\ conn[i] \in [client : Client, server : Server, joined : BOOLEAN, cut : BOOLEAN]
        /\ conn' = [conn EXCEPT ![i] = x]
    BY EnteringConn DEF IInv, OnConnectedAsync
  <1>2. /\ x \in Connections /\ x.joined /\ x.client = conn[i].client /\ x.cut = conn[i].cut
        /\ conn[i].cut \in BOOLEAN
    BY <1>1 DEF Connections
  <1> HIDE DEF x
  <1>3. /\ flight' \in [Client -> [joined : Nat, left : Nat]]
        /\ \A c \in Client : UnderWay(c)' = UnderWay(c) + 1
    BY <1>1, AllSaid DEF OnConnectedAsync
  <1>4. /\ UNCHANGED <<clientVars, told, base, dismissed, azure>>
        /\ server' = server /\ faults' = faults /\ lost' = lost
    BY DEF OnConnectedAsync
  <1>5. /\ server' \in [Server -> {"up", "stopping", "down"}] /\ faults' \in 0 .. MaxFaults
        /\ lost' \in Nat /\ lost' - lost = 0 /\ dismissed' \subseteq Client
    BY <1>1, <1>4 DEF TypeOK
  <1>6. 1 = (IF x.joined THEN 1 ELSE 0) - (IF conn[i].joined THEN 1 ELSE 0) + (lost' - lost)
    BY <1>1, <1>2, <1>5
  <1>7. x.cut \/ (x.client = conn[i].client /\ ~conn[i].cut)
    BY <1>2
  <1>8. Changes(i, x, 1)
    BY <1>1, <1>3, <1>4, <1>5, <1>6, <1>7 DEF Changes
  <1>9. QED
    BY <1>2, <1>8, ConnStep

(* A join that fails frees its connection; who was told of it all the same counts *)
(* one more for ever.                                                            *)
LEMMA OnConnectedThrowsInv ==
  ASSUME IInv, NEW i \in Conn, OnConnectedThrows(i)
  PROVE  IInv'
  <1> DEFINE n == lost' - lost
  <1>1. /\ TypeOK /\ ~conn[i].joined
        /\ conn[i] \in [client : Client, server : Server, joined : BOOLEAN, cut : BOOLEAN]
        /\ conn' = [conn EXCEPT ![i] = Free] /\ lost \in Nat
    BY EnteringConn DEF IInv, TypeOK, OnConnectedThrows
  <1>2. /\ flight' \in [Client -> [joined : Nat, left : Nat]]
        /\ lost' \in Nat /\ n \in Int
        /\ \A c \in Client : UnderWay(c)' = UnderWay(c) + n
    <2>1. \A c \in Client : UnderWay(c) \in Int
      BY <1>1, UnderWayType
    <2>2. CASE All("joined") /\ lost' = lost + 1
      <3>1. n = 1 /\ lost' \in Nat
        BY <1>1, <2>2
      <3>2. /\ flight' \in [Client -> [joined : Nat, left : Nat]]
            /\ \A c \in Client : UnderWay(c)' = UnderWay(c) + 1
        BY <1>1, <2>2, AllSaid
      <3>3. QED
        BY <3>1, <3>2
    <2>3. CASE UNCHANGED <<flight, lost>>
      <3>1. n = 0 /\ lost' \in Nat
        BY <1>1, <2>3
      <3>2. \A c \in Client : UnderWay(c)' = UnderWay(c)
        BY <2>3 DEF UnderWay
      <3>3. QED
        BY <1>1, <2>1, <2>3, <3>1, <3>2 DEF TypeOK
    <2>4. QED
      BY <2>2, <2>3 DEF OnConnectedThrows
  <1>3. UNCHANGED <<clientVars, told, base, azure>> /\ server' = server
    BY DEF OnConnectedThrows
  <1>4. /\ server' \in [Server -> {"up", "stopping", "down"}] /\ faults' \in 0 .. MaxFaults
        /\ dismissed' \subseteq Client
    BY <1>1, <1>3, FaultType DEF TypeOK, OnConnectedThrows
  <1>5. n = (IF Free.joined THEN 1 ELSE 0) - (IF conn[i].joined THEN 1 ELSE 0) + (lost' - lost)
    BY <1>1, <1>2, FreeFields
  <1>6. Changes(i, Free, n)
    BY <1>1, <1>2, <1>3, <1>4, <1>5, FreeFields DEF Changes
  <1>7. Free \in Connections
    BY DEF Connections
  <1> HIDE DEF n
  <1>8. QED
    BY <1>2, <1>6, <1>7, ConnStep

LEMMA LeavesInv ==
  ASSUME IInv, NEW i \in Conn, Leave(i), SaysLeft,
         UNCHANGED <<clientVars, told, base, dismissed, server, azure>>
  PROVE  IInv'
  <1> DEFINE n == -1 + (lost' - lost)
  <1>1. /\ TypeOK /\ conn[i].joined /\ conn' = [conn EXCEPT ![i] = Free] /\ lost \in Nat
    BY DEF IInv, TypeOK, Leave
  <1>2. /\ flight' \in [Client -> [joined : Nat, left : Nat]]
        /\ lost' \in Nat /\ faults' \in 0 .. MaxFaults
        /\ \A c \in Client : UnderWay(c)' = UnderWay(c) + n
    BY <1>1, LeftSaid
  <1>3. n \in Int
    BY <1>1, <1>2
  <1>4. /\ server' \in [Server -> {"up", "stopping", "down"}]
        /\ dismissed' \subseteq Client
    BY <1>1 DEF TypeOK
  <1>5. n = (IF Free.joined THEN 1 ELSE 0) - (IF conn[i].joined THEN 1 ELSE 0) + (lost' - lost)
    BY <1>1, <1>2, FreeFields
  <1>6. Changes(i, Free, n)
    BY <1>1, <1>2, <1>4, <1>5, FreeFields DEF Changes
  <1>7. Free \in Connections
    BY DEF Connections
  <1> HIDE DEF n
  <1>8. QED
    BY <1>3, <1>6, <1>7, ConnStep

LEMMA MigrateInv ==
  ASSUME IInv, NEW i \in Conn, Migrate(i)
  PROVE  IInv'
  <1>1. PICK s \in Server : conn' = [conn EXCEPT ![i].server = s, ![i].joined = FALSE]
    BY DEF Migrate
  <1> DEFINE x == [conn[i] EXCEPT !.server = s, !.joined = FALSE]
             n == -1 + (lost' - lost)
  <1>2. /\ TypeOK /\ conn \in [Conn -> Connections] /\ conn[i] \in Connections
        /\ conn[i].joined /\ ~conn[i].cut /\ lost \in Nat
    BY DEF IInv, TypeOK, Connections, Migrate
  <1>3. conn[i] # Free
    BY <1>2, FreeFields
  <1>4. conn' = [conn EXCEPT ![i] = x]
    BY <1>1, <1>2
  <1>5. x \in Connections /\ ~x.joined /\ x.client = conn[i].client /\ ~x.cut
    BY <1>2, <1>3 DEF Connections
  <1> HIDE DEF x
  <1>6. SaysLeft /\ UNCHANGED <<clientVars, told, base, dismissed, server, azure>>
    BY DEF Migrate
  <1>7. /\ flight' \in [Client -> [joined : Nat, left : Nat]]
        /\ lost' \in Nat /\ faults' \in 0 .. MaxFaults
        /\ \A c \in Client : UnderWay(c)' = UnderWay(c) + n
    BY <1>2, <1>6, LeftSaid
  <1>8. n \in Int
    BY <1>2, <1>7
  <1>9. /\ server' \in [Server -> {"up", "stopping", "down"}]
        /\ dismissed' \subseteq Client
    BY <1>2, <1>6 DEF TypeOK
  <1>10. n = (IF x.joined THEN 1 ELSE 0) - (IF conn[i].joined THEN 1 ELSE 0) + (lost' - lost)
    BY <1>2, <1>5, <1>7
  <1>11. Changes(i, x, n)
    BY <1>2, <1>4, <1>5, <1>6, <1>7, <1>9, <1>10 DEF Changes
  <1> HIDE DEF n
  <1>12. QED
    BY <1>5, <1>8, <1>11, ConnStep

LEMMA DropInv ==
  ASSUME IInv, NEW i \in Conn, Drop(i)
  PROVE  IInv'
  <1> DEFINE x == [conn[i] EXCEPT !.cut = TRUE]
  <1>1. /\ TypeOK /\ conn[i] \in Connections /\ conn[i] # Free
        /\ conn' = [conn EXCEPT ![i] = x]
    BY DEF IInv, TypeOK, Connections, Drop
  <1>2. x \in Connections /\ x.joined = conn[i].joined /\ x.cut
    BY <1>1 DEF Connections
  <1> HIDE DEF x
  <1>3. UNCHANGED <<clientVars, told, base, flight, dismissed, server, lost, azure>>
    BY DEF Drop
  <1>4. \A c \in Client : UnderWay(c)' = UnderWay(c) + 0
    BY <1>1, <1>3, UnderWayType DEF UnderWay
  <1>5. /\ flight' \in [Client -> [joined : Nat, left : Nat]] /\ dismissed' \subseteq Client
        /\ lost' \in Nat /\ lost' - lost = 0
    BY <1>1, <1>3 DEF TypeOK
  <1>6. server' \in [Server -> {"up", "stopping", "down"}] /\ faults' \in 0 .. MaxFaults
    BY <1>1, <1>3, FaultType DEF TypeOK, Drop
  <1>7. 0 = (IF x.joined THEN 1 ELSE 0) - (IF conn[i].joined THEN 1 ELSE 0) + (lost' - lost)
    BY <1>2, <1>5
  <1>8. Changes(i, x, 0)
    BY <1>1, <1>2, <1>3, <1>4, <1>5, <1>6, <1>7 DEF Changes
  <1>9. QED
    BY <1>2, <1>8, ConnStep

(* A replica dies: who had joined stays in the chat. *)
LEMMA CrashInv ==
  ASSUME IInv, NEW s \in Server, Crash(s)
  PROVE  IInv'
  <1> DEFINE died == On(s) \cap Joined
  <1>1. /\ TypeOK /\ TriesLeft /\ RosterAddsUp /\ conn \in [Conn -> Connections] /\ lost \in Nat
    BY DEF IInv, TypeOK, Connections
  <1>2. /\ conn' = [i \in Conn |-> IF i \in On(s) THEN Free ELSE conn[i]]
        /\ lost' = lost + Cardinality(died)
        /\ UNCHANGED <<clientVars, told, base, flight, dismissed, azure>>
        /\ server' = [server EXCEPT ![s] = "down"]
    BY DEF Crash
  <1>3. /\ died \in SUBSET Conn /\ Joined \in SUBSET Conn
        /\ IsFiniteSet(died) /\ IsFiniteSet(Joined) /\ Cardinality(died) \in Nat
        /\ IsFiniteSet(Joined \ died) /\ Cardinality(Joined \ died) \in Nat
    <2>1. died \in SUBSET Conn /\ Joined \in SUBSET Conn /\ Joined \ died \in SUBSET Conn
      BY DEF Joined
    <2>2. QED
      BY <2>1, ConnFinite
  <1>4. Joined' = Joined \ died
    BY <1>2, FreeFields DEF Joined
  <1>5. Cardinality(Joined) = Cardinality(Joined \ died) + Cardinality(died)
    <2>1. Joined = (Joined \ died) \cup died /\ (Joined \ died) \cap died = {}
      OBVIOUS
    <2>2. Cardinality((Joined \ died) \cap died) = 0
      BY <2>1, FS_EmptySet
    <2> HIDE DEF died
    <2>3. Cardinality((Joined \ died) \cup died) =
            Cardinality(Joined \ died) + Cardinality(died) - Cardinality((Joined \ died) \cap died)
      BY <1>3, FS_Union
    <2> DEFINE rest == Joined \ died
    <2>4. Cardinality(Joined) = Cardinality(rest \cup died)
      BY <2>1, Zenon
    <2>5. /\ Cardinality(rest) \in Nat /\ Cardinality(died) \in Nat
          /\ Cardinality(rest \cup died) = Cardinality(rest) + Cardinality(died) - 0
      BY <1>3, <2>2, <2>3
    <2> HIDE DEF rest
    <2>6. Cardinality(Joined) = Cardinality(rest) + Cardinality(died)
      BY <2>4, <2>5
    <2>7. QED
      BY <2>6 DEF rest
  <1> HIDE DEF died
  <1>6. InChat' = InChat + 0
    BY <1>1, <1>2, <1>3, <1>4, <1>5 DEF InChat
  <1>7. \A c \in Client : Of(c)' \subseteq Of(c)
    BY <1>2, FreeFields DEF Of
  <1>8. \A c \in Client : told'[c] + UnderWay(c)' = told[c] + UnderWay(c) + 0
    BY <1>1, <1>2, UnderWayType DEF TypeOK, UnderWay
  <1>9. TypeOK' => RosterAddsUp'
    BY <1>1, <1>2, <1>6, <1>7, <1>8, RosterKept
  <1>10. conn' \in [Conn -> Connections]
    BY <1>1, <1>2 DEF Connections
  <1>11. lost' \in Nat /\ faults' \in 0 .. MaxFaults
    BY <1>1, <1>2, <1>3, FaultType DEF Crash
  <1>12. TypeOK'
    BY <1>1, <1>2, <1>10, <1>11 DEF TypeOK, Connections, clientVars
  <1>13. TriesLeft'
    BY <1>1, <1>2 DEF TriesLeft, clientVars
  <1>14. QED
    BY <1>9, <1>12, <1>13 DEF IInv

----------------------------------------------------------------------------
(* The client. *)
LEMMA RosterSame ==
  ASSUME RosterAddsUp, UNCHANGED chatVars
  PROVE  RosterAddsUp'
  BY DEF RosterAddsUp, chatVars, InChat, Joined, Of, UnderWay

LEMMA AcceptedInv ==
  ASSUME IInv, NEW c \in Client, NEW s \in Server, Accepted(c, s),
         noise' \in [Client -> {"starting", "due", "invoking"}]
  PROVE  IInv'
  <1> DEFINE x == [client |-> c, server |-> s, joined |-> FALSE, cut |-> FALSE]
  <1>1. PICK i \in Conn : conn[i] = Free /\ conn' = [conn EXCEPT ![i] = x]
    BY DEF Accepted
  <1>2. /\ TypeOK /\ TriesLeft /\ RosterAddsUp /\ conn \in [Conn -> Connections]
    BY DEF IInv, TypeOK, Connections
  <1>3. x \in Connections /\ x.client = c /\ ~x.joined
    BY DEF Connections
  <1>4. /\ state' = [state EXCEPT ![c] = "Connected"] /\ tries' = [tries EXCEPT ![c] = 0]
        /\ told' = [told EXCEPT ![c] = 0]
        /\ base' = [base EXCEPT ![c] = InChat - UnderWay(c)]
        /\ UNCHANGED <<flight, dismissed, server, lost, faults, azure>>
    BY DEF Accepted
  <1> HIDE DEF x
  <1>5. Joined' = Joined
    BY <1>1, <1>2, <1>3, FreeFields DEF Joined
  <1>6. /\ InChat' = InChat /\ InChat \in Int
        /\ \A d \in Client : UnderWay(d)' = UnderWay(d) /\ UnderWay(d) \in Int
    BY <1>2, <1>4, <1>5, InChatType, UnderWayType DEF InChat, UnderWay
  <1>7. TypeOK'
    <2>1. conn' \in [Conn -> Connections]
      BY <1>1, <1>2, <1>3
    <2>2. 0 \in 0 .. Retries
      BY ChatAssumption
    <2>3. QED
      BY <1>2, <1>4, <1>6, <2>1, <2>2 DEF TypeOK, Connections
  <1>8. TriesLeft'
    BY <1>2, <1>4 DEF TriesLeft, TypeOK
  <1>9. RosterAddsUp'
    <2> SUFFICES ASSUME NEW d \in Client, Of(d)' # {}
                 PROVE  told'[d] + UnderWay(d)' = InChat' - base'[d]
      BY DEF RosterAddsUp
    <2>1. CASE d = c
      BY <1>2, <1>4, <1>6, <2>1 DEF TypeOK
    <2>2. CASE d # c
      <3>1. Of(d)' \subseteq Of(d)
        BY <1>1, <1>2, <1>3, <2>2 DEF Of
      <3>2. told[d] + UnderWay(d) = InChat - base[d]
        BY <1>2, <3>1 DEF RosterAddsUp
      <3>3. QED
        BY <1>2, <1>4, <1>6, <2>2, <3>2 DEF TypeOK
    <2>3. QED
      BY <2>1, <2>2
  <1>10. QED
    BY <1>7, <1>8, <1>9 DEF IInv

LEMMA RefusedType == TypeOK /\ Refused => faults' \in 0 .. MaxFaults
  BY FaultType DEF TypeOK, Refused

LEMMA StartInv ==
  ASSUME IInv, NEW c \in Client, Start(c)
  PROVE  IInv'
  <1>1. noise' \in [Client -> {"starting", "due", "invoking"}]
    BY DEF IInv, TypeOK, Start
  <1>2. CASE \E s \in Server : Accepted(c, s)
    BY <1>1, <1>2, AcceptedInv
  <1>3. CASE Refused /\ UNCHANGED <<state, tries>>
    <2>1. UNCHANGED <<chatVars, server, state, tries>> /\ faults' \in 0 .. MaxFaults
      BY <1>3, RefusedType DEF IInv, Refused
    <2>2. TypeOK'
      BY <1>1, <2>1 DEF IInv, TypeOK, chatVars
    <2>3. TriesLeft' /\ RosterAddsUp'
      BY <2>1, RosterSame DEF IInv, TriesLeft
    <2>4. QED
      BY <2>2, <2>3 DEF IInv
  <1>4. QED
    BY <1>2, <1>3 DEF Start

LEMMA ReconnectInv ==
  ASSUME IInv, NEW c \in Client, Reconnect(c)
  PROVE  IInv'
  <1>1. /\ TypeOK /\ TriesLeft /\ RosterAddsUp /\ state[c] = "Reconnecting"
        /\ noise' = noise
    BY DEF IInv, Reconnect
  <1>2. CASE \E s \in Server : Accepted(c, s)
    BY <1>1, <1>2, AcceptedInv DEF TypeOK
  <1>3. CASE /\ Refused
             /\ tries' = [tries EXCEPT ![c] = tries[c] + 1]
             /\ state' = [state EXCEPT ![c] = IF tries[c] + 1 = Retries THEN "Disconnected"
                                              ELSE state[c]]
    <2>1. UNCHANGED <<chatVars, server, noise>> /\ faults' \in 0 .. MaxFaults
      BY <1>1, <1>3, RefusedType DEF Refused
    <2>2. tries[c] < Retries /\ tries[c] \in 0 .. Retries /\ Retries \in Nat
      BY <1>1, ChatAssumption DEF TriesLeft, TypeOK
    <2>3. tries[c] + 1 \in 0 .. Retries
      BY <2>2
    <2>4. tries' \in [Client -> 0 .. Retries]
      BY <1>1, <1>3, <2>3 DEF TypeOK
    <2>5. state' \in [Client -> {"Disconnected", "Connected", "Reconnecting"}]
      BY <1>1, <1>3 DEF TypeOK
    <2>6. TypeOK'
      BY <1>1, <2>1, <2>4, <2>5 DEF TypeOK, chatVars
    <2>7. TriesLeft'
      <3> SUFFICES ASSUME NEW d \in Client
                   PROVE  /\ state'[d] = "Connected" => tries'[d] = 0
                          /\ state'[d] = "Reconnecting" => tries'[d] < Retries
        BY DEF TriesLeft
      <3>1. CASE d = c
        <4>1. tries'[c] = tries[c] + 1
              /\ state'[c] = IF tries[c] + 1 = Retries THEN "Disconnected" ELSE "Reconnecting"
          BY <1>1, <1>3 DEF TypeOK
        <4>2. QED
          BY <2>2, <3>1, <4>1
      <3>2. CASE d # c
        BY <1>1, <1>3, <3>2 DEF TypeOK, TriesLeft
      <3>3. QED
        BY <3>1, <3>2
    <2>8. RosterAddsUp'
      BY <1>1, <2>1, RosterSame
    <2>9. QED
      BY <2>6, <2>7, <2>8 DEF IInv
  <1>4. QED
    BY <1>2, <1>3 DEF Reconnect

LEMMA NoiseInv ==
  ASSUME IInv, NEW c \in Client, Noise(c) \/ Echo(c)
  PROVE  IInv'
  <1>1. /\ TypeOK /\ TriesLeft /\ RosterAddsUp
        /\ UNCHANGED <<state, tries, chatVars, server, faults>>
    BY DEF IInv, Noise, Echo
  <1>2. noise' \in [Client -> {"starting", "due", "invoking"}]
    BY <1>1 DEF TypeOK, Noise, Echo
  <1>3. TypeOK'
    BY <1>1, <1>2 DEF TypeOK, chatVars
  <1>4. QED
    BY <1>1, <1>3, RosterSame DEF IInv, TriesLeft

LEMMA ClosedInv ==
  ASSUME IInv, NEW c \in Client, Closed(c)
  PROVE  IInv'
  <1>1. /\ TypeOK /\ TriesLeft /\ RosterAddsUp /\ state[c] = "Connected" /\ Of(c) = {}
        /\ \/ state' = [state EXCEPT ![c] = "Reconnecting"]
           \/ state' = [state EXCEPT ![c] = "Disconnected"]
        /\ told' = [told EXCEPT ![c] = 0] /\ base' = [base EXCEPT ![c] = 0]
        /\ dismissed' \subseteq Client
        /\ UNCHANGED <<tries, flight, conn, server, lost, faults, azure>>
    BY DEF IInv, Closed, TypeOK
  <1>2. noise' \in [Client -> {"starting", "due", "invoking"}]
    BY <1>1 DEF TypeOK, Closed
  <1>3. TypeOK'
    <2>1. state' \in [Client -> {"Disconnected", "Connected", "Reconnecting"}]
      BY <1>1 DEF TypeOK
    <2>2. told' \in [Client -> Int] /\ base' \in [Client -> Int]
      BY <1>1 DEF TypeOK
    <2>3. QED
      BY <1>1, <1>2, <2>1, <2>2 DEF TypeOK
  <1>4. TriesLeft'
    <2>1. tries[c] = 0 /\ 0 < Retries
      BY <1>1, ChatAssumption DEF TriesLeft
    <2>2. QED
      BY <1>1, <2>1 DEF TriesLeft, TypeOK
  <1>5. RosterAddsUp'
    <2> SUFFICES ASSUME NEW d \in Client, Of(d)' # {}
                 PROVE  told'[d] + UnderWay(d)' = InChat' - base'[d]
      BY DEF RosterAddsUp
    <2>1. d # c /\ Of(d) # {}
      BY <1>1 DEF Of
    <2>2. InChat' = InChat /\ UnderWay(d)' = UnderWay(d)
      BY <1>1 DEF InChat, Joined, UnderWay
    <2>3. told'[d] = told[d] /\ base'[d] = base[d]
      BY <1>1, <2>1 DEF TypeOK
    <2>4. QED
      BY <1>1, <2>1, <2>2, <2>3 DEF RosterAddsUp
  <1>6. QED
    BY <1>3, <1>4, <1>5 DEF IInv

(* A message arrives: what the client was told grows by what is no longer under  *)
(* way to it.                                                                    *)
LEMMA DeliverInv ==
  ASSUME IInv, NEW c \in Client, NEW kind \in {"joined", "left"}, Deliver(c, kind)
  PROVE  IInv'
  <1> DEFINE sign == IF kind = "joined" THEN 1 ELSE -1
  <1>1. /\ TypeOK /\ TriesLeft /\ RosterAddsUp /\ flight[c][kind] > 0
        /\ flight' = [flight EXCEPT ![c][kind] = @ - 1]
        /\ told' = [told EXCEPT ![c] = IF Of(c) = {} THEN @ ELSE @ + sign]
        /\ UNCHANGED <<clientVars, base, dismissed, conn, server, lost, faults, azure>>
    BY DEF IInv, Deliver
  <1>2. /\ flight[c] \in [joined : Nat, left : Nat] /\ told[c] \in Int /\ sign \in Int
        /\ flight'[c] = [flight[c] EXCEPT ![kind] = @ - 1]
        /\ told'[c] = IF Of(c) = {} THEN told[c] ELSE told[c] + sign
        /\ \A d \in Client \ {c} : flight'[d] = flight[d] /\ told'[d] = told[d]
    BY <1>1 DEF TypeOK
  <1>3. flight'[c] \in [joined : Nat, left : Nat] /\ UnderWay(c)' = UnderWay(c) - sign
    <2>1. CASE kind = "joined"
      BY <1>1, <1>2, <2>1 DEF UnderWay
    <2>2. CASE kind = "left"
      BY <1>1, <1>2, <2>2 DEF UnderWay
    <2>3. QED
      BY <2>1, <2>2
  <1> HIDE DEF sign
  <1>4. TypeOK'
    <2>1. flight' \in [Client -> [joined : Nat, left : Nat]]
      BY <1>1, <1>2, <1>3 DEF TypeOK
    <2>2. told' \in [Client -> Int]
      BY <1>1, <1>2 DEF TypeOK
    <2>3. QED
      BY <1>1, <2>1, <2>2 DEF TypeOK, clientVars
  <1>5. /\ InChat' = InChat + 0
        /\ \A d \in Client : Of(d)' = Of(d)
    BY <1>1, InChatType DEF InChat, Joined, Of
  <1>6. ASSUME NEW d \in Client, Of(d)' # {}
        PROVE  told'[d] + UnderWay(d)' = told[d] + UnderWay(d) + 0
    <2>1. told[d] \in Int /\ UnderWay(d) \in Int
      BY <1>1, UnderWayType DEF TypeOK
    <2>2. CASE d = c
      BY <1>2, <1>3, <1>5, <1>6, <2>1, <2>2
    <2>3. CASE d # c
      BY <1>2, <2>1, <2>3 DEF UnderWay
    <2>4. QED
      BY <2>2, <2>3
  <1>7. RosterAddsUp'
    BY <1>1, <1>4, <1>5, <1>6, RosterKept
  <1>8. TriesLeft'
    BY <1>1 DEF TriesLeft, clientVars
  <1>9. QED
    BY <1>4, <1>7, <1>8 DEF IInv

(* A replica is shut down, has stopped, or comes back. *)
LEMMA ReplicaInv ==
  ASSUME IInv, NEW s \in Server, Stop(s) \/ Stopped(s) \/ Restart(s)
  PROVE  IInv'
  <1>1. /\ TypeOK /\ TriesLeft /\ RosterAddsUp /\ UNCHANGED <<clientVars, chatVars>>
    BY DEF IInv, Stop, Stopped, Restart
  <1>2. server' \in [Server -> {"up", "stopping", "down"}] /\ faults' \in 0 .. MaxFaults
    BY <1>1, FaultType DEF TypeOK, Stop, Stopped, Restart
  <1>3. TypeOK'
    BY <1>1, <1>2 DEF TypeOK, clientVars, chatVars
  <1>4. QED
    BY <1>1, <1>3, RosterSame DEF IInv, TriesLeft, clientVars

----------------------------------------------------------------------------
LEMMA RosterInit == Init => IInv
  <1> SUFFICES ASSUME Init
               PROVE  IInv
    OBVIOUS
  <1>1. 0 \in 0 .. Retries /\ 0 \in 0 .. MaxFaults
    BY ChatAssumption
  <1>2. TypeOK
    BY <1>1 DEF Init, TypeOK, NoMessage
  <1>3. TriesLeft
    BY DEF Init, TriesLeft
  <1>4. \A c \in Client : Of(c) = {}
    BY FreeFields DEF Init, Of
  <1>5. QED
    BY <1>2, <1>3, <1>4 DEF IInv, RosterAddsUp

LEMMA RosterNext == IInv /\ [Next]_vars => IInv'
  <1> SUFFICES ASSUME IInv, [Next]_vars
               PROVE  IInv'
    OBVIOUS
  <1>1. ASSUME NEW c \in Client, Start(c) \/ Reconnect(c) \/ Noise(c) \/ Closed(c) \/ Echo(c)
        PROVE  IInv'
    BY <1>1, StartInv, ReconnectInv, NoiseInv, ClosedInv
  <1>10. ASSUME NEW c \in Client, NEW kind \in {"joined", "left"}, Deliver(c, kind)
         PROVE  IInv'
    BY <1>10, DeliverInv
  <1>2. ASSUME NEW i \in Conn, OnConnectedAsync(i) \/ OnConnectedThrows(i)
        PROVE  IInv'
    BY <1>2, OnConnectedInv, OnConnectedThrowsInv
  <1>3. ASSUME NEW i \in Conn, Disconnected(i)
        PROVE  IInv'
    BY <1>3, LeavesInv DEF Disconnected
  <1>4. ASSUME NEW i \in Conn, Migrate(i)
        PROVE  IInv'
    BY <1>4, MigrateInv
  <1>5. ASSUME NEW i \in Conn, Close(i)
        PROVE  IInv'
    BY <1>5, LeavesInv DEF Close
  <1>6. ASSUME NEW i \in Conn, Drop(i)
        PROVE  IInv'
    BY <1>6, DropInv
  <1>7. ASSUME NEW s \in Server, Crash(s) \/ Stop(s) \/ Stopped(s) \/ Restart(s)
        PROVE  IInv'
    BY <1>7, CrashInv, ReplicaInv
  <1>8. CASE UNCHANGED vars
    <2>1. /\ TypeOK /\ TriesLeft /\ RosterAddsUp /\ UNCHANGED chatVars
          /\ UNCHANGED <<clientVars, server, faults>>
      BY <1>8 DEF IInv, vars, chatVars, clientVars
    <2>2. TypeOK'
      BY <2>1 DEF TypeOK, chatVars, clientVars
    <2>3. QED
      BY <2>1, <2>2, RosterSame DEF IInv, TriesLeft, clientVars
  <1>9. QED
    BY <1>1, <1>2, <1>3, <1>4, <1>5, <1>6, <1>7, <1>8, <1>10 DEF Next

----------------------------------------------------------------------------
(* What the invariant says holds of the chat at every moment. *)
THEOREM RosterInvariant == Spec => []IInv
  BY RosterInit, RosterNext, PTL DEF Spec

(* Clients, connections and replicas keep their types for any numbers of them. *)
THEOREM ChatTypeCorrect == Spec => []TypeOK
  <1>1. IInv => TypeOK
    BY DEF IInv
  <1>2. QED
    BY <1>1, RosterInvariant, PTL

(* The joins less the leaves a client was told over a connection, and those      *)
(* under way to it, are by how many the chat has grown since it was made, plus    *)
(* what was under way then, for any numbers of clients, replicas, tries and       *)
(* faults and any order of arrival.                                               *)
THEOREM RosterAlwaysAddsUp == Spec => []RosterAddsUp
  <1>1. IInv => RosterAddsUp
    BY DEF IInv
  <1>2. QED
    BY <1>1, RosterInvariant, PTL

=============================================================================
