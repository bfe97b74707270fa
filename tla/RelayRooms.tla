----------------------------- MODULE RelayRooms -----------------------------
(***************************************************************************)
(* Who shares a room with whom: the hub, its rooms and the membership side *)
(* of every connection (internal/relay/room.go, conn.go).                  *)
(*                                                                         *)
(* A connection handles one message at a time and sees its disconnect only *)
(* between two messages.  Connections run concurrently, and every step     *)
(* here is one critical section: Hub.mu guards hub, Room.mu guards peers   *)
(* and idle, Peer.mu guards inRooms.  The frames a handler sends while it  *)
(* holds no lock change nothing in this module: "notifying" and            *)
(* "announcing" are where it sends them.                                   *)
(*                                                                         *)
(* A Room is an instance, named by what points to it: one that nothing     *)
(* points to any more is Free and stands for the next newRoom.             *)
(***************************************************************************)
EXTENDS Naturals, FiniteSets

CONSTANTS
  Conns,            \* connections, each with its peer, opened once
  Addrs,            \* public addresses, which networkKey maps to keys
  AddrOf,           \* AddrOf[c] is the address c comes from (Conn.ip)
  Codes,            \* room codes
  Rooms,            \* room instances
  MaxRooms, MaxNetworkPeers, MaxPeersPerRoom,   \* Limits
  None              \* no room, no key

Keys == Addrs \cup Codes

ASSUME KeysAssumption ==
  /\ AddrOf \in [Conns -> Addrs]
  /\ Addrs \cap Codes = {}
  /\ None \notin Keys \cup Rooms

ASSUME FiniteAssumption ==
  IsFiniteSet(Conns) /\ IsFiniteSet(Addrs) /\ IsFiniteSet(Codes)

ASSUME LimitsAssumption ==
  /\ MaxRooms \in Nat /\ MaxNetworkPeers \in Nat \ {0}
  /\ MaxPeersPerRoom \in Nat \ {0}

VARIABLES
  hub,       \* Hub.rooms: the room each key leads to
  keyOf,     \* Room.Key
  peers,     \* Room.peers
  idle,      \* an empty room's lastActive is RoomIdleTTL ago
  inRooms,   \* Peer.rooms
  netRoom, codeRoom,   \* Conn.netRoom, Conn.codeRoom
  at,        \* where each connection's goroutine is
  held,      \* the room a handler has in its local variable
  unswept,   \* the keys sweep has still to look at
  sweepAt,   \* the sweeper: it holds Hub.mu from its first key to its last
  sweepKey   \* the key it is about to delete

conn == <<netRoom, codeRoom, at, held>>
sweeper == <<unswept, sweepAt, sweepKey>>
vars == <<hub, keyOf, peers, idle, inRooms, conn, sweeper>>

Init ==
  /\ hub = [k \in Keys |-> None] /\ keyOf = [r \in Rooms |-> None]
  /\ peers = [r \in Rooms |-> {}] /\ idle = [r \in Rooms |-> FALSE]
  /\ inRooms = [c \in Conns |-> [k \in Keys |-> None]]
  /\ netRoom = [c \in Conns |-> None] /\ codeRoom = [c \in Conns |-> None]
  /\ at = [c \in Conns |-> "reading"] /\ held = [c \in Conns |-> None]
  /\ unswept = {} /\ sweepAt = "idle" /\ sweepKey = None

-----------------------------------------------------------------------------
HubUnlocked == sweepAt = "idle"

Listed == {k \in Keys : hub[k] # None}

Known(k) == hub[k] # None

AtCapacityMutant == Cardinality(Listed) > MaxRooms
AtCapacity == Cardinality(Listed) >= MaxRooms

IsNetwork(r) == keyOf[r] \in Addrs

Free(r) ==
  /\ \A k \in Keys : hub[k] # r
  /\ \A c \in Conns : r \notin {held[c], netRoom[c], codeRoom[c]}
  /\ peers[r] = {}

(* The handler goes on at a with room r in hand.                           *)
Holding(c, a, r) ==
  /\ at' = [at EXCEPT ![c] = a]
  /\ held' = [held EXCEPT ![c] = r]

(* newRoom, under the hub's lock.                                          *)
NewRoom(k, r) ==
  /\ hub' = [hub EXCEPT ![k] = r]
  /\ keyOf' = [keyOf EXCEPT ![r] = k]
  /\ idle' = [idle EXCEPT ![r] = FALSE]

NetworkKeyMutant(c) == CHOOSE a \in Addrs : TRUE
NetworkKey(c) == AddrOf[c]

(* handleHello of a connection that has no network room: NetworkRoom.  At  *)
(* capacity it is told so, and nothing changes.                            *)
HelloFound(c) ==
  /\ at[c] = "reading" /\ netRoom[c] = None /\ HubUnlocked
  /\ Known(NetworkKey(c))
  /\ Holding(c, "adding network", hub[NetworkKey(c)])
  /\ UNCHANGED <<hub, keyOf, peers, idle, inRooms, netRoom, codeRoom, sweeper>>

HelloNew(c) ==
  /\ at[c] = "reading" /\ netRoom[c] = None /\ HubUnlocked
  /\ ~Known(NetworkKey(c)) /\ ~AtCapacity
  /\ \E r \in Rooms :
       /\ Free(r)
       /\ NewRoom(NetworkKey(c), r)
       /\ Holding(c, "adding network", r)
  /\ UNCHANGED <<peers, inRooms, netRoom, codeRoom, sweeper>>

(* handleCreate: CreateRoom.  The rate limiter, the capacity or eight      *)
(* taken codes may refuse it, which changes nothing.                       *)
Create(c) ==
  /\ at[c] = "reading" /\ codeRoom[c] = None /\ HubUnlocked
  /\ ~AtCapacity
  /\ \E k \in Codes, r \in Rooms :
       /\ ~Known(k) /\ Free(r)
       /\ NewRoom(k, r)
       /\ Holding(c, "adding created", r)
  /\ UNCHANGED <<peers, inRooms, netRoom, codeRoom, sweeper>>

(* handleJoin: Room(code).                                                 *)
Join(c) ==
  /\ at[c] = "reading" /\ codeRoom[c] = None /\ HubUnlocked
  /\ \E k \in Codes :
       /\ Known(k)
       /\ Holding(c, "adding joined", hub[k])
  /\ UNCHANGED <<hub, keyOf, peers, idle, inRooms, netRoom, codeRoom, sweeper>>

-----------------------------------------------------------------------------
(* Room.Add: the room's half, under Room.mu.                               *)

Capacity(r) == IF IsNetwork(r) THEN MaxNetworkPeers ELSE MaxPeersPerRoom

Full(r) == Cardinality(peers[r]) >= Capacity(r)

Adding(c) == at[c] \in {"adding network", "adding created", "adding joined"}

AddPeer(c) ==
  /\ Adding(c) /\ ~Full(held[c])
  /\ peers' = [peers EXCEPT ![held[c]] = @ \cup {c}]
  /\ idle' = [idle EXCEPT ![held[c]] = FALSE]
  /\ at' = [at EXCEPT ![c] = "joining"]
  /\ UNCHANGED <<hub, keyOf, inRooms, netRoom, codeRoom, held, sweeper>>

(* A full room: hello and join answer with the reason.                     *)
AddRefused(c) ==
  /\ at[c] \in {"adding network", "adding joined"} /\ Full(held[c])
  /\ Holding(c, "reading", None)
  /\ UNCHANGED <<hub, keyOf, peers, idle, inRooms, netRoom, codeRoom, sweeper>>

(* A full room that this connection created: create drops it as well.      *)
AddCreatedRefused(c) ==
  /\ at[c] = "adding created" /\ Full(held[c])
  /\ at' = [at EXCEPT ![c] = "dropping created"]
  /\ UNCHANGED <<hub, keyOf, peers, idle, inRooms, netRoom, codeRoom, held, sweeper>>

DropCreated(c) ==
  /\ at[c] = "dropping created" /\ HubUnlocked
  /\ hub' = [hub EXCEPT ![keyOf[held[c]]] = None]
  /\ Holding(c, "reading", None)
  /\ UNCHANGED <<keyOf, peers, idle, inRooms, netRoom, codeRoom, sweeper>>

RecordedMutant(c) == UNCHANGED inRooms
(* The peer's half (joinedRoom), under Peer.mu.                            *)
Recorded(c) == inRooms' = [inRooms EXCEPT ![c][keyOf[held[c]]] = held[c]]

(* With it, the connection's own field.                                    *)
JoinedRoom(c) ==
  /\ at[c] = "joining"
  /\ Recorded(c)
  /\ IF IsNetwork(held[c])
     THEN netRoom' = [netRoom EXCEPT ![c] = held[c]] /\ UNCHANGED codeRoom
     ELSE codeRoom' = [codeRoom EXCEPT ![c] = held[c]] /\ UNCHANGED netRoom
  /\ Holding(c, "notifying", None)
  /\ UNCHANGED <<hub, keyOf, peers, idle, sweeper>>

(* joined or created, and the rosters, are sent: back to wsjson.Read.      *)
Notified(c) ==
  /\ at[c] = "notifying"
  /\ at' = [at EXCEPT ![c] = "reading"]
  /\ UNCHANGED <<hub, keyOf, peers, idle, inRooms, netRoom, codeRoom, held, sweeper>>

-----------------------------------------------------------------------------
(* cleanup, once the read fails: the network room first, then the code     *)
(* room.  Each field is reset here when its room's turn has come.          *)

Disconnect(c) ==
  /\ at[c] = "reading"
  /\ at' = [at EXCEPT ![c] = "leaving"]
  /\ UNCHANGED <<hub, keyOf, peers, idle, inRooms, netRoom, codeRoom, held, sweeper>>

EmptiedMutant(r, c) == peers[r] \subseteq {}
(* Room.Remove's result.                                                   *)
Emptied(r, c) == peers[r] \subseteq {c}

Remove(c, r) ==
  /\ peers' = [peers EXCEPT ![r] = @ \ {c}]
  /\ idle' = [idle EXCEPT ![r] = FALSE]
  /\ Holding(c, IF Emptied(r, c) THEN "emptied" ELSE "removed", r)

RemoveFromNetwork(c) ==
  /\ at[c] = "leaving" /\ netRoom[c] # None
  /\ Remove(c, netRoom[c])
  /\ netRoom' = [netRoom EXCEPT ![c] = None]
  /\ UNCHANGED <<hub, keyOf, inRooms, codeRoom, sweeper>>

RemoveFromCode(c) ==
  /\ at[c] = "leaving" /\ netRoom[c] = None /\ codeRoom[c] # None
  /\ Remove(c, codeRoom[c])
  /\ codeRoom' = [codeRoom EXCEPT ![c] = None]
  /\ UNCHANGED <<hub, keyOf, inRooms, netRoom, sweeper>>

LeftRoomMutant(c) ==
  /\ at[c] \in {"emptied", "removed"}
  /\ inRooms' = [inRooms EXCEPT ![c][keyOf[held[c]]] = None]
  /\ at' = [at EXCEPT ![c] =
               IF @ = "emptied" /\ ~IsNetwork(held[c]) THEN "dropping" ELSE "announcing"]
  /\ UNCHANGED <<hub, keyOf, peers, idle, netRoom, codeRoom, held, sweeper>>

LeftRoom(c) ==
  /\ at[c] \in {"emptied", "removed"}
  /\ inRooms' = [inRooms EXCEPT ![c][keyOf[held[c]]] = None]
  /\ at' = [at EXCEPT ![c] = IF @ = "emptied" THEN "dropping" ELSE "announcing"]
  /\ UNCHANGED <<hub, keyOf, peers, idle, netRoom, codeRoom, held, sweeper>>

(* Hub.Drop deletes by key, whatever the key leads to by now.              *)
Drop(c) ==
  /\ at[c] = "dropping" /\ HubUnlocked
  /\ hub' = [hub EXCEPT ![keyOf[held[c]]] = None]
  /\ Holding(c, "leaving", None)
  /\ UNCHANGED <<keyOf, peers, idle, inRooms, netRoom, codeRoom, sweeper>>

(* peer_left and the new rosters are sent to those who stay.               *)
Announced(c) ==
  /\ at[c] = "announcing"
  /\ Holding(c, "leaving", None)
  /\ UNCHANGED <<hub, keyOf, peers, idle, inRooms, netRoom, codeRoom, sweeper>>

AllLeftMutant(c) == netRoom[c] = None
AllLeft(c) == netRoom[c] = None /\ codeRoom[c] = None

Finish(c) ==
  /\ at[c] = "leaving" /\ AllLeft(c)
  /\ at' = [at EXCEPT ![c] = "gone"]
  /\ UNCHANGED <<hub, keyOf, peers, idle, inRooms, netRoom, codeRoom, held, sweeper>>

-----------------------------------------------------------------------------
(* Hub.sweep.  A key is looked at and deleted in two steps: Hub.mu is held *)
(* between them, Room.mu is not.                                           *)

StartSweep ==
  /\ sweepAt = "idle" /\ Listed # {}
  /\ sweepAt' = "looking" /\ unswept' = Listed
  /\ UNCHANGED <<hub, keyOf, peers, idle, inRooms, conn, sweepKey>>

Stale(r) == peers[r] = {} /\ idle[r]

LookAt(k) ==
  /\ sweepAt = "looking" /\ k \in unswept
  /\ unswept' = unswept \ {k}
  /\ IF Stale(hub[k])
     THEN sweepAt' = "deleting" /\ sweepKey' = k
     ELSE UNCHANGED <<sweepAt, sweepKey>>
  /\ UNCHANGED <<hub, keyOf, peers, idle, inRooms, conn>>

DeleteStale ==
  /\ sweepAt = "deleting"
  /\ hub' = [hub EXCEPT ![sweepKey] = None]
  /\ sweepAt' = "looking" /\ sweepKey' = None
  /\ UNCHANGED <<keyOf, peers, idle, inRooms, conn, unswept>>

SweepOverMutant == unswept = {} /\ Listed # {}
SweepOver == unswept = {}

EndSweep ==
  /\ sweepAt = "looking" /\ SweepOver
  /\ sweepAt' = "idle"
  /\ UNCHANGED <<hub, keyOf, peers, idle, inRooms, conn, unswept, sweepKey>>

(* RoomIdleTTL passes while a room of the hub stands empty.  (Of a room    *)
(* with peers sweep never asks, and Add and Remove start the count again;  *)
(* whoever calls Touch is in the room, so no sweep ever sees its effect.)  *)
IdleOut(r) ==
  /\ peers[r] = {} /\ ~idle[r] /\ \E k \in Keys : hub[k] = r
  /\ idle' = [idle EXCEPT ![r] = TRUE]
  /\ UNCHANGED <<hub, keyOf, peers, inRooms, conn, sweeper>>

-----------------------------------------------------------------------------
(* What the browser asks for, and its going away.                          *)
Ask(c) == HelloFound(c) \/ HelloNew(c) \/ Create(c) \/ Join(c) \/ Disconnect(c)

(* What a handler goes on to do once it has begun.                         *)
Continue(c) ==
  \/ AddPeer(c) \/ AddRefused(c) \/ AddCreatedRefused(c) \/ DropCreated(c)
  \/ JoinedRoom(c) \/ Notified(c)
  \/ RemoveFromNetwork(c) \/ RemoveFromCode(c) \/ LeftRoom(c) \/ Drop(c)
  \/ Announced(c) \/ Finish(c)

SweepOn == (\E k \in Keys : LookAt(k)) \/ DeleteStale \/ EndSweep

Next ==
  \/ \E c \in Conns : Ask(c) \/ Continue(c)
  \/ StartSweep \/ SweepOn
  \/ \E r \in Rooms : IdleOut(r)

Spec == Init /\ [][Next]_vars

(***************************************************************************)
(* A goroutine that has begun runs on: sends never block and no lock is    *)
(* held across a wait.  Hub.mu is contended, so a handler that needs it    *)
(* gets it when it is free again and again.  No browser is assumed to send *)
(* anything or to leave, and the sweeper is not assumed to start.          *)
(***************************************************************************)
Fairness ==
  /\ WF_vars(SweepOn)
  /\ \A c \in Conns : SF_vars(Continue(c))

FairSpec == Spec /\ Fairness

-----------------------------------------------------------------------------
(***************************************************************************)
(* Properties.                                                             *)
(***************************************************************************)

(* Every variable stays in its range; held names a room exactly while a    *)
(* handler is between fetching one and being done with it.                 *)
TypeOK ==
  /\ hub \in [Keys -> Rooms \cup {None}] /\ keyOf \in [Rooms -> Keys \cup {None}]
  /\ peers \in [Rooms -> SUBSET Conns] /\ idle \in [Rooms -> BOOLEAN]
  /\ inRooms \in [Conns -> [Keys -> Rooms \cup {None}]]
  /\ netRoom \in [Conns -> Rooms \cup {None}]
  /\ codeRoom \in [Conns -> Rooms \cup {None}]
  /\ at \in [Conns -> {"reading", "adding network", "adding created", "adding joined",
                       "dropping created", "joining", "notifying", "leaving", "emptied",
                       "removed", "dropping", "announcing", "gone"}]
  /\ held \in [Conns -> Rooms \cup {None}]
  /\ \A c \in Conns :
       held[c] = None <=> at[c] \in {"reading", "notifying", "leaving", "gone"}
  /\ unswept \in SUBSET Keys
  /\ sweepAt \in {"idle", "looking", "deleting"}
  /\ sweepKey \in Keys \cup {None}
  /\ sweepKey # None <=> sweepAt = "deleting"

(* Between two messages the three records of a membership agree: the room  *)
(* lists the peer, the peer lists the room under the room's own key, and   *)
(* the connection's fields name it.  Each is kept under a lock of its own  *)
(* (Add, joinedRoom, handleHello/Create/Join).                             *)
MembershipAgrees ==
  \A c \in Conns : at[c] = "reading" =>
    \A r \in Rooms :
      /\ c \in peers[r] <=> r \in {netRoom[c], codeRoom[c]}
      /\ c \in peers[r] => inRooms[c][keyOf[r]] = r
      /\ \A k \in Keys : inRooms[c][k] = r => c \in peers[r] /\ keyOf[r] = k

(* A connection whose cleanup is over is listed nowhere: nobody's roster   *)
(* shows a peer that left.                                                 *)
NoGhosts ==
  \A c \in Conns : at[c] = "gone" =>
    /\ \A r \in Rooms : c \notin peers[r]
    /\ \A k \in Keys : inRooms[c][k] = None

(* Whoever is connected is listed as it knows itself, and whoever left is  *)
(* listed nowhere, through any race of joins, leaves and sweeps.           *)
MembersAreThere == MembershipAgrees /\ NoGhosts

(* An automatic (network) room only ever holds connections from the        *)
(* address it is keyed by, even after instances were dropped by key and    *)
(* new ones made for it.                                                   *)
NoStrangers ==
  \A r \in Rooms : IsNetwork(r) => \A c \in peers[r] : AddrOf[c] = keyOf[r]

(* No room passes its own limit and the hub never passes MaxRooms, however *)
(* the lookups and the adds of several connections interleave.             *)
WithinLimits ==
  /\ Cardinality(Listed) <= MaxRooms
  /\ \A r \in Rooms : Cardinality(peers[r]) <= Capacity(r)

(* An empty room in the hub always has a handler on its way to fill it or  *)
(* to drop its key: no room waits for the sweeper to be collected.         *)
EmptyHasHandler ==
  \A k \in Keys : hub[k] # None /\ peers[hub[k]] = {} =>
    \E c \in Conns :
      \/ Adding(c) /\ held[c] = hub[k]
      \/ at[c] \in {"emptied", "dropping"} /\ keyOf[held[c]] = k

(* So a room its last peer left gives its place in the hub back, though    *)
(* the sweeper never starts, unless someone moves in meanwhile: again and  *)
(* again every room of the hub has a peer.                                 *)
EmptyLeaves ==
  []<>(\A k \in Keys : hub[k] = None \/ peers[hub[k]] # {})

(* Every cleanup comes to its end, from where nothing goes on: connections *)
(* that are gone from the network end up in no room.                       *)
DisconnectEnds ==
  []<>(\A c \in Conns : at[c] \notin {"leaving", "emptied", "removed",
                                      "dropping", "announcing"})
=============================================================================
