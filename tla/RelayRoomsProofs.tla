-------------------------- MODULE RelayRoomsProofs --------------------------
(***************************************************************************)
(* Theorems about RelayRooms, for any set of connections, addresses and    *)
(* codes and any limits.                                                   *)
(*                                                                         *)
(* MembershipAgrees speaks of connections at rest only.  What is inductive *)
(* says at every point of a handler which rooms list the connection and    *)
(* which rooms it lists (MemberInv, RecordInv), and that the room it has   *)
(* in hand is of a kind it is not already in (HeldFits), so that writing   *)
(* under the room's key touches no other record.                           *)
(***************************************************************************)
EXTENDS RelayRooms, FiniteSetTheorems, TLAPS

FieldsFit(c) ==
  /\ netRoom[c] # None => keyOf[netRoom[c]] = AddrOf[c]
  /\ codeRoom[c] # None => keyOf[codeRoom[c]] \in Codes
  /\ at[c] = "gone" => netRoom[c] = None /\ codeRoom[c] = None

HeldFits(c) ==
  held[c] # None =>
    \/ keyOf[held[c]] = AddrOf[c] /\ netRoom[c] = None
    \/ keyOf[held[c]] \in Codes /\ codeRoom[c] = None

Member(c, r) ==
  \/ r = netRoom[c] \/ r = codeRoom[c]
  \/ at[c] = "joining" /\ r = held[c]

Recording(c, r) ==
  \/ r = netRoom[c] \/ r = codeRoom[c]
  \/ at[c] \in {"emptied", "removed"} /\ r = held[c]

MemberInv(c) == \A r \in Rooms : c \in peers[r] <=> Member(c, r)

RecordInv(c) ==
  \A r \in Rooms, k \in Keys :
    inRooms[c][k] = r <=> keyOf[r] = k /\ Recording(c, r)

ConnInv(c) == FieldsFit(c) /\ HeldFits(c) /\ MemberInv(c) /\ RecordInv(c)

HubInv == \A k \in Keys : hub[k] # None => keyOf[hub[k]] = k

IInv == TypeOK /\ HubInv /\ \A c \in Conns : ConnInv(c)

-----------------------------------------------------------------------------
(* The ranges of the variables, by what they describe.                     *)
HubTypes ==
  /\ hub \in [Keys -> Rooms \cup {None}] /\ keyOf \in [Rooms -> Keys \cup {None}]

RoomTypes == peers \in [Rooms -> SUBSET Conns] /\ idle \in [Rooms -> BOOLEAN]

RecordTypes == inRooms \in [Conns -> [Keys -> Rooms \cup {None}]]

FieldTypes ==
  /\ netRoom \in [Conns -> Rooms \cup {None}]
  /\ codeRoom \in [Conns -> Rooms \cup {None}]

Places == {"reading", "adding network", "adding created", "adding joined",
           "dropping created", "joining", "notifying", "leaving", "emptied",
           "removed", "dropping", "announcing", "gone"}

HandlerTypes ==
  /\ at \in [Conns -> Places]
  /\ held \in [Conns -> Rooms \cup {None}]
  /\ \A c \in Conns :
       held[c] = None <=> at[c] \in {"reading", "notifying", "leaving", "gone"}

SweepTypes ==
  /\ unswept \in SUBSET Keys
  /\ sweepAt \in {"idle", "looking", "deleting"}
  /\ sweepKey \in Keys \cup {None}
  /\ sweepKey # None <=> sweepAt = "deleting"

LEMMA TypeParts ==
  TypeOK <=> /\ HubTypes /\ RoomTypes /\ RecordTypes
             /\ FieldTypes /\ HandlerTypes /\ SweepTypes
BY DEF TypeOK, HubTypes, RoomTypes, RecordTypes, FieldTypes, HandlerTypes, SweepTypes, Places

LEMMA HubTypesStep == TypeOK /\ [Next]_vars => HubTypes'
<1> SUFFICES ASSUME TypeOK, [Next]_vars PROVE HubTypes'
  OBVIOUS
<1>1. HubTypes /\ KeysAssumption
  BY TypeParts, KeysAssumption
<1>2. ASSUME NEW k \in Keys, NEW r \in Rooms, NewRoom(k, r) PROVE HubTypes'
  BY <1>1, <1>2 DEF NewRoom, HubTypes
<1>3. ASSUME NEW c \in Conns, HelloNew(c) PROVE HubTypes'
  BY <1>1, <1>2, <1>3 DEF HelloNew, NetworkKey, Keys, KeysAssumption
<1>4. ASSUME NEW c \in Conns, Create(c) PROVE HubTypes'
  BY <1>2, <1>4 DEF Create, Keys
<1>5. ASSUME NEW c \in Conns, DropCreated(c) \/ Drop(c) PROVE HubTypes'
  BY <1>1, <1>5 DEF DropCreated, Drop, HubTypes
<1>6. CASE DeleteStale
  BY <1>1, <1>6 DEF DeleteStale, HubTypes
<1>7. CASE UNCHANGED <<hub, keyOf>>
  BY <1>1, <1>7 DEF HubTypes
<1> QED
  BY <1>3, <1>4, <1>5, <1>6, <1>7
  DEF Next, Ask, Continue, HelloFound, Join, Disconnect, AddPeer, AddRefused,
      AddCreatedRefused, JoinedRoom, Notified, RemoveFromNetwork, RemoveFromCode, LeftRoom,
      Announced, Finish, StartSweep, SweepOn, LookAt, EndSweep, IdleOut, vars

LEMMA RoomTypesStep == TypeOK /\ [Next]_vars => RoomTypes'
<1> SUFFICES ASSUME TypeOK, [Next]_vars PROVE RoomTypes'
  OBVIOUS
<1>1. RoomTypes
  BY TypeParts
<1>2. ASSUME NEW r, idle' = [idle EXCEPT ![r] = FALSE],
             \/ UNCHANGED peers
             \/ \E c \in Conns : \/ peers' = [peers EXCEPT ![r] = @ \cup {c}]
                                 \/ peers' = [peers EXCEPT ![r] = @ \ {c}]
      PROVE  RoomTypes'
  BY <1>1, <1>2 DEF RoomTypes
<1>3. ASSUME NEW c \in Conns, HelloNew(c) \/ Create(c) PROVE RoomTypes'
  BY <1>2, <1>3 DEF HelloNew, Create, NewRoom
<1>4. ASSUME NEW c \in Conns, AddPeer(c) PROVE RoomTypes'
  BY <1>2, <1>4 DEF AddPeer
<1>5. ASSUME NEW c \in Conns, RemoveFromNetwork(c) \/ RemoveFromCode(c) PROVE RoomTypes'
  BY <1>2, <1>5 DEF RemoveFromNetwork, RemoveFromCode, Remove
<1>6. ASSUME NEW r \in Rooms, IdleOut(r) PROVE RoomTypes'
  BY <1>1, <1>6 DEF IdleOut, RoomTypes
<1>7. CASE UNCHANGED <<peers, idle>>
  BY <1>1, <1>7 DEF RoomTypes
<1> QED
  BY <1>3, <1>4, <1>5, <1>6, <1>7
  DEF Next, Ask, Continue, HelloFound, Join, Disconnect, AddRefused, AddCreatedRefused,
      DropCreated, JoinedRoom, Notified, LeftRoom, Drop, Announced, Finish, StartSweep,
      SweepOn, LookAt, DeleteStale, EndSweep, vars

LEMMA RecordTypesStep == TypeOK /\ [Next]_vars => RecordTypes'
<1> SUFFICES ASSUME TypeOK, [Next]_vars PROVE RecordTypes'
  OBVIOUS
<1>1. RecordTypes /\ HandlerTypes
  BY TypeParts
<1>2. ASSUME NEW c \in Conns, JoinedRoom(c) PROVE RecordTypes'
  BY <1>1, <1>2 DEF JoinedRoom, Recorded, RecordTypes, HandlerTypes
<1>3. ASSUME NEW c \in Conns, LeftRoom(c) PROVE RecordTypes'
  BY <1>1, <1>3 DEF LeftRoom, RecordTypes
<1>4. CASE UNCHANGED inRooms
  BY <1>1, <1>4 DEF RecordTypes
<1> QED
  BY <1>2, <1>3, <1>4
  DEF Next, Ask, Continue, HelloFound, HelloNew, Create, Join, Disconnect, AddPeer,
      AddRefused, AddCreatedRefused, DropCreated, Notified, RemoveFromNetwork,
      RemoveFromCode, Drop, Announced, Finish, StartSweep, SweepOn, LookAt, DeleteStale,
      EndSweep, IdleOut, vars

LEMMA FieldTypesStep == TypeOK /\ [Next]_vars => FieldTypes'
<1> SUFFICES ASSUME TypeOK, [Next]_vars PROVE FieldTypes'
  OBVIOUS
<1>1. FieldTypes /\ HandlerTypes
  BY TypeParts
<1>2. ASSUME NEW c \in Conns, JoinedRoom(c) PROVE FieldTypes'
  BY <1>1, <1>2 DEF JoinedRoom, FieldTypes, HandlerTypes
<1>3. ASSUME NEW c \in Conns, RemoveFromNetwork(c) \/ RemoveFromCode(c) PROVE FieldTypes'
  BY <1>1, <1>3 DEF RemoveFromNetwork, RemoveFromCode, FieldTypes
<1>4. CASE UNCHANGED <<netRoom, codeRoom>>
  BY <1>1, <1>4 DEF FieldTypes
<1> QED
  BY <1>2, <1>3, <1>4
  DEF Next, Ask, Continue, HelloFound, HelloNew, Create, Join, Disconnect, AddPeer,
      AddRefused, AddCreatedRefused, DropCreated, Notified, LeftRoom, Drop, Announced,
      Finish, StartSweep, SweepOn, LookAt, DeleteStale, EndSweep, IdleOut, vars, conn

LEMMA SweepTypesStep == TypeOK /\ [Next]_vars => SweepTypes'
<1> SUFFICES ASSUME TypeOK, [Next]_vars PROVE SweepTypes'
  OBVIOUS
<1>1. SweepTypes /\ KeysAssumption
  BY TypeParts, KeysAssumption
<1>2. CASE StartSweep
  BY <1>1, <1>2 DEF StartSweep, SweepTypes, Listed
<1>3. ASSUME NEW k \in Keys, LookAt(k) PROVE SweepTypes'
  BY <1>1, <1>3 DEF LookAt, SweepTypes, KeysAssumption
<1>4. CASE DeleteStale
  BY <1>1, <1>4 DEF DeleteStale, SweepTypes
<1>5. CASE EndSweep
  BY <1>1, <1>5 DEF EndSweep, SweepTypes
<1>6. CASE UNCHANGED sweeper
  BY <1>1, <1>6 DEF sweeper, SweepTypes
<1> QED
  BY <1>2, <1>3, <1>4, <1>5, <1>6
  DEF Next, Ask, Continue, HelloFound, HelloNew, Create, Join, Disconnect, AddPeer,
      AddRefused, AddCreatedRefused, DropCreated, JoinedRoom, Notified, RemoveFromNetwork,
      RemoveFromCode, LeftRoom, Drop, Announced, Finish, SweepOn, IdleOut, vars

(* A handler has a room in hand exactly where its code has one.            *)
LEMMA HandlerTypesStep == TypeOK /\ [Next]_vars => HandlerTypes'
<1> SUFFICES ASSUME TypeOK, [Next]_vars PROVE HandlerTypes'
  OBVIOUS
<1>1. HubTypes /\ FieldTypes /\ HandlerTypes /\ KeysAssumption
  BY TypeParts, KeysAssumption
<1>2. ASSUME NEW c \in Conns, NEW a \in Places, NEW r \in Rooms \cup {None},
             r = None <=> a \in {"reading", "notifying", "leaving", "gone"},
             at' = [at EXCEPT ![c] = a], held' = [held EXCEPT ![c] = r]
      PROVE  HandlerTypes'
  <2>1. \A d \in Conns : /\ at'[d] = IF d = c THEN a ELSE at[d]
                         /\ held'[d] = IF d = c THEN r ELSE held[d]
    BY <1>1, <1>2 DEF HandlerTypes
  <2>2. at' \in [Conns -> Places] /\ held' \in [Conns -> Rooms \cup {None}]
    BY <1>1, <1>2 DEF HandlerTypes
  <2> QED
    BY <1>1, <1>2, <2>1, <2>2 DEF HandlerTypes
<1>3. ASSUME NEW c \in Conns, NEW a \in Places,
             held[c] = None <=> a \in {"reading", "notifying", "leaving", "gone"},
             at' = [at EXCEPT ![c] = a], held' = held
      PROVE  HandlerTypes'
  <2>1. held' = [held EXCEPT ![c] = held[c]] /\ held[c] \in Rooms \cup {None}
    BY <1>1, <1>3 DEF HandlerTypes
  <2> QED
    BY <1>2, <1>3, <2>1
<1>4. ASSUME NEW c \in Conns, Ask(c) PROVE HandlerTypes'
  <2>1. CASE HelloFound(c)
    BY <1>1, <1>2, <2>1
    DEF HelloFound, Holding, Known, NetworkKey, HubTypes, Keys, KeysAssumption, Places
  <2>2. CASE HelloNew(c) \/ Create(c)
    BY <1>1, <1>2, <2>2 DEF HelloNew, Create, Holding, KeysAssumption, Places
  <2>3. CASE Join(c)
    BY <1>1, <1>2, <2>3 DEF Join, Holding, Known, HubTypes, Keys, Places
  <2>4. CASE Disconnect(c)
    BY <1>1, <1>3, <2>4 DEF Disconnect, HandlerTypes, Places
  <2> QED
    BY <1>4, <2>1, <2>2, <2>3, <2>4 DEF Ask
<1>5. ASSUME NEW c \in Conns, Continue(c) PROVE HandlerTypes'
  <2>1. CASE AddPeer(c)
    BY <1>1, <1>3, <2>1 DEF AddPeer, Adding, HandlerTypes, Places
  <2>2. CASE AddRefused(c) \/ DropCreated(c)
    BY <1>2, <2>2 DEF AddRefused, DropCreated, Holding, Places
  <2>3. CASE AddCreatedRefused(c)
    BY <1>1, <1>3, <2>3 DEF AddCreatedRefused, HandlerTypes, Places
  <2>4. CASE JoinedRoom(c)
    BY <1>2, <2>4 DEF JoinedRoom, Holding, Places
  <2>5. CASE Notified(c)
    BY <1>1, <1>3, <2>5 DEF Notified, HandlerTypes, Places
  <2>6. ASSUME NEW r \in Rooms, Remove(c, r) PROVE HandlerTypes'
    <3> DEFINE a == IF Emptied(r, c) THEN "emptied" ELSE "removed"
    <3>1. a \in Places \ {"reading", "notifying", "leaving", "gone"} /\ r # None
      BY <1>1 DEF KeysAssumption, Places
    <3>2. at' = [at EXCEPT ![c] = a] /\ held' = [held EXCEPT ![c] = r]
      BY <2>6 DEF Remove, Holding
    <3> QED
      BY <1>2, <3>1, <3>2
  <2>7. CASE RemoveFromNetwork(c) \/ RemoveFromCode(c)
    BY <1>1, <2>6, <2>7 DEF RemoveFromNetwork, RemoveFromCode, FieldTypes
  <2>8. CASE LeftRoom(c)
    <3> DEFINE a == IF at[c] = "emptied" THEN "dropping" ELSE "announcing"
    <3>1. a \in Places \ {"reading", "notifying", "leaving", "gone"} /\ held[c] # None
      BY <1>1, <2>8 DEF LeftRoom, HandlerTypes, Places
    <3>2. at' = [at EXCEPT ![c] = a] /\ held' = held
      BY <2>8 DEF LeftRoom
    <3> QED
      BY <1>3, <3>1, <3>2
  <2>9. CASE Drop(c) \/ Announced(c)
    BY <1>2, <2>9 DEF Drop, Announced, Holding, Places
  <2>10. CASE Finish(c)
    BY <1>1, <1>3, <2>10 DEF Finish, HandlerTypes, Places
  <2> QED
    BY <1>5, <2>1, <2>2, <2>3, <2>4, <2>5, <2>7, <2>8, <2>9, <2>10 DEF Continue
<1>6. CASE UNCHANGED <<at, held>>
  BY <1>1, <1>6 DEF HandlerTypes
<1> QED
  BY <1>4, <1>5, <1>6
  DEF Next, StartSweep, SweepOn, LookAt, DeleteStale, EndSweep, IdleOut, vars, conn

LEMMA InitTypes == Init => TypeOK
BY KeysAssumption DEF Init, TypeOK

THEOREM Typing == Spec => []TypeOK
<1>1. TypeOK' <=> /\ HubTypes' /\ RoomTypes' /\ RecordTypes'
                  /\ FieldTypes' /\ HandlerTypes' /\ SweepTypes'
  BY TypeParts, PTL
<1> QED
  BY <1>1, InitTypes, HubTypesStep, RoomTypesStep, RecordTypesStep, FieldTypesStep,
     HandlerTypesStep, SweepTypesStep, PTL DEF Spec

-----------------------------------------------------------------------------
(* A key leads to a room that carries it: the hub and the room's own key   *)
(* are written together, and a room somebody points to is not made again.  *)
LEMMA HubStep == TypeOK /\ HubInv /\ [Next]_vars => HubInv'
<1> SUFFICES ASSUME TypeOK, HubInv, [Next]_vars PROVE HubInv'
  OBVIOUS
<1>1. HubTypes /\ KeysAssumption
  BY TypeParts, KeysAssumption
<1>2. ASSUME NEW k \in Keys, NEW r \in Rooms, Free(r), NewRoom(k, r) PROVE HubInv'
  BY <1>1, <1>2 DEF NewRoom, Free, HubInv, HubTypes
<1>3. ASSUME NEW c \in Conns, HelloNew(c) \/ Create(c) PROVE HubInv'
  BY <1>1, <1>2, <1>3 DEF HelloNew, Create, NetworkKey, Keys, KeysAssumption
<1>4. ASSUME NEW k, hub' = [hub EXCEPT ![k] = None], UNCHANGED keyOf PROVE HubInv'
  BY <1>1, <1>4 DEF HubInv, HubTypes
<1>5. ASSUME NEW c \in Conns, DropCreated(c) \/ Drop(c) PROVE HubInv'
  BY <1>4, <1>5 DEF DropCreated, Drop
<1>6. CASE DeleteStale
  BY <1>4, <1>6 DEF DeleteStale
<1>7. CASE UNCHANGED <<hub, keyOf>>
  BY <1>7 DEF HubInv
<1> QED
  BY <1>3, <1>5, <1>6, <1>7
  DEF Next, Ask, Continue, HelloFound, Join, Disconnect, AddPeer, AddRefused,
      AddCreatedRefused, JoinedRoom, Notified, RemoveFromNetwork, RemoveFromCode, LeftRoom,
      Announced, Finish, StartSweep, SweepOn, LookAt, EndSweep, IdleOut, vars

(* What is written about other connections leaves this one's agreements    *)
(* alone, a new key for a room it does not point to included.              *)
LEMMA OtherConn ==
  ASSUME NEW d \in Conns, TypeOK, ConnInv(d),
         netRoom'[d] = netRoom[d], codeRoom'[d] = codeRoom[d],
         at'[d] = at[d], held'[d] = held[d], inRooms'[d] = inRooms[d],
         \A r \in Rooms : d \in peers'[r] <=> d \in peers[r],
         \A r \in Rooms :
           keyOf'[r] = keyOf[r] \/ r \notin {held[d], netRoom[d], codeRoom[d]}
  PROVE  ConnInv(d)'
<1>1. FieldTypes /\ HandlerTypes /\ RecordTypes
  BY TypeParts
<1>2. FieldsFit(d)'
  BY <1>1 DEF ConnInv, FieldsFit, FieldTypes
<1>3. HeldFits(d)'
  BY <1>1 DEF ConnInv, HeldFits, HandlerTypes
<1>4. MemberInv(d)'
  BY DEF ConnInv, MemberInv, Member
<1>5. RecordInv(d)'
  <2> SUFFICES ASSUME NEW r \in Rooms, NEW k \in Keys
               PROVE  inRooms'[d][k] = r <=> keyOf'[r] = k /\ Recording(d, r)'
    BY DEF RecordInv
  <2>1. inRooms[d][k] = r <=> keyOf[r] = k /\ Recording(d, r)
    BY DEF ConnInv, RecordInv
  <2>2. Recording(d, r)' <=> Recording(d, r)
    BY DEF Recording
  <2>3. Recording(d, r) => r \in {held[d], netRoom[d], codeRoom[d]}
    BY DEF Recording
  <2> QED
    BY <2>1, <2>2, <2>3
<1> QED
  BY <1>2, <1>3, <1>4, <1>5 DEF ConnInv

(* A step of c that writes only c's entries.                               *)
LEMMA OthersKept ==
  ASSUME NEW c \in Conns, IInv, ConnInv(c)',
         \A d \in Conns \ {c} :
           /\ netRoom'[d] = netRoom[d] /\ codeRoom'[d] = codeRoom[d]
           /\ at'[d] = at[d] /\ held'[d] = held[d] /\ inRooms'[d] = inRooms[d]
           /\ \A r \in Rooms : d \in peers'[r] <=> d \in peers[r]
           /\ \A r \in Rooms :
                keyOf'[r] = keyOf[r] \/ r \notin {held[d], netRoom[d], codeRoom[d]}
  PROVE  \A d \in Conns : ConnInv(d)'
<1> SUFFICES ASSUME NEW d \in Conns, d # c PROVE ConnInv(d)'
  OBVIOUS
<1>1. TypeOK /\ ConnInv(d)
  BY DEF IInv
<1> QED
  BY <1>1, OtherConn

(* A handler takes a room in hand, or lets it go, and writes nothing else  *)
(* about memberships.                                                      *)
LEMMA HandStep ==
  ASSUME NEW c \in Conns, IInv, NEW a, NEW r \in Rooms \cup {None},
         at[c] \notin {"joining", "emptied", "removed"},
         a \notin {"joining", "emptied", "removed"},
         a = "gone" => netRoom[c] = None /\ codeRoom[c] = None,
         r # None => \/ keyOf'[r] = AddrOf[c] /\ netRoom[c] = None
                     \/ keyOf'[r] \in Codes /\ codeRoom[c] = None,
         at' = [at EXCEPT ![c] = a], held' = [held EXCEPT ![c] = r],
         UNCHANGED <<peers, inRooms, netRoom, codeRoom>>,
         \A q \in Rooms : keyOf'[q] = keyOf[q] \/ Free(q)
  PROVE  \A d \in Conns : ConnInv(d)'
<1>1. ConnInv(c) /\ FieldTypes /\ HandlerTypes
  BY TypeParts DEF IInv
<1>2. \A d \in Conns : /\ at'[d] = IF d = c THEN a ELSE at[d]
                       /\ held'[d] = IF d = c THEN r ELSE held[d]
  BY <1>1 DEF HandlerTypes
<1>3. \A d \in Conns : \A q \in Rooms :
        keyOf'[q] = keyOf[q] \/ q \notin {held[d], netRoom[d], codeRoom[d]}
  BY DEF Free
<1>4. FieldsFit(c)'
  BY <1>1, <1>2, <1>3 DEF ConnInv, FieldsFit, FieldTypes
<1>5. HeldFits(c)'
  BY <1>1, <1>2 DEF HeldFits
<1>6. MemberInv(c)'
  BY <1>1, <1>2 DEF ConnInv, MemberInv, Member
<1>7. RecordInv(c)'
  <2> SUFFICES ASSUME NEW q \in Rooms, NEW k \in Keys
               PROVE  inRooms'[c][k] = q <=> keyOf'[q] = k /\ Recording(c, q)'
    BY DEF RecordInv
  <2>1. inRooms[c][k] = q <=> keyOf[q] = k /\ Recording(c, q)
    BY <1>1 DEF ConnInv, RecordInv
  <2>2. Recording(c, q)' <=> Recording(c, q)
    BY <1>2 DEF Recording
  <2>3. Recording(c, q) => q \in {netRoom[c], codeRoom[c]}
    BY DEF Recording
  <2> QED
    BY <1>3, <2>1, <2>2, <2>3
<1>8. ConnInv(c)'
  BY <1>4, <1>5, <1>6, <1>7 DEF ConnInv
<1> QED
  BY <1>2, <1>3, <1>8, OthersKept

(* hello, create, join and the disconnect.                                 *)
LEMMA AskStep ==
  ASSUME IInv, NEW c \in Conns, Ask(c)
  PROVE  \A d \in Conns : ConnInv(d)'
<1>1. HubTypes /\ HandlerTypes /\ HubInv /\ ConnInv(c) /\ KeysAssumption
  BY TypeParts, KeysAssumption DEF IInv
<1>2. held[c] = None <=> at[c] \in {"reading", "notifying", "leaving", "gone"}
  BY <1>1 DEF HandlerTypes
<1>3. CASE HelloFound(c)
  <2> DEFINE r == hub[AddrOf[c]]
  <2>1. r \in Rooms /\ keyOf[r] = AddrOf[c]
    BY <1>1, <1>3 DEF HelloFound, Known, NetworkKey, HubTypes, HubInv, Keys, KeysAssumption
  <2>2. /\ at[c] = "reading" /\ netRoom[c] = None
        /\ at' = [at EXCEPT ![c] = "adding network"] /\ held' = [held EXCEPT ![c] = r]
        /\ UNCHANGED <<peers, inRooms, netRoom, codeRoom, keyOf>>
    BY <1>3 DEF HelloFound, Holding, NetworkKey
  <2> QED
    BY <2>1, <2>2, HandStep
<1>4. ASSUME NEW k \in Keys, NEW r \in Rooms, Free(r), NewRoom(k, r)
      PROVE  keyOf'[r] = k /\ \A q \in Rooms : keyOf'[q] = keyOf[q] \/ Free(q)
  BY <1>1, <1>4 DEF NewRoom, HubTypes
<1>5. CASE HelloNew(c)
  <2>1. PICK r \in Rooms : Free(r) /\ NewRoom(AddrOf[c], r) /\ Holding(c, "adding network", r)
    BY <1>5 DEF HelloNew, NetworkKey
  <2>2. AddrOf[c] \in Keys
    BY <1>1 DEF Keys, KeysAssumption
  <2>3. keyOf'[r] = AddrOf[c] /\ \A q \in Rooms : keyOf'[q] = keyOf[q] \/ Free(q)
    BY <1>4, <2>1, <2>2
  <2>4. /\ at[c] = "reading" /\ netRoom[c] = None
        /\ UNCHANGED <<peers, inRooms, netRoom, codeRoom>>
    BY <1>5 DEF HelloNew
  <2> QED
    BY <2>1, <2>3, <2>4, HandStep DEF Holding
<1>6. CASE Create(c)
  <2>1. PICK k \in Codes, r \in Rooms :
          Free(r) /\ NewRoom(k, r) /\ Holding(c, "adding created", r)
    BY <1>6 DEF Create
  <2>2. keyOf'[r] \in Codes /\ \A q \in Rooms : keyOf'[q] = keyOf[q] \/ Free(q)
    BY <1>4, <2>1 DEF Keys
  <2>3. /\ at[c] = "reading" /\ codeRoom[c] = None
        /\ UNCHANGED <<peers, inRooms, netRoom, codeRoom>>
    BY <1>6 DEF Create
  <2> QED
    BY <2>1, <2>2, <2>3, HandStep DEF Holding
<1>7. CASE Join(c)
  <2>1. PICK k \in Codes : Known(k) /\ Holding(c, "adding joined", hub[k])
    BY <1>7 DEF Join
  <2>2. hub[k] \in Rooms /\ keyOf[hub[k]] \in Codes
    BY <1>1, <2>1 DEF Known, HubTypes, HubInv, Keys
  <2>3. /\ at[c] = "reading" /\ codeRoom[c] = None
        /\ UNCHANGED <<peers, inRooms, netRoom, codeRoom, keyOf>>
    BY <1>7 DEF Join
  <2> QED
    BY <2>1, <2>2, <2>3, HandStep DEF Holding
<1>8. CASE Disconnect(c)
  <2>1. /\ at[c] = "reading" /\ held' = [held EXCEPT ![c] = None]
        /\ at' = [at EXCEPT ![c] = "leaving"]
        /\ UNCHANGED <<peers, inRooms, netRoom, codeRoom, keyOf>>
    BY <1>1, <1>2, <1>8 DEF Disconnect, HandlerTypes
  <2> QED
    BY <2>1, HandStep
<1> QED
  BY <1>3, <1>5, <1>6, <1>7, <1>8 DEF Ask

(* The peer enters the room it has in hand.                                *)
LEMMA AddStep ==
  ASSUME IInv, NEW c \in Conns, AddPeer(c)
  PROVE  \A d \in Conns : ConnInv(d)'
<1>1. RoomTypes /\ HandlerTypes /\ FieldTypes /\ ConnInv(c)
  BY TypeParts DEF IInv
<1>2. /\ UNCHANGED <<keyOf, inRooms, netRoom, codeRoom, held>>
      /\ \A d \in Conns : at'[d] = IF d = c THEN "joining" ELSE at[d]
      /\ \A r \in Rooms : peers'[r] = IF r = held[c] THEN peers[r] \cup {c} ELSE peers[r]
      /\ at[c] \notin {"joining", "emptied", "removed", "gone"}
  BY <1>1 DEF AddPeer, Adding, HandlerTypes, RoomTypes
<1>3. FieldsFit(c)' /\ HeldFits(c)'
  BY <1>1, <1>2 DEF ConnInv, FieldsFit, HeldFits
<1>4. MemberInv(c)'
  BY <1>1, <1>2 DEF ConnInv, MemberInv, Member
<1>5. RecordInv(c)'
  BY <1>1, <1>2 DEF ConnInv, RecordInv, Recording
<1>6. ConnInv(c)'
  BY <1>3, <1>4, <1>5 DEF ConnInv
<1> QED
  BY <1>2, <1>6, OthersKept

(* The peer and its connection record the room: the key was free in the    *)
(* peer's own table.                                                       *)
LEMMA JoinedStep ==
  ASSUME IInv, NEW c \in Conns, JoinedRoom(c)
  PROVE  \A d \in Conns : ConnInv(d)'
<1>1. /\ HubTypes /\ RecordTypes /\ HandlerTypes /\ FieldTypes /\ ConnInv(c)
      /\ KeysAssumption
  BY TypeParts, KeysAssumption DEF IInv
<1> SUFFICES ASSUME NEW h, h = held[c], NEW K, K = keyOf[h]
             PROVE  \A d \in Conns : ConnInv(d)'
  OBVIOUS
<1>2. h \in Rooms /\ h # None /\ at[c] = "joining"
  BY <1>1 DEF JoinedRoom, HandlerTypes
<1>3. \/ K = AddrOf[c] /\ netRoom[c] = None /\ IsNetwork(h)
      \/ K \in Codes /\ codeRoom[c] = None /\ ~IsNetwork(h)
  BY <1>1, <1>2 DEF ConnInv, HeldFits, IsNetwork, KeysAssumption
<1>4. K \in Keys
  BY <1>1, <1>3 DEF Keys, KeysAssumption
<1>5. /\ UNCHANGED <<keyOf, peers>>
      /\ \A d \in Conns : /\ at'[d] = IF d = c THEN "notifying" ELSE at[d]
                          /\ held'[d] = IF d = c THEN None ELSE held[d]
  <2>1. /\ at' = [at EXCEPT ![c] = "notifying"] /\ held' = [held EXCEPT ![c] = None]
        /\ UNCHANGED <<keyOf, peers>>
    BY DEF JoinedRoom, Holding
  <2> QED
    BY <1>1, <2>1 DEF HandlerTypes
<1>12. inRooms' = [inRooms EXCEPT ![c][K] = h]
  BY DEF JoinedRoom, Recorded
<1>13. /\ \A d \in Conns \ {c} : inRooms'[d] = inRooms[d]
       /\ \A k \in Keys : inRooms'[c][k] = IF k = K THEN h ELSE inRooms[c][k]
  BY <1>1, <1>4, <1>12 DEF RecordTypes
<1>6. /\ \A d \in Conns \ {c} : netRoom'[d] = netRoom[d] /\ codeRoom'[d] = codeRoom[d]
      /\ netRoom'[c] = IF IsNetwork(h) THEN h ELSE netRoom[c]
      /\ codeRoom'[c] = IF IsNetwork(h) THEN codeRoom[c] ELSE h
  BY <1>1 DEF JoinedRoom, FieldTypes
<1>7. FieldsFit(c)'
  BY <1>1, <1>3, <1>5, <1>6 DEF ConnInv, FieldsFit, IsNetwork, KeysAssumption
<1>8. HeldFits(c)'
  <2>1. held'[c] = None
    BY <1>5
  <2> QED
    BY <2>1 DEF HeldFits
<1>9. MemberInv(c)'
  BY <1>1, <1>2, <1>3, <1>5, <1>6, KeysAssumption DEF ConnInv, MemberInv, Member
<1>10. RecordInv(c)'
  <2> SUFFICES ASSUME NEW r \in Rooms, NEW k \in Keys
               PROVE  inRooms'[c][k] = r <=> keyOf[r] = k /\ Recording(c, r)'
    BY <1>5 DEF RecordInv
  <2>1. inRooms[c][k] = r <=> keyOf[r] = k /\ (r = netRoom[c] \/ r = codeRoom[c])
    BY <1>1, <1>2 DEF ConnInv, RecordInv, Recording
  <2>2. Recording(c, r)' <=> r = netRoom[c] \/ r = codeRoom[c] \/ r = h
    BY <1>3, <1>5, <1>6, KeysAssumption DEF Recording, KeysAssumption
  <2>3. r = netRoom[c] \/ r = codeRoom[c] => r = h \/ keyOf[r] # K
    BY <1>1, <1>3, KeysAssumption DEF ConnInv, FieldsFit
  <2> QED
    BY <1>13, <2>1, <2>2, <2>3
<1>11. ConnInv(c)'
  BY <1>7, <1>8, <1>9, <1>10 DEF ConnInv
<1> QED
  BY <1>5, <1>6, <1>11, <1>13, OthersKept

(* The peer leaves a room: the field is reset with the room's own record,  *)
(* the peer's record waits for LeftRoom.                                   *)
LEMMA RemoveStep ==
  ASSUME IInv, NEW c \in Conns, RemoveFromNetwork(c) \/ RemoveFromCode(c)
  PROVE  \A d \in Conns : ConnInv(d)'
<1>1. /\ RoomTypes /\ HandlerTypes /\ FieldTypes /\ ConnInv(c) /\ KeysAssumption
  BY TypeParts, KeysAssumption DEF IInv
<1>2. PICK r \in Rooms :
        /\ Remove(c, r) /\ at[c] = "leaving" /\ UNCHANGED <<keyOf, inRooms>>
        /\ \/ /\ r = netRoom[c]
              /\ netRoom' = [netRoom EXCEPT ![c] = None] /\ UNCHANGED codeRoom
           \/ /\ r = codeRoom[c] /\ netRoom[c] = None
              /\ codeRoom' = [codeRoom EXCEPT ![c] = None] /\ UNCHANGED netRoom
  BY <1>1 DEF RemoveFromNetwork, RemoveFromCode, FieldTypes
<1>3. PICK a \in {"emptied", "removed"} :
        at' = [at EXCEPT ![c] = a] /\ held' = [held EXCEPT ![c] = r]
  BY <1>2 DEF Remove, Holding
<1>4. /\ \A d \in Conns : at'[d] = IF d = c THEN a ELSE at[d]
      /\ \A d \in Conns : held'[d] = IF d = c THEN r ELSE held[d]
      /\ \A q \in Rooms : peers'[q] = IF q = r THEN peers[q] \ {c} ELSE peers[q]
  BY <1>1, <1>2, <1>3 DEF Remove, HandlerTypes, RoomTypes
<1>5. /\ \A d \in Conns \ {c} : netRoom'[d] = netRoom[d] /\ codeRoom'[d] = codeRoom[d]
      /\ \/ r = netRoom[c] /\ netRoom'[c] = None /\ codeRoom'[c] = codeRoom[c]
         \/ /\ r = codeRoom[c] /\ netRoom[c] = None /\ netRoom'[c] = None
            /\ codeRoom'[c] = None
  BY <1>1, <1>2 DEF FieldTypes
<1>6. r # None /\ (r = netRoom[c] => r # codeRoom[c])
  BY <1>1, <1>2 DEF ConnInv, FieldsFit, KeysAssumption
<1>7. FieldsFit(c)'
  BY <1>1, <1>2, <1>4, <1>5 DEF ConnInv, FieldsFit
<1>8. HeldFits(c)'
  BY <1>1, <1>2, <1>4, <1>5, <1>6 DEF ConnInv, FieldsFit, HeldFits
<1>9. MemberInv(c)'
  <2> SUFFICES ASSUME NEW q \in Rooms PROVE c \in peers'[q] <=> Member(c, q)'
    BY DEF MemberInv
  <2>1. c \in peers[q] <=> q = netRoom[c] \/ q = codeRoom[c]
    BY <1>1, <1>2 DEF ConnInv, MemberInv, Member
  <2>2. Member(c, q)' <=> q = netRoom'[c] \/ q = codeRoom'[c]
    BY <1>3, <1>4 DEF Member
  <2>3. q # None
    BY <1>1 DEF KeysAssumption
  <2> QED
    BY <1>4, <1>5, <1>6, <2>1, <2>2, <2>3
<1>10. RecordInv(c)'
  <2> SUFFICES ASSUME NEW q \in Rooms, NEW k \in Keys
               PROVE  inRooms[c][k] = q <=> keyOf[q] = k /\ Recording(c, q)'
    BY <1>2 DEF RecordInv
  <2>1. inRooms[c][k] = q <=> keyOf[q] = k /\ (q = netRoom[c] \/ q = codeRoom[c])
    BY <1>1, <1>2 DEF ConnInv, RecordInv, Recording
  <2>2. Recording(c, q)' <=> q = netRoom'[c] \/ q = codeRoom'[c] \/ q = r
    BY <1>3, <1>4 DEF Recording
  <2>3. q # None
    BY <1>1 DEF KeysAssumption
  <2> QED
    BY <1>5, <2>1, <2>2, <2>3
<1>11. ConnInv(c)'
  BY <1>7, <1>8, <1>9, <1>10 DEF ConnInv
<1> QED
  BY <1>2, <1>4, <1>5, <1>11, OthersKept

(* The peer forgets the room it left: no other room of its has that key.   *)
LEMMA LeftStep ==
  ASSUME IInv, NEW c \in Conns, LeftRoom(c)
  PROVE  \A d \in Conns : ConnInv(d)'
<1>1. /\ HubTypes /\ RecordTypes /\ HandlerTypes /\ FieldTypes /\ ConnInv(c)
      /\ KeysAssumption
  BY TypeParts, KeysAssumption DEF IInv
<1> SUFFICES ASSUME NEW h, h = held[c], NEW K, K = keyOf[h]
             PROVE  \A d \in Conns : ConnInv(d)'
  OBVIOUS
<1>2. h \in Rooms /\ h # None /\ at[c] \in {"emptied", "removed"}
  BY <1>1 DEF LeftRoom, HandlerTypes
<1>3. \/ K = AddrOf[c] /\ netRoom[c] = None
      \/ K \in Codes /\ codeRoom[c] = None
  BY <1>1, <1>2 DEF ConnInv, HeldFits
<1>4. K \in Keys
  BY <1>1, <1>3 DEF Keys, KeysAssumption
<1>5. PICK a \in {"dropping", "announcing"} : at' = [at EXCEPT ![c] = a]
  BY DEF LeftRoom
<1>6. /\ UNCHANGED <<keyOf, peers, netRoom, codeRoom, held>>
      /\ \A d \in Conns : at'[d] = IF d = c THEN a ELSE at[d]
  BY <1>1, <1>5 DEF LeftRoom, HandlerTypes
<1>7. inRooms' = [inRooms EXCEPT ![c][K] = None]
  BY DEF LeftRoom
<1>8. /\ \A d \in Conns \ {c} : inRooms'[d] = inRooms[d]
      /\ \A k \in Keys : inRooms'[c][k] = IF k = K THEN None ELSE inRooms[c][k]
  BY <1>1, <1>4, <1>7 DEF RecordTypes
<1>9. FieldsFit(c)' /\ HeldFits(c)'
  BY <1>1, <1>2, <1>6 DEF ConnInv, FieldsFit, HeldFits
<1>10. MemberInv(c)'
  BY <1>1, <1>2, <1>6 DEF ConnInv, MemberInv, Member
<1>11. RecordInv(c)'
  <2> SUFFICES ASSUME NEW r \in Rooms, NEW k \in Keys
               PROVE  inRooms'[c][k] = r <=> keyOf[r] = k /\ Recording(c, r)'
    BY <1>6 DEF RecordInv
  <2>1. inRooms[c][k] = r <=>
          keyOf[r] = k /\ (r = netRoom[c] \/ r = codeRoom[c] \/ r = h)
    BY <1>1, <1>2 DEF ConnInv, RecordInv, Recording
  <2>2. Recording(c, r)' <=> r = netRoom[c] \/ r = codeRoom[c]
    BY <1>5, <1>6 DEF Recording
  <2>3. r # None
    BY <1>1 DEF KeysAssumption
  <2>4. r = netRoom[c] \/ r = codeRoom[c] => keyOf[r] # K
    BY <1>1, <1>3, <2>3 DEF ConnInv, FieldsFit, KeysAssumption
  <2> QED
    BY <1>8, <2>1, <2>2, <2>3, <2>4
<1>12. ConnInv(c)'
  BY <1>9, <1>10, <1>11 DEF ConnInv
<1> QED
  BY <1>6, <1>8, <1>12, OthersKept

(* Every other step of a handler: it goes on with the same room in hand or *)
(* with none.                                                              *)
LEMMA ContinueStep ==
  ASSUME IInv, NEW c \in Conns, Continue(c)
  PROVE  \A d \in Conns : ConnInv(d)'
<1>1. HandlerTypes /\ ConnInv(c)
  BY TypeParts DEF IInv
<1>2. held[c] = None <=> at[c] \in {"reading", "notifying", "leaving", "gone"}
  BY <1>1 DEF HandlerTypes
<1>3. held[c] \in Rooms \cup {None} /\ held = [held EXCEPT ![c] = held[c]]
  BY <1>1 DEF HandlerTypes
<1>4. ASSUME NEW a \in Places \ {"joining", "emptied", "removed", "gone"},
             at[c] \notin {"joining", "emptied", "removed"},
             at' = [at EXCEPT ![c] = a],
             UNCHANGED <<keyOf, peers, inRooms, netRoom, codeRoom>>,
             held' = held \/ held' = [held EXCEPT ![c] = None]
      PROVE  \A d \in Conns : ConnInv(d)'
  <2>1. CASE held' = held
    <3>1. held[c] # None => \/ keyOf'[held[c]] = AddrOf[c] /\ netRoom[c] = None
                            \/ keyOf'[held[c]] \in Codes /\ codeRoom[c] = None
      BY <1>1, <1>4 DEF ConnInv, HeldFits
    <3>2. held' = [held EXCEPT ![c] = held[c]]
      BY <1>3, <2>1
    <3> QED
      BY <1>3, <1>4, <3>1, <3>2, HandStep
  <2>2. CASE held' = [held EXCEPT ![c] = None]
    BY <1>4, <2>2, HandStep
  <2> QED
    BY <1>4, <2>1, <2>2
<1>5. CASE AddRefused(c) \/ AddCreatedRefused(c) \/ DropCreated(c)
  BY <1>4, <1>5 DEF AddRefused, AddCreatedRefused, DropCreated, Holding, Places
<1>6. CASE Notified(c)
  BY <1>4, <1>6 DEF Notified, Places
<1>7. CASE Drop(c) \/ Announced(c)
  BY <1>4, <1>7 DEF Drop, Announced, Holding, Places
<1>8. CASE Finish(c)
  <2>1. /\ at[c] = "leaving" /\ at' = [at EXCEPT ![c] = "gone"]
        /\ netRoom[c] = None /\ codeRoom[c] = None
        /\ held' = [held EXCEPT ![c] = None]
        /\ UNCHANGED <<keyOf, peers, inRooms, netRoom, codeRoom>>
    BY <1>2, <1>3, <1>8 DEF Finish, AllLeft
  <2> QED
    BY <2>1, HandStep
<1> QED
  BY <1>5, <1>6, <1>7, <1>8, AddStep, JoinedStep, RemoveStep, LeftStep DEF Continue

LEMMA ConnsStep == IInv /\ [Next]_vars => \A d \in Conns : ConnInv(d)'
<1> SUFFICES ASSUME IInv, [Next]_vars PROVE \A d \in Conns : ConnInv(d)'
  OBVIOUS
<1>1. CASE UNCHANGED <<keyOf, peers, inRooms, conn>>
  <2> SUFFICES ASSUME NEW d \in Conns PROVE ConnInv(d)'
    OBVIOUS
  <2>1. TypeOK /\ ConnInv(d)
    BY DEF IInv
  <2> QED
    BY <1>1, <2>1, OtherConn DEF conn
<1>2. ASSUME NEW c \in Conns, Ask(c) \/ Continue(c) PROVE \A d \in Conns : ConnInv(d)'
  BY <1>2, AskStep, ContinueStep
<1> QED
  BY <1>1, <1>2
  DEF Next, StartSweep, SweepOn, LookAt, DeleteStale, EndSweep, IdleOut, vars

LEMMA InitIInv == Init => IInv
<1> SUFFICES ASSUME Init PROVE IInv
  OBVIOUS
<1>1. HubInv
  BY DEF Init, HubInv
<1>2. ASSUME NEW c \in Conns PROVE ConnInv(c)
  <2>1. FieldsFit(c) /\ HeldFits(c)
    BY DEF Init, FieldsFit, HeldFits
  <2>2. MemberInv(c)
    BY KeysAssumption DEF Init, MemberInv, Member
  <2>3. RecordInv(c)
    BY KeysAssumption DEF Init, RecordInv, Recording
  <2> QED
    BY <2>1, <2>2, <2>3 DEF ConnInv
<1> QED
  BY <1>1, <1>2, InitTypes DEF IInv

(* The agreements hold at every point of every handler.                    *)
THEOREM Invariant == Spec => []IInv
<1>1. IInv /\ [Next]_vars => HubInv' /\ (\A c \in Conns : ConnInv(c))'
  BY HubStep, ConnsStep DEF IInv
<1>2. IInv <=> TypeOK /\ HubInv /\ \A c \in Conns : ConnInv(c)
  BY DEF IInv
<1>3. IInv' <=> TypeOK' /\ HubInv' /\ (\A c \in Conns : ConnInv(c))'
  BY DEF IInv
<1> QED
  BY <1>1, <1>2, <1>3, InitIInv, Typing, PTL DEF Spec

-----------------------------------------------------------------------------
(* The room, the peer and the connection agree on every membership while   *)
(* the connection's goroutine waits for a message.                         *)
THEOREM Agreement == Spec => []MembershipAgrees
<1>1. IInv => MembershipAgrees
  <2> SUFFICES ASSUME IInv, NEW c \in Conns, at[c] = "reading", NEW r \in Rooms
               PROVE  /\ c \in peers[r] <=> r \in {netRoom[c], codeRoom[c]}
                      /\ c \in peers[r] => inRooms[c][keyOf[r]] = r
                      /\ \A k \in Keys :
                           inRooms[c][k] = r => c \in peers[r] /\ keyOf[r] = k
    BY DEF MembershipAgrees
  <2>1. ConnInv(c) /\ r # None /\ KeysAssumption
    BY KeysAssumption DEF IInv, KeysAssumption
  <2>2. c \in peers[r] <=> r = netRoom[c] \/ r = codeRoom[c]
    BY <2>1 DEF ConnInv, MemberInv, Member
  <2>3. \A k \in Keys :
          inRooms[c][k] = r <=> keyOf[r] = k /\ (r = netRoom[c] \/ r = codeRoom[c])
    BY <2>1 DEF ConnInv, RecordInv, Recording
  <2>4. r = netRoom[c] \/ r = codeRoom[c] => keyOf[r] \in Keys
    BY <2>1 DEF ConnInv, FieldsFit, Keys, KeysAssumption
  <2> QED
    BY <2>2, <2>3, <2>4
<1> QED
  BY <1>1, Invariant, PTL

(* Nobody who has left is listed anywhere.                                 *)
THEOREM Departed == Spec => []NoGhosts
<1>1. IInv => NoGhosts
  <2> SUFFICES ASSUME IInv, NEW c \in Conns, at[c] = "gone"
               PROVE  /\ \A r \in Rooms : c \notin peers[r]
                      /\ \A k \in Keys : inRooms[c][k] = None
    BY DEF NoGhosts
  <2>1. ConnInv(c) /\ RecordTypes /\ None \notin Rooms
    BY TypeParts, KeysAssumption DEF IInv
  <2>2. netRoom[c] = None /\ codeRoom[c] = None
    BY <2>1 DEF ConnInv, FieldsFit
  <2>3. \A r \in Rooms : c \notin peers[r]
    BY <2>1, <2>2 DEF ConnInv, MemberInv, Member
  <2>4. \A r \in Rooms, k \in Keys : inRooms[c][k] # r
    BY <2>1, <2>2 DEF ConnInv, RecordInv, Recording
  <2>5. \A k \in Keys : inRooms[c][k] \in Rooms \cup {None}
    BY <2>1 DEF RecordTypes
  <2> QED
    BY <2>3, <2>4, <2>5
<1> QED
  BY <1>1, Invariant, PTL

(* Both together.                                                          *)
THEOREM Members == Spec => []MembersAreThere
<1>1. MembershipAgrees /\ NoGhosts => MembersAreThere
  BY DEF MembersAreThere
<1> QED
  BY <1>1, Agreement, Departed, PTL

(* Whoever is in an address's room came from that address.                 *)
THEOREM Grouped == Spec => []NoStrangers
<1>1. IInv => NoStrangers
  <2> SUFFICES ASSUME IInv, NEW r \in Rooms, IsNetwork(r), NEW c \in Conns, c \in peers[r]
               PROVE  AddrOf[c] = keyOf[r]
    BY TypeParts DEF NoStrangers, IInv, RoomTypes
  <2>1. ConnInv(c) /\ r # None /\ keyOf[r] \notin Codes
    BY KeysAssumption DEF IInv, IsNetwork, KeysAssumption
  <2>2. r = netRoom[c] \/ r = codeRoom[c] \/ r = held[c]
    BY <2>1 DEF ConnInv, MemberInv, Member
  <2> QED
    BY <2>1, <2>2 DEF ConnInv, FieldsFit, HeldFits
<1> QED
  BY <1>1, Invariant, PTL

-----------------------------------------------------------------------------
(* What the limits rest on: counting and inserting happen under one lock.  *)

LEMMA KeysFinite == IsFiniteSet(Keys) /\ IsFiniteSet(Listed)
<1>1. IsFiniteSet(Keys)
  BY FiniteAssumption, FS_Union DEF Keys
<1> QED
  BY <1>1, FS_Subset DEF Listed

LEMMA HubLimitStep ==
  ASSUME TypeOK, [Next]_vars, Cardinality(Listed) <= MaxRooms
  PROVE  Cardinality(Listed') <= MaxRooms
<1>1. HubTypes /\ MaxRooms \in Nat /\ Cardinality(Listed) \in Nat
  BY TypeParts, LimitsAssumption, KeysFinite, FS_CardinalityType
<1>2. ASSUME NEW k, Listed' \subseteq Listed \cup {k}, ~AtCapacity
      PROVE  Cardinality(Listed') <= MaxRooms
  <2>1. /\ IsFiniteSet(Listed \cup {k})
        /\ Cardinality(Listed \cup {k}) \in {Cardinality(Listed), Cardinality(Listed) + 1}
    BY KeysFinite, FS_AddElement
  <2>2. Cardinality(Listed') <= Cardinality(Listed \cup {k})
    BY <1>2, <2>1, FS_Subset
  <2>3. Cardinality(Listed') \in Nat
    BY <1>2, <2>1, FS_Subset, FS_CardinalityType
  <2> QED
    BY <1>1, <1>2, <2>1, <2>2, <2>3 DEF AtCapacity
<1>3. ASSUME NEW k, hub' = [hub EXCEPT ![k] = None]
      PROVE  Cardinality(Listed') <= MaxRooms
  <2>1. Listed' \subseteq Listed
    BY <1>1, <1>3 DEF Listed, HubTypes
  <2>2. Cardinality(Listed') <= Cardinality(Listed) /\ Cardinality(Listed') \in Nat
    BY <2>1, KeysFinite, FS_Subset, FS_CardinalityType
  <2> QED
    BY <1>1, <2>2
<1>4. ASSUME NEW c \in Conns, HelloNew(c) \/ Create(c)
      PROVE  Cardinality(Listed') <= MaxRooms
  <2>1. PICK k, r : hub' = [hub EXCEPT ![k] = r]
    BY <1>4 DEF HelloNew, Create, NewRoom
  <2>2. Listed' \subseteq Listed \cup {k}
    BY <1>1, <2>1 DEF Listed, HubTypes
  <2>3. ~AtCapacity
    BY <1>4 DEF HelloNew, Create
  <2> QED
    BY <1>2, <2>2, <2>3
<1>5. ASSUME NEW c \in Conns, DropCreated(c) \/ Drop(c)
      PROVE  Cardinality(Listed') <= MaxRooms
  BY <1>3, <1>5 DEF DropCreated, Drop
<1>6. CASE DeleteStale
  BY <1>3, <1>6 DEF DeleteStale
<1>7. CASE UNCHANGED hub
  <2>1. Listed' = Listed
    BY <1>7 DEF Listed
  <2> QED
    BY <2>1
<1> QED
  BY <1>4, <1>5, <1>6, <1>7
  DEF Next, Ask, Continue, HelloFound, Join, Disconnect, AddPeer, AddRefused,
      AddCreatedRefused, JoinedRoom, Notified, RemoveFromNetwork, RemoveFromCode, LeftRoom,
      Announced, Finish, StartSweep, SweepOn, LookAt, EndSweep, IdleOut, vars

RoomsWithin == \A r \in Rooms : Cardinality(peers[r]) <= Capacity(r)

LEMMA RoomLimitStep ==
  ASSUME TypeOK, [Next]_vars, RoomsWithin
  PROVE  RoomsWithin'
<1>1. HubTypes /\ RoomTypes /\ HandlerTypes
  BY TypeParts
<1>2. \A r \in Rooms : Capacity(r) \in Nat \ {0}
  BY LimitsAssumption DEF Capacity
<1>3. \A r \in Rooms : IsFiniteSet(peers[r]) /\ Cardinality(peers[r]) \in Nat
  BY <1>1, FiniteAssumption, FS_Subset, FS_CardinalityType DEF RoomTypes
<1>4. ASSUME NEW k, NEW r \in Rooms, Free(r), NewRoom(k, r), UNCHANGED peers
      PROVE  RoomsWithin'
  <2> SUFFICES ASSUME NEW q \in Rooms PROVE Cardinality(peers[q]) <= Capacity(q)'
    BY <1>4 DEF RoomsWithin
  <2>1. CASE q = r
    <3>1. Cardinality(peers[q]) = 0
      BY <1>4, <2>1, FS_EmptySet DEF Free
    <3>2. Capacity(q)' \in Nat
      BY LimitsAssumption DEF Capacity
    <3> QED
      BY <3>1, <3>2
  <2>2. CASE q # r
    <3>1. keyOf'[q] = keyOf[q]
      BY <1>1, <1>4, <2>2 DEF NewRoom, HubTypes
    <3> QED
      BY <3>1 DEF RoomsWithin, Capacity, IsNetwork
  <2> QED
    BY <2>1, <2>2
<1>5. ASSUME NEW c \in Conns, HelloNew(c) \/ Create(c) PROVE RoomsWithin'
  BY <1>4, <1>5 DEF HelloNew, Create
<1>6. ASSUME NEW c \in Conns, AddPeer(c) PROVE RoomsWithin'
  <2> SUFFICES ASSUME NEW q \in Rooms PROVE Cardinality(peers'[q]) <= Capacity(q)
    BY <1>6 DEF AddPeer, RoomsWithin, Capacity, IsNetwork
  <2>1. CASE q = held[c]
    <3>1. peers'[q] = peers[q] \cup {c}
      BY <1>1, <1>6, <2>1 DEF AddPeer, RoomTypes
    <3>2. Cardinality(peers'[q]) \in {Cardinality(peers[q]), Cardinality(peers[q]) + 1}
      BY <1>3, <3>1, FS_AddElement
    <3>3. ~(Cardinality(peers[q]) >= Capacity(q))
      BY <1>6, <2>1 DEF AddPeer, Full
    <3> QED
      BY <1>2, <1>3, <3>2, <3>3
  <2>2. CASE q # held[c]
    <3>1. peers'[q] = peers[q]
      BY <1>1, <1>6, <2>2 DEF AddPeer, RoomTypes
    <3> QED
      BY <3>1 DEF RoomsWithin
  <2> QED
    BY <2>1, <2>2
<1>7. ASSUME NEW c \in Conns, RemoveFromNetwork(c) \/ RemoveFromCode(c) PROVE RoomsWithin'
  <2> SUFFICES ASSUME NEW q \in Rooms PROVE Cardinality(peers'[q]) <= Capacity(q)
    BY <1>7 DEF RemoveFromNetwork, RemoveFromCode, RoomsWithin, Capacity, IsNetwork
  <2>1. peers'[q] \in SUBSET peers[q]
    BY <1>1, <1>7 DEF RemoveFromNetwork, RemoveFromCode, Remove, RoomTypes
  <2>2. Cardinality(peers'[q]) <= Cardinality(peers[q]) /\ Cardinality(peers'[q]) \in Nat
    BY <1>3, <2>1, FS_Subset, FS_CardinalityType
  <2>3. Cardinality(peers[q]) <= Capacity(q)
    BY DEF RoomsWithin
  <2> QED
    BY <1>2, <1>3, <2>2, <2>3
<1>8. CASE UNCHANGED <<keyOf, peers>>
  BY <1>8 DEF RoomsWithin, Capacity, IsNetwork
<1> QED
  BY <1>5, <1>6, <1>7, <1>8
  DEF Next, Ask, Continue, HelloFound, Join, Disconnect, AddRefused, AddCreatedRefused,
      DropCreated, JoinedRoom, Notified, LeftRoom, Drop, Announced, Finish, StartSweep,
      SweepOn, LookAt, DeleteStale, EndSweep, IdleOut, vars

(* Neither the hub nor a room ever passes its limit.                       *)
THEOREM Limited == Spec => []WithinLimits
<1>1. Init => Cardinality(Listed) <= MaxRooms /\ RoomsWithin
  <2> SUFFICES ASSUME Init PROVE Cardinality(Listed) <= MaxRooms /\ RoomsWithin
    OBVIOUS
  <2>1. Listed = {} /\ \A r \in Rooms : peers[r] = {}
    BY DEF Init, Listed
  <2> QED
    BY <2>1, FS_EmptySet, LimitsAssumption DEF RoomsWithin, Capacity
<1>2. WithinLimits <=> Cardinality(Listed) <= MaxRooms /\ RoomsWithin
  BY DEF WithinLimits, RoomsWithin
<1>3. TypeOK /\ [Next]_vars /\ Cardinality(Listed) <= MaxRooms /\ RoomsWithin
        => (Cardinality(Listed) <= MaxRooms /\ RoomsWithin)'
  BY HubLimitStep, RoomLimitStep
<1> QED
  BY <1>1, <1>2, <1>3, Typing, PTL DEF Spec

-----------------------------------------------------------------------------
(* Who will fill the room key k leads to, or drop k.                       *)
InCharge(c, k) ==
  \/ Adding(c) /\ held[c] = hub[k]
  \/ at[c] \in {"emptied", "dropping"} /\ keyOf[held[c]] = k

LEMMA ChargeStep ==
  ASSUME IInv, [Next]_vars, EmptyHasHandler,
         NEW k \in Keys, hub'[k] # None, peers'[hub'[k]] = {}
  PROVE  \E c \in Conns : InCharge(c, k)'
<1>1. /\ HubTypes /\ RoomTypes /\ HandlerTypes /\ FieldTypes /\ HubInv
      /\ hub[k] # None /\ peers[hub[k]] = {} => \E c \in Conns : InCharge(c, k)
  BY TypeParts DEF IInv, EmptyHasHandler, InCharge
<1> USE DEF InCharge, Adding
(* The step of c changes nothing of whoever else is in charge.             *)
<1>2. ASSUME NEW c \in Conns, NEW a, NEW r,
             at' = [at EXCEPT ![c] = a], held' = [held EXCEPT ![c] = r],
             hub'[k] = hub[k], peers'[hub[k]] = peers[hub[k]],
             \A q \in Rooms : keyOf'[q] = keyOf[q] \/ Free(q),
             ~InCharge(c, k)
      PROVE  \E d \in Conns : InCharge(d, k)'
  <2>1. PICK d \in Conns : InCharge(d, k)
    BY <1>1, <1>2
  <2>2. d # c /\ at'[d] = at[d] /\ held'[d] = held[d]
    BY <1>1, <1>2, <2>1 DEF HandlerTypes
  <2>3. keyOf'[held[d]] = keyOf[held[d]]
    BY <1>1, <1>2, <2>1 DEF HandlerTypes, Free
  <2> QED
    BY <1>2, <2>1, <2>2, <2>3
<1>3. ASSUME NEW c \in Conns, NEW a,
             at' = [at EXCEPT ![c] = a], UNCHANGED held,
             hub'[k] = hub[k], peers'[hub[k]] = peers[hub[k]], UNCHANGED keyOf,
             ~InCharge(c, k)
      PROVE  \E d \in Conns : InCharge(d, k)'
  <2>1. held' = [held EXCEPT ![c] = held[c]]
    BY <1>1, <1>3 DEF HandlerTypes
  <2> QED
    BY <1>2, <1>3, <2>1
<1>4. ASSUME NEW c \in Conns, NEW kk \in Keys, NEW r \in Rooms,
             NEW a \in {"adding network", "adding created"}, at[c] = "reading",
             Free(r), NewRoom(kk, r), Holding(c, a, r), UNCHANGED peers
      PROVE  \E d \in Conns : InCharge(d, k)'
  <2>1. CASE k = kk
    <3>1. hub'[k] = r /\ held'[c] = r /\ at'[c] = a
      BY <1>1, <1>4, <2>1 DEF NewRoom, Holding, HubTypes, HandlerTypes
    <3> QED
      BY <1>4, <3>1
  <2>2. CASE k # kk
    <3>1. hub'[k] = hub[k] /\ \A q \in Rooms : keyOf'[q] = keyOf[q] \/ Free(q)
      BY <1>1, <1>4, <2>2 DEF NewRoom, HubTypes
    <3> QED
      BY <1>2, <1>4, <3>1 DEF Holding
  <2> QED
    BY <2>1, <2>2
<1>5. ASSUME NEW c \in Conns, Ask(c) PROVE \E d \in Conns : InCharge(d, k)'
  <2>1. CASE HelloFound(c) \/ Join(c)
    BY <1>2, <2>1 DEF HelloFound, Join, Holding
  <2>2. CASE HelloNew(c)
    BY <1>4, <2>2, KeysAssumption DEF HelloNew, NetworkKey, Keys, KeysAssumption
  <2>3. CASE Create(c)
    BY <1>4, <2>3 DEF Create, Keys
  <2>4. CASE Disconnect(c)
    BY <1>3, <2>4 DEF Disconnect
  <2> QED
    BY <1>5, <2>1, <2>2, <2>3, <2>4 DEF Ask
<1>6. ASSUME NEW c \in Conns, Full(held[c]), held[c] = hub[k]
      PROVE  peers[hub[k]] # {}
  <2>1. Capacity(held[c]) \in Nat \ {0}
    BY LimitsAssumption DEF Capacity
  <2> QED
    BY <1>6, <2>1, FS_EmptySet DEF Full
<1>7. ASSUME NEW c \in Conns, AddPeer(c) PROVE \E d \in Conns : InCharge(d, k)'
  <2>1. held[c] \in Rooms /\ peers' = [peers EXCEPT ![held[c]] = @ \cup {c}]
        /\ UNCHANGED <<hub, keyOf, held>> /\ at' = [at EXCEPT ![c] = "joining"]
        /\ at[c] \notin {"emptied", "dropping"}
    BY <1>1, <1>7 DEF AddPeer, HandlerTypes
  <2>2. held[c] # hub[k]
    BY <1>1, <2>1 DEF RoomTypes
  <2>3. peers'[hub[k]] = peers[hub[k]]
    BY <1>1, <2>1, <2>2 DEF RoomTypes, HubTypes
  <2> QED
    BY <1>3, <2>1, <2>2, <2>3
<1>8. ASSUME NEW c \in Conns, AddRefused(c) \/ AddCreatedRefused(c)
      PROVE  \E d \in Conns : InCharge(d, k)'
  <2>1. Full(held[c]) /\ UNCHANGED <<hub, keyOf, peers>>
        /\ at[c] \notin {"emptied", "dropping"}
    BY <1>8 DEF AddRefused, AddCreatedRefused
  <2>2. ~InCharge(c, k)
    BY <1>6, <2>1
  <2>3. CASE AddRefused(c)
    BY <1>2, <2>1, <2>2, <2>3 DEF AddRefused, Holding
  <2>4. CASE AddCreatedRefused(c)
    BY <1>3, <2>1, <2>2, <2>4 DEF AddCreatedRefused
  <2> QED
    BY <1>8, <2>3, <2>4
<1>9. ASSUME NEW c \in Conns, DropCreated(c) \/ Drop(c)
      PROVE  \E d \in Conns : InCharge(d, k)'
  <2>1. /\ hub' = [hub EXCEPT ![keyOf[held[c]]] = None]
        /\ at[c] \in {"dropping created", "dropping"} /\ UNCHANGED <<keyOf, peers>>
    BY <1>9 DEF DropCreated, Drop
  <2>2. keyOf[held[c]] # k /\ hub'[k] = hub[k]
    BY <1>1, <2>1 DEF HubTypes
  <2>3. ~InCharge(c, k)
    BY <2>1, <2>2
  <2> QED
    BY <1>2, <1>9, <2>1, <2>2, <2>3 DEF DropCreated, Drop, Holding
<1>10. ASSUME NEW c \in Conns, JoinedRoom(c) \/ Announced(c)
       PROVE  \E d \in Conns : InCharge(d, k)'
  BY <1>2, <1>10 DEF JoinedRoom, Announced, Holding
<1>11. ASSUME NEW c \in Conns, Notified(c) \/ Finish(c)
       PROVE  \E d \in Conns : InCharge(d, k)'
  BY <1>3, <1>11 DEF Notified, Finish
<1>12. ASSUME NEW c \in Conns, RemoveFromNetwork(c) \/ RemoveFromCode(c)
       PROVE  \E d \in Conns : InCharge(d, k)'
  <2>1. PICK r \in Rooms : Remove(c, r)
    BY <1>1, <1>12 DEF RemoveFromNetwork, RemoveFromCode, FieldTypes
  <2>2. at[c] = "leaving" /\ UNCHANGED <<hub, keyOf>>
    BY <1>12 DEF RemoveFromNetwork, RemoveFromCode
  <2>3. CASE hub[k] = r
    <3>1. Emptied(r, c)
      BY <1>1, <2>1, <2>2, <2>3 DEF Remove, Emptied, RoomTypes
    <3>2. at'[c] = "emptied" /\ held'[c] = r
      BY <1>1, <2>1, <3>1 DEF Remove, Holding, HandlerTypes
    <3>3. keyOf'[r] = k
      BY <1>1, <2>2, <2>3 DEF HubInv
    <3> QED
      BY <3>2, <3>3
  <2>4. CASE hub[k] # r
    <3>1. peers'[hub[k]] = peers[hub[k]]
      BY <1>1, <2>1, <2>2, <2>4 DEF Remove, RoomTypes, HubTypes
    <3> QED
      BY <1>2, <2>1, <2>2, <3>1 DEF Remove, Holding
  <2> QED
    BY <2>3, <2>4
<1>13. ASSUME NEW c \in Conns, LeftRoom(c) PROVE \E d \in Conns : InCharge(d, k)'
  <2>1. /\ at[c] \in {"emptied", "removed"} /\ UNCHANGED <<hub, keyOf, peers, held>>
        /\ at' = [at EXCEPT ![c] = IF at[c] = "emptied" THEN "dropping" ELSE "announcing"]
    BY <1>13 DEF LeftRoom
  <2>2. CASE InCharge(c, k)
    <3>1. at'[c] = "dropping" /\ keyOf'[held'[c]] = k
      BY <1>1, <2>1, <2>2 DEF HandlerTypes
    <3> QED
      BY <3>1
  <2>3. CASE ~InCharge(c, k)
    BY <1>3, <2>1, <2>3
  <2> QED
    BY <2>2, <2>3
<1>14. ASSUME UNCHANGED <<keyOf, peers, conn>>, hub'[k] = hub[k]
       PROVE  \E d \in Conns : InCharge(d, k)'
  BY <1>1, <1>14 DEF conn
<1>15. CASE DeleteStale
  <2>1. hub'[k] = hub[k]
    BY <1>1, <1>15 DEF DeleteStale, HubTypes
  <2> QED
    BY <1>14, <1>15, <2>1 DEF DeleteStale
<1>16. CASE UNCHANGED <<hub, keyOf, peers, conn>>
  BY <1>14, <1>16
<1> QED
  BY <1>5, <1>7, <1>8, <1>9, <1>10, <1>11, <1>12, <1>13, <1>15, <1>16
  DEF Next, Continue, StartSweep, SweepOn, LookAt, EndSweep, IdleOut, vars

(* No empty room is left to the sweeper.                                   *)
THEOREM Tended == Spec => []EmptyHasHandler
<1>1. Init => EmptyHasHandler
  BY DEF Init, EmptyHasHandler
<1>2. IInv /\ [Next]_vars /\ EmptyHasHandler => EmptyHasHandler'
  BY ChargeStep DEF EmptyHasHandler, InCharge
<1> QED
  BY <1>1, <1>2, Invariant, PTL DEF Spec
=============================================================================
