---------------------------- MODULE RelayControl ----------------------------
(***************************************************************************)
(* Control frames between browsers (internal/relay/conn.go, room.go,       *)
(* rendezvous.go): who is told of whom, what is queued for a browser that  *)
(* does not read, and what becomes of its transfers when it leaves.        *)
(*                                                                         *)
(* RelayRooms has how rooms are found, filled up and dropped; here there   *)
(* is one room of the network and one with a code.  RelayTransfer has how  *)
(* the bytes of a transfer move; here a transfer goes on or is over.  The  *)
(* handlers of one connection run one after the other, those of different  *)
(* connections interleave between any two of their locks.                  *)
(*                                                                         *)
(* A queue is read in order by its writePump, so that what a browser comes *)
(* to show is the last roster queued for it: "shown" is that one, and that *)
(* a queue is full happens at any frame.                                   *)
(***************************************************************************)
EXTENDS Naturals, FiniteSets

CONSTANTS
  Conns,       \* connections, each with its peer
  Transfers,   \* transfers, by id
  MaxTable,    \* MaxConcurrentTransfers
  MaxAsks,     \* bound: frames the browsers send, transfer_end not counted
  MaxMishaps,  \* bound: full queues, hang-ups and failures of sockets
  None

ASSUME BoundsAssumption ==
  MaxTable \in Nat /\ MaxAsks \in Nat /\ MaxMishaps \in Nat

Rooms == {"net", "code"}

VARIABLES
  members,        \* Room.peers
  roomsOf,        \* Peer.rooms
  joined,         \* Conn.netRoom and codeRoom
  closed,         \* peers whose closed channel is closed
  open,           \* connections whose websocket is open
  writing,        \* connections whose writePump runs
  shown,          \* the last roster in Peer.send
  at, job,        \* where each handler is, and what it is at
  asks,           \* how many frames the browsers sent
  mishaps,        \* how many queues were full, sockets hung up or failed
  table, live,    \* the transfers in Rendezvous, those not done
  from, to,       \* their peers
  raced,          \* history: peers whose roster two handlers were at, at once,
                  \* and nobody alone since
  swept, late     \* history: AbortForPeer is through with, or had begun
                  \* with the peer when the transfer was minted

membership == <<members, roomsOf, joined>>
sockets == <<closed, open, writing, shown, mishaps>>
transfers == <<table, live, from, to, late>>
vars == <<membership, sockets, at, job, asks, transfers, raced, swept>>

(* What a handler keeps between its locks: the room it is about, the rooms *)
(* whose members it still tells, those of one room it still tells, the one *)
(* it is telling, the rooms it still reads and the peers it has read for   *)
(* that, the replies it owes and the transfers it will fail.               *)
Rest == [room |-> None, rooms |-> {}, tell |-> {}, peer |-> None,
         unread |-> {}, seen |-> {}, owes |-> 0, fails |-> {}]

Init ==
  /\ members = [r \in Rooms |-> {}] /\ roomsOf = [c \in Conns |-> {}]
  /\ joined = [c \in Conns |-> {}]
  /\ closed = {} /\ open = Conns /\ writing = Conns
  /\ shown = [c \in Conns |-> {}]
  /\ at = [c \in Conns |-> "idle"] /\ job = [c \in Conns |-> Rest]
  /\ asks = 0 /\ mishaps = 0
  /\ table = {} /\ live = {} /\ late = {}
  /\ from = [x \in Transfers |-> None] /\ to = [x \in Transfers |-> None]
  /\ raced = {} /\ swept = {}

Mishap == mishaps < MaxMishaps /\ mishaps' = mishaps + 1

PutMutant(p, roster) ==   \* a slip: a full queue only loses the frame
  /\ \/ shown' = [shown EXCEPT ![p] = IF p \in closed THEN @ ELSE roster]
        /\ UNCHANGED mishaps
     \/ Mishap /\ UNCHANGED shown
  /\ UNCHANGED closed

(* Send: a full queue closes the peer, and a closed peer gets no more.     *)
Put(p, roster) ==
  \/ /\ shown' = [shown EXCEPT ![p] = IF p \in closed THEN @ ELSE roster]
     /\ UNCHANGED <<closed, mishaps>>
  \/ /\ p \notin closed /\ Mishap
     /\ closed' = closed \cup {p} /\ UNCHANGED shown

(* Any other frame: joined, error, relay, transfer_ready, peer_left, ...   *)
PutNote(p) == Put(p, shown[p])

PutNone == UNCHANGED <<closed, mishaps, shown>>

(* Everyone in a room with c, as the rooms are now.                        *)
Reachable(c) == (UNION {members[r] : r \in roomsOf[c]}) \ {c}

Go(c, before, after, j) ==
  /\ at[c] = before /\ at' = [at EXCEPT ![c] = after]
  /\ job' = [job EXCEPT ![c] = j]
  /\ UNCHANGED <<open, writing>>

Listing(d, p) == at[d] = "listing" /\ job[d].peer = p

(* No other handler is at p's roster.                                      *)
Alone(c, p) == ~\E d \in Conns \ {c} : Listing(d, p)

(* Handler c begins to read for p's roster.                                *)
BeginsWith(c, p) == raced' = IF Alone(c, p) THEN raced \ {p} ELSE raced

(* The read loop takes the next frame.                                     *)
Ask(c, after, j) ==
  /\ asks < MaxAsks /\ asks' = asks + 1
  /\ Go(c, "idle", after, j)
-----------------------------------------------------------------------------
(* Entering a room (handleHello, handleCreate, handleJoin): the room lists *)
(* the peer (Add), the peer the room (joinedRoom), then the connection.    *)
Enter(c, r) ==
  /\ r \notin joined[c]
  /\ Ask(c, "recording", [Rest EXCEPT !.room = r])
  /\ members' = [members EXCEPT ![r] = @ \cup {c}] /\ PutNone
  /\ UNCHANGED <<roomsOf, joined, transfers, raced, swept>>

(* No room, or no place in it: a page without neighbours, or an error.     *)
EnterFails(c, r) ==
  /\ r \notin joined[c]
  /\ Ask(c, "replying", [Rest EXCEPT !.owes = IF r = "net" THEN 2 ELSE 1])
  /\ PutNone /\ UNCHANGED <<membership, transfers, raced, swept>>

JoinedRoom(c) ==
  /\ Go(c, "recording", "joined", job[c])
  /\ roomsOf' = [roomsOf EXCEPT ![c] = @ \cup {job[c].room}] /\ PutNone
  /\ UNCHANGED <<members, joined, asks, transfers, raced, swept>>

JoinedMutant(c) ==   \* a slip: only those in the room of the network are told
  /\ joined' = [joined EXCEPT ![c] = @ \cup {job[c].room}]
  /\ Go(c, "joined", "notifying", [Rest EXCEPT !.rooms = joined'[c] \ {"code"}])
  /\ PutNote(c)
  /\ UNCHANGED <<members, roomsOf, asks, transfers, raced, swept>>

(* The answer, and then everyone who can see c now (notifyEveryone).       *)
Joined(c) ==
  /\ joined' = [joined EXCEPT ![c] = @ \cup {job[c].room}]
  /\ Go(c, "joined", "notifying",
        [Rest EXCEPT !.rooms = IF job[c].room = "net" THEN {"net"}
                               ELSE joined'[c]])
  /\ PutNote(c)
  /\ UNCHANGED <<members, roomsOf, asks, transfers, raced, swept>>

(* A second hello is answered with the roster.                             *)
HelloAgain(c) ==
  /\ "net" \in joined[c]
  /\ Ask(c, "listing", [Rest EXCEPT !.peer = c, !.unread = roomsOf[c]])
  /\ BeginsWith(c, c)
  /\ PutNone /\ UNCHANGED <<membership, transfers, swept>>
-----------------------------------------------------------------------------
(* NotifyRosters: the members of a room as they are when it begins, each   *)
(* sent what can be seen from the rooms that one is in.                    *)
First(rooms) == IF "net" \in rooms THEN "net" ELSE "code"

NextRoom(c) ==
  /\ job[c].tell = {} /\ job[c].rooms # {}
  /\ LET r == First(job[c].rooms)
     IN  Go(c, "notifying", "notifying",
            [job[c] EXCEPT !.tell = members[r], !.rooms = @ \ {r}])
  /\ PutNone /\ UNCHANGED <<membership, asks, transfers, raced, swept>>

NextMember(c) ==
  /\ \E p \in job[c].tell :
       /\ Go(c, "notifying", "listing",
             [job[c] EXCEPT !.tell = @ \ {p}, !.peer = p,
                            !.unread = roomsOf[p]])
       /\ BeginsWith(c, p)
  /\ PutNone /\ UNCHANGED <<membership, asks, transfers, swept>>

(* Reachable, one room after the other.                                    *)
ListRoom(c) ==
  /\ \E r \in job[c].unread :
       Go(c, "listing", "listing",
          [job[c] EXCEPT !.unread = @ \ {r},
                         !.seen = @ \cup (members[r] \ {job[c].peer})])
  /\ PutNone /\ UNCHANGED <<membership, asks, transfers, raced, swept>>

SendRoster(c) ==
  /\ job[c].unread = {}
  /\ Go(c, "listing", "notifying",
        [job[c] EXCEPT !.peer = None, !.seen = {}])
  /\ LET p == job[c].peer
     IN  /\ Put(p, job[c].seen)
         /\ raced' = IF Alone(c, p) THEN raced ELSE raced \cup {p}
  /\ UNCHANGED <<membership, asks, transfers, swept>>

(* Back to the read loop, or to the cleanup.                               *)
Notified(c) ==
  /\ job[c].tell = {} /\ job[c].rooms = {}
  /\ Go(c, "notifying", IF c \in swept THEN "leaving" ELSE "idle", Rest)
  /\ PutNone /\ UNCHANGED <<membership, asks, transfers, raced, swept>>
-----------------------------------------------------------------------------
(* Whatever is refused is answered with an error.                          *)
Refused(c) ==
  /\ Ask(c, "replying", [Rest EXCEPT !.owes = 1])
  /\ PutNone /\ UNCHANGED <<membership, transfers, raced, swept>>

Reply(c) ==
  /\ Go(c, "replying", IF job[c].owes > 1 THEN "replying" ELSE "idle",
        [Rest EXCEPT !.owes = job[c].owes - 1])
  /\ PutNote(c)
  /\ UNCHANGED <<membership, asks, transfers, raced, swept>>

(* handleRelay: Find and Send.                                             *)
Relay(c, p) ==
  /\ p \in Reachable(c)
  /\ Ask(c, "idle", Rest)
  /\ PutNote(p)
  /\ UNCHANGED <<membership, transfers, raced, swept>>

(* handleTransferBegin: Find, then Begin under its lock, then both told.   *)
TransferBegin(c, p) ==
  /\ p \in Reachable(c)
  /\ Ask(c, "beginning", [Rest EXCEPT !.peer = p])
  /\ PutNone /\ UNCHANGED <<membership, transfers, raced, swept>>

CleaningUp(c) == at[c] = "aborting" \/ c \in swept

Begin(c, x) ==
  /\ Cardinality(table) < MaxTable /\ x \notin table
  /\ Go(c, "beginning", "ready", job[c])
  /\ table' = table \cup {x} /\ live' = live \cup {x}
  /\ from' = [from EXCEPT ![x] = c] /\ to' = [to EXCEPT ![x] = job[c].peer]
  /\ late' = IF CleaningUp(job[c].peer) THEN late \cup {x} ELSE late
  /\ PutNone /\ UNCHANGED <<membership, asks, raced, swept>>

(* The size is refused, or the table is full.                              *)
BeginRefused(c) ==
  /\ Go(c, "beginning", "replying", [Rest EXCEPT !.owes = 1])
  /\ PutNone /\ UNCHANGED <<membership, asks, transfers, raced, swept>>

SenderReady(c) ==
  /\ Go(c, "ready", "telling", job[c])
  /\ PutNote(c)
  /\ UNCHANGED <<membership, asks, transfers, raced, swept>>

(* The last frame of an exchange, to the other one.                        *)
TellOther(c) ==
  /\ Go(c, "telling", "idle", Rest)
  /\ PutNote(job[c].peer)
  /\ UNCHANGED <<membership, asks, transfers, raced, swept>>

(* handleTransferEnd: Abort, of whatever transfer the frame names, and the *)
(* peer it names is told, if it can be found.                              *)
TransferEnd(c, x) ==
  /\ \/ \E p \in Reachable(c) :
          Go(c, "idle", "telling", [Rest EXCEPT !.peer = p])
     \/ Go(c, "idle", "idle", Rest)
  /\ live' = live \ {x}
  /\ PutNone
  /\ UNCHANGED <<membership, asks, table, from, to, late, raced, swept>>

(* The data plane completes it, gives it up or times it out.               *)
DataEnds(x) ==
  /\ x \in live /\ live' = live \ {x}
  /\ UNCHANGED <<membership, sockets, at, job, asks, table, from, to, late,
                 raced, swept>>

ReapMutant(x) ==   \* a slip: by its age, done or not
  /\ x \in table /\ table' = table \ {x}
  /\ from' = [from EXCEPT ![x] = None] /\ to' = [to EXCEPT ![x] = None]
  /\ late' = late \ {x}
  /\ UNCHANGED <<membership, sockets, at, job, asks, live, raced, swept>>

(* What is done is dropped from the table some time later.                 *)
Reap(x) ==
  /\ x \in table \ live /\ table' = table \ {x}
  /\ from' = [from EXCEPT ![x] = None] /\ to' = [to EXCEPT ![x] = None]
  /\ late' = late \ {x}
  /\ UNCHANGED <<membership, sockets, at, job, asks, live, raced, swept>>
-----------------------------------------------------------------------------
(* The socket: the browser goes away, or a frame cannot be written, which  *)
(* makes the library close the connection.                                 *)
Hangup(c) ==
  /\ c \in open /\ open' = open \ {c} /\ Mishap
  /\ UNCHANGED <<membership, closed, writing, shown, at, job, asks, transfers,
                 raced, swept>>

(* No answer to a ping: whether it closes the connection is up to it.      *)
PingFails(c) ==
  /\ c \in open \cap writing /\ Mishap
  /\ writing' = writing \ {c} /\ open' \in {open, open \ {c}}
  /\ UNCHANGED <<membership, closed, shown, at, job, asks, transfers, raced,
                 swept>>

WriterSeesClosed(c) ==
  /\ c \in writing \cap closed
  /\ writing' = writing \ {c} /\ open' = open \ {c}
  /\ UNCHANGED <<membership, closed, shown, mishaps, at, job, asks, transfers,
                 raced, swept>>
-----------------------------------------------------------------------------
(* The read loop ends, and cleanup runs.                                   *)
ReadFails(c) ==
  /\ c \notin open
  /\ Go(c, "idle", "collecting", Rest)
  /\ closed' = closed \cup {c} /\ UNCHANGED <<shown, mishaps>>
  /\ UNCHANGED <<membership, asks, transfers, raced, swept>>

CollectMutant(c) ==   \* a slip: only what the peer sends
  /\ Go(c, "collecting", "aborting",
        [Rest EXCEPT !.fails = {x \in live : from[x] = c}])
  /\ PutNone /\ UNCHANGED <<membership, asks, transfers, raced, swept>>

(* AbortForPeer: what is not done is collected under the table's lock and  *)
(* failed after it.                                                        *)
Collect(c) ==
  /\ Go(c, "collecting", "aborting",
        [Rest EXCEPT !.fails = {x \in live : c \in {from[x], to[x]}}])
  /\ PutNone /\ UNCHANGED <<membership, asks, transfers, raced, swept>>

AbortOne(c) ==
  /\ \E x \in job[c].fails :
       /\ Go(c, "aborting", "aborting", [job[c] EXCEPT !.fails = @ \ {x}])
       /\ live' = live \ {x}
  /\ PutNone
  /\ UNCHANGED <<membership, asks, table, from, to, late, raced, swept>>

Aborted(c) ==
  /\ job[c].fails = {}
  /\ Go(c, "aborting", "leaving", Rest)
  /\ swept' = swept \cup {c}
  /\ PutNone /\ UNCHANGED <<membership, asks, transfers, raced>>

(* Room by room: Remove, leftRoom; those who stay are told.                *)
Leave(c) ==
  /\ joined[c] # {}
  /\ LET r == First(joined[c])
     IN  /\ Go(c, "leaving", "left",
               [Rest EXCEPT !.room = r,
                            !.owes = IF members[r] = {c} THEN 0 ELSE 1])
         /\ members' = [members EXCEPT ![r] = @ \ {c}]
         /\ joined' = [joined EXCEPT ![c] = @ \ {r}]
  /\ PutNone /\ UNCHANGED <<roomsOf, asks, transfers, raced, swept>>

LeftRoom(c) ==
  /\ Go(c, "left", IF job[c].owes = 0 THEN "leaving" ELSE "parting", job[c])
  /\ roomsOf' = [roomsOf EXCEPT ![c] = @ \ {job[c].room}]
  /\ PutNone /\ UNCHANGED <<members, joined, asks, transfers, raced,
                            swept>>

(* Broadcast of peer_left, which the browser makes nothing of.             *)
Broadcast(c) ==
  /\ Go(c, "parting", "broadcasting",
        [job[c] EXCEPT !.tell = members[job[c].room]])
  /\ PutNone /\ UNCHANGED <<membership, asks, transfers, raced, swept>>

TellLeft(c) ==
  /\ \E p \in job[c].tell :
       /\ Go(c, "broadcasting", "broadcasting",
             [job[c] EXCEPT !.tell = @ \ {p}])
       /\ PutNote(p)
  /\ UNCHANGED <<membership, asks, transfers, raced, swept>>

AllTold(c) ==
  /\ job[c].tell = {}
  /\ Go(c, "broadcasting", "notifying", [Rest EXCEPT !.rooms = {job[c].room}])
  /\ PutNone /\ UNCHANGED <<membership, asks, transfers, raced, swept>>

Gone(c) ==
  /\ at[c] = "leaving" /\ joined[c] = {}
  /\ at' = [at EXCEPT ![c] = "gone"] /\ job' = [job EXCEPT ![c] = Rest]
  /\ writing' = writing \ {c} /\ open' = open \ {c}
  /\ shown' = [shown EXCEPT ![c] = {}]
  /\ UNCHANGED <<membership, closed, mishaps, asks, transfers, raced, swept>>
-----------------------------------------------------------------------------
Asked(c) ==
  \/ \E r \in Rooms : Enter(c, r) \/ EnterFails(c, r)
  \/ HelloAgain(c) \/ Refused(c)
  \/ \E p \in Conns : Relay(c, p) \/ TransferBegin(c, p)
  \/ \E x \in Transfers : TransferEnd(c, x)

Handling(c) ==
  \/ JoinedRoom(c) \/ Joined(c) \/ NextRoom(c) \/ NextMember(c) \/ ListRoom(c)
  \/ SendRoster(c) \/ Notified(c) \/ Reply(c) \/ BeginRefused(c)
  \/ (\E x \in Transfers : Begin(c, x)) \/ SenderReady(c) \/ TellOther(c)

Cleanup(c) ==
  \/ ReadFails(c) \/ Collect(c) \/ AbortOne(c) \/ Aborted(c) \/ Leave(c)
  \/ LeftRoom(c) \/ Broadcast(c) \/ TellLeft(c) \/ AllTold(c) \/ Gone(c)

Next ==
  \/ \E c \in Conns :
       \/ Asked(c) \/ Handling(c) \/ Cleanup(c)
       \/ Hangup(c) \/ PingFails(c) \/ WriterSeesClosed(c)
  \/ \E x \in Transfers : DataEnds(x) \/ Reap(x)

Spec == Init /\ [][Next]_vars
-----------------------------------------------------------------------------
Ats == {"idle", "recording", "joined", "notifying", "listing", "replying",
        "beginning", "ready", "telling", "collecting", "aborting", "leaving",
        "left", "parting", "broadcasting", "gone"}

Jobs == [room : Rooms \cup {None}, rooms : SUBSET Rooms, tell : SUBSET Conns,
         peer : Conns \cup {None}, unread : SUBSET Rooms,
         seen : SUBSET Conns, owes : 0..2, fails : SUBSET Transfers]

(* Typing: the types of all variables.                                     *)
TypeOK ==
  /\ members \in [Rooms -> SUBSET Conns] /\ roomsOf \in [Conns -> SUBSET Rooms]
  /\ joined \in [Conns -> SUBSET Rooms]
  /\ closed \subseteq Conns /\ open \subseteq Conns /\ writing \subseteq Conns
  /\ job \in [Conns -> Jobs]
  /\ shown \in [Conns -> SUBSET Conns]
  /\ at \in [Conns -> Ats] /\ asks \in 0..MaxAsks /\ mishaps \in 0..MaxMishaps
  /\ table \subseteq Transfers /\ live \subseteq table /\ late \subseteq table
  /\ from \in [Transfers -> Conns \cup {None}]
  /\ to \in [Transfers -> Conns \cup {None}]
  /\ raced \subseteq Conns /\ swept \subseteq Conns

Announcing(e) == at[e] \in {"recording", "joined", "notifying", "listing",
                            "left", "parting", "broadcasting"}
Up(c) == c \in open \cap writing /\ c \notin closed

(* Whenever nobody is being announced, what is last queued for a browser   *)
(* shows it exactly the peers that it can reach and that can reach it:     *)
(* nobody who left, and no sender missing without whose key an envelope    *)
(* could not be opened (relay.ts:254-265) - unless two handlers were at    *)
(* its roster at once (room.go:245-249) and none was alone since, from its *)
(* reading of the rooms to its sending.                                    *)
RosterCurrent ==
  (~\E e \in Conns : Announcing(e)) =>
    \A c \in Conns : Up(c) /\ c \notin raced => shown[c] = Reachable(c)

(* When a peer is gone its transfers are over, whoever was told first and  *)
(* whatever was begun meanwhile; only one that its sender began when the   *)
(* cleanup of the receiver was under way is left to the watchdog           *)
(* (rendezvous.go:180-208, conn.go:229-236).                               *)
AbortedWithPeer ==
  \A x \in live : /\ from[x] \notin swept
                  /\ to[x] \in swept => x \in late
=============================================================================
