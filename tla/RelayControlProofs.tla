------------------------- MODULE RelayControlProofs -------------------------
(***************************************************************************)
(* Proofs about RelayControl, for any connections, transfers and bounds:   *)
(* what a peer leaves behind at the relay, and that nobody is told of      *)
(* others than those who can be reached.                                   *)
(*                                                                         *)
(* The second rests on one idea: a peer whose roster is not up to date is  *)
(* on some handler's list (Due), or a handler is reading for it what it    *)
(* can reach, and will have read it all (Accurate).                        *)
(***************************************************************************)
EXTENDS RelayControl, TLAPS

(* What a job has in it, by the place of its handler.                      *)
Fits(a, j) ==
  /\ a \in {"recording", "joined", "left", "parting", "broadcasting"} =>
       j.room \in Rooms
  /\ a \in {"listing", "beginning", "ready", "telling"} => j.peer \in Conns
  /\ a = "replying" => j.owes \in 1..2
  /\ a = "notifying" => j.seen = {}

Handed(c) == Fits(at[c], job[c])

(* The places of a cleanup that is through with the transfers.             *)
Parted == {"leaving", "left", "parting", "broadcasting", "gone"}

(* Only a closed peer is cleaned up after.                                 *)
Ending(c) ==
  /\ at[c] \in {"collecting", "aborting"} \/ c \in swept => c \in closed
  /\ c \in swept => at[c] \in Parted \cup {"notifying", "listing"}
  /\ at[c] \in Parted => c \in swept

(* A cleanup that is failing transfers has all of the peer's in its hands. *)
Failing(c) ==
  at[c] = "aborting" =>
    \A x \in live : /\ from[x] = c => x \in job[c].fails
                    /\ to[x] = c => x \in job[c].fails \cup late

(* A room that a peer is recorded to be in has it among its members, until *)
(* it leaves.                                                              *)
Placed(c) ==
  /\ at[c] \in {"recording", "joined"} => c \in members[job[c].room]
  /\ c \notin closed => \A r \in roomsOf[c] : c \in members[r]

(* The rooms a handler still reads for a peer are rooms the peer is in.    *)
Reading(e, p) ==
  Listing(e, p) /\ p \notin closed => job[e].unread \subseteq roomsOf[p]

(* Handler e is going to tell p what can be reached.                       *)
Due(e, p) ==
  \/ /\ at[e] \in {"recording", "joined", "parting", "broadcasting"}
     /\ p \in members[job[e].room]
  \/ at[e] = "left" /\ job[e].owes # 0 /\ p \in members[job[e].room]
  \/ /\ at[e] \in {"notifying", "listing"}
     /\ p \in job[e].tell \/ \E r \in job[e].rooms : p \in members[r]

(* What handler e has read for p, with what it still reads, is what p can  *)
(* reach.                                                                  *)
Accurate(e, p) ==
  \A q \in Conns :
    q \in Reachable(p) <=>
      \/ q \in job[e].seen
      \/ q # p /\ \E r \in job[e].unread : q \in members[r]

(* A peer that can be written to, and whose roster was not written by two  *)
(* at once the last time, knows whom it can reach or is about to be told.  *)
Current(p) ==
  Up(p) /\ p \notin raced =>
    \/ \E e \in Conns : Due(e, p)
    \/ \E e \in Conns : Listing(e, p) /\ Accurate(e, p)
    \/ (\A e \in Conns : ~Listing(e, p)) /\ shown[p] = Reachable(p)

IInv ==
  /\ TypeOK /\ AbortedWithPeer
  /\ \A c \in Conns : /\ Handed(c) /\ Ending(c) /\ Failing(c) /\ Placed(c)
                      /\ Current(c)
                      /\ \A p \in Conns : Reading(c, p)
-----------------------------------------------------------------------------
(* Sending a frame: to a queue that is full it closes the peer.            *)
LEMMA Putting ==
  ASSUME TypeOK, NEW p \in Conns, NEW roster \in SUBSET Conns,
         Put(p, roster)
  PROVE  /\ closed \subseteq closed' /\ closed' \subseteq Conns
         /\ shown' \in [Conns -> SUBSET Conns]
         /\ mishaps' \in 0..MaxMishaps
         /\ \A q \in Conns \ {p} : shown'[q] = shown[q]
         /\ p \notin closed' => shown'[p] = roster
<1>1. /\ closed \subseteq Conns /\ shown \in [Conns -> SUBSET Conns]
      /\ mishaps \in 0..MaxMishaps /\ MaxMishaps \in Nat
  BY BoundsAssumption DEF TypeOK
<1>2. CASE /\ shown' = [shown EXCEPT ![p] = IF p \in closed THEN @ ELSE roster]
           /\ UNCHANGED <<closed, mishaps>>
  BY <1>1, <1>2
<1>3. CASE /\ p \notin closed /\ Mishap
           /\ closed' = closed \cup {p} /\ UNCHANGED shown
  BY <1>1, <1>3 DEF Mishap
<1> QED
  BY <1>2, <1>3 DEF Put

(* Any other frame leaves the rosters alone.                               *)
LEMMA Noting ==
  ASSUME TypeOK, NEW p \in Conns, PutNote(p)
  PROVE  /\ closed \subseteq closed' /\ closed' \subseteq Conns
         /\ shown' = shown /\ mishaps' \in 0..MaxMishaps
<1>1. shown \in [Conns -> SUBSET Conns] /\ shown[p] \in SUBSET Conns
  BY DEF TypeOK
<1>2. shown' = shown
  BY <1>1 DEF PutNote, Put
<1> QED
  BY <1>1, <1>2, Putting DEF PutNote

(* The invariant, one connection at a time.                                *)
LEMMA Parts ==
  ASSUME IInv, NEW c \in Conns
  PROVE  /\ TypeOK /\ Handed(c) /\ Ending(c) /\ Failing(c) /\ Placed(c)
         /\ Current(c) /\ at[c] \in Ats /\ job[c] \in Jobs
BY DEF IInv, TypeOK

(* The fields of a job.                                                    *)
LEMMA Fields ==
  ASSUME NEW j \in Jobs
  PROVE  /\ j.room \in Rooms \cup {None} /\ j.rooms \in SUBSET Rooms
         /\ j.tell \in SUBSET Conns /\ j.peer \in Conns \cup {None}
         /\ j.unread \in SUBSET Rooms /\ j.seen \in SUBSET Conns
         /\ j.owes \in 0..2 /\ j.fails \in SUBSET Transfers
BY DEF Jobs

(* The jobs that a handler begins with.                                   *)
LEMMA Resting == Rest \in Jobs
BY DEF Rest, Jobs

LEMMA RestRoom ==
  ASSUME NEW r \in Rooms
  PROVE  /\ [Rest EXCEPT !.room = r] \in Jobs
         /\ Fits("recording", [Rest EXCEPT !.room = r])
BY DEF Rest, Jobs, Fits

LEMMA RestOwes ==
  ASSUME NEW n \in 0..2
  PROVE  /\ [Rest EXCEPT !.owes = n] \in Jobs
         /\ Fits("idle", [Rest EXCEPT !.owes = n])
         /\ n # 0 => Fits("replying", [Rest EXCEPT !.owes = n])
BY DEF Rest, Jobs, Fits

LEMMA RestPeer ==
  ASSUME NEW p \in Conns
  PROVE  /\ [Rest EXCEPT !.peer = p] \in Jobs
         /\ Fits("beginning", [Rest EXCEPT !.peer = p])
         /\ Fits("telling", [Rest EXCEPT !.peer = p])
BY DEF Rest, Jobs, Fits

LEMMA RestRooms ==
  ASSUME NEW s \in SUBSET Rooms
  PROVE  /\ [Rest EXCEPT !.rooms = s] \in Jobs
         /\ Fits("notifying", [Rest EXCEPT !.rooms = s])
BY DEF Rest, Jobs, Fits

LEMMA RestFails ==
  ASSUME NEW f \in SUBSET Transfers
  PROVE  [Rest EXCEPT !.fails = f] \in Jobs
BY DEF Rest, Jobs

LEMMA WithListing ==
  ASSUME NEW j \in Jobs, NEW p \in Conns, NEW s \in SUBSET Rooms
  PROVE  /\ [j EXCEPT !.peer = p, !.unread = s] \in Jobs
         /\ Fits("listing", [j EXCEPT !.peer = p, !.unread = s])
BY DEF Jobs, Fits

LEMMA WithLeft ==
  ASSUME NEW j \in Jobs, NEW r \in Rooms, NEW n \in 0..2
  PROVE  /\ [j EXCEPT !.room = r, !.owes = n] \in Jobs
         /\ Fits("left", [j EXCEPT !.room = r, !.owes = n])
BY DEF Jobs, Fits

(* Those who can be reached, one by one.                                   *)
LEMMA Reached ==
  ASSUME NEW p
  PROVE  \A q : q \in Reachable(p) <=>
                  q # p /\ \E r \in roomsOf[p] : q \in members[r]
BY DEF Reachable

(* A handler is at a place of the program, with a job that fits it.        *)
Turned(c) ==
  /\ at' \in [Conns -> Ats] /\ job' \in [Conns -> Jobs]
  /\ \A d \in Conns \ {c} : at'[d] = at[d] /\ job'[d] = job[d]
  /\ Handed(c)'

LEMMA Landing ==
  ASSUME TypeOK, NEW c \in Conns, NEW b, NEW a \in Ats, NEW j \in Jobs,
         Go(c, b, a, j), Fits(a, j)
  PROVE  Turned(c)
<1>0. at \in [Conns -> Ats] /\ job \in [Conns -> Jobs]
  BY DEF TypeOK
<1>1. /\ at' \in [Conns -> Ats] /\ job' \in [Conns -> Jobs]
      /\ \A d \in Conns \ {c} : at'[d] = at[d] /\ job'[d] = job[d]
      /\ at'[c] = a /\ job'[c] = j
  BY <1>0 DEF Go
<1>2. Fits(at'[c], job'[c])
  BY <1>1
<1> QED
  BY <1>1, <1>2 DEF Turned, Handed, Fits

LEMMA Turns ==
  ASSUME IInv, NEW c \in Conns, Asked(c) \/ Handling(c) \/ Cleanup(c)
  PROVE  Turned(c)
<1>0. /\ TypeOK /\ Handed(c) /\ at[c] \in Ats /\ job[c] \in Jobs
      /\ members \in [Rooms -> SUBSET Conns]
      /\ roomsOf \in [Conns -> SUBSET Rooms]
      /\ joined \in [Conns -> SUBSET Rooms] /\ live \in SUBSET Transfers
  BY Parts DEF TypeOK
<1> DEFINE J == job[c]
<1>j. /\ J.room \in Rooms \cup {None} /\ J.rooms \in SUBSET Rooms
      /\ J.tell \in SUBSET Conns /\ J.peer \in Conns \cup {None}
      /\ J.unread \in SUBSET Rooms /\ J.seen \in SUBSET Conns
      /\ J.owes \in 0..2 /\ J.fails \in SUBSET Transfers
  BY <1>0, Fields
<1>p. \A p : p \in Reachable(c) => p \in Conns
  BY <1>0, Reached
<1> HIDE DEF J
<1>1. CASE \E r \in Rooms : Enter(c, r)
  <2>1. PICK r \in Rooms : Enter(c, r)
    BY <1>1
  <2>2. Go(c, "idle", "recording", [Rest EXCEPT !.room = r])
    BY <2>1 DEF Enter, Ask
  <2> QED
    BY <2>2, <1>0, RestRoom, Landing DEF Ats
<1>2. CASE \E r \in Rooms : EnterFails(c, r)
  <2>1. PICK r \in Rooms : EnterFails(c, r)
    BY <1>2
  <2>2. PICK n \in {1, 2} :
          Go(c, "idle", "replying", [Rest EXCEPT !.owes = n])
    BY <2>1 DEF EnterFails, Ask
  <2> QED
    BY <2>2, <1>0, RestOwes, Landing DEF Ats
<1>3. CASE HelloAgain(c)
  <2>1. /\ [Rest EXCEPT !.peer = c, !.unread = roomsOf[c]] \in Jobs
        /\ Fits("listing", [Rest EXCEPT !.peer = c, !.unread = roomsOf[c]])
    BY <1>0, Resting, WithListing
  <2>2. Go(c, "idle", "listing",
           [Rest EXCEPT !.peer = c, !.unread = roomsOf[c]])
    BY <1>3 DEF HelloAgain, Ask
  <2> QED
    BY <2>1, <2>2, <1>0, Landing DEF Fits, Ats
<1>4. CASE Refused(c)
  <2>1. Go(c, "idle", "replying", [Rest EXCEPT !.owes = 1])
    BY <1>4 DEF Refused, Ask
  <2> QED
    BY <2>1, <1>0, RestOwes, Landing DEF Ats
<1>5. CASE \E p \in Conns : Relay(c, p)
  <2>1. Go(c, "idle", "idle", Rest)
    BY <1>5 DEF Relay, Ask
  <2> QED
    BY <2>1, <1>0, Resting, Landing DEF Fits, Ats
<1>6. CASE \E p \in Conns : TransferBegin(c, p)
  <2>1. PICK p \in Conns : TransferBegin(c, p)
    BY <1>6
  <2>2. Go(c, "idle", "beginning", [Rest EXCEPT !.peer = p])
    BY <2>1 DEF TransferBegin, Ask
  <2> QED
    BY <2>2, <1>0, RestPeer, Landing DEF Ats
<1>7. CASE \E x \in Transfers : TransferEnd(c, x)
  <2>1. PICK p : \/ /\ p \in Conns
                    /\ Go(c, "idle", "telling", [Rest EXCEPT !.peer = p])
                 \/ Go(c, "idle", "idle", Rest)
    BY <1>7, <1>p DEF TransferEnd
  <2>2. CASE p \in Conns /\ Go(c, "idle", "telling", [Rest EXCEPT !.peer = p])
    BY <2>2, <1>0, RestPeer, Landing DEF Ats
  <2>3. CASE Go(c, "idle", "idle", Rest)
    BY <2>3, <1>0, Resting, Landing DEF Fits, Ats
  <2> QED
    BY <2>1, <2>2, <2>3
<1>8. CASE JoinedRoom(c)
  <2>1. Go(c, "recording", "joined", job[c])
    BY <1>8 DEF JoinedRoom
  <2>2. Fits("joined", job[c])
    BY <2>1, <1>0 DEF Go, Handed, Fits
  <2> QED
    BY <2>1, <2>2, <1>0, Landing DEF Ats
<1>9. CASE Joined(c)
  <2>1. PICK s \in SUBSET Rooms :
          Go(c, "joined", "notifying", [Rest EXCEPT !.rooms = s])
    <3>1. joined[c] \cup {job[c].room} \in SUBSET Rooms
      BY <1>0, <1>9 DEF Joined, Go, Handed, Fits
    <3> QED
      BY <1>9, <1>0, <3>1 DEF Joined, Rooms
  <2> QED
    BY <2>1, <1>0, RestRooms, Landing DEF Ats
<1>10. CASE NextRoom(c)
  <2> DEFINE r == First(J.rooms)
             j == [J EXCEPT !.tell = members[r], !.rooms = @ \ {r}]
  <2>1. r \in Rooms
    BY DEF First, Rooms
  <2>2. j \in Jobs /\ j.seen = J.seen
    BY <1>j, <1>0, <2>1 DEF Jobs, J
  <2>3. Go(c, "notifying", "notifying", j)
    BY <1>10 DEF NextRoom, J
  <2> HIDE DEF j
  <2>4. J.seen = {}
    BY <2>3, <1>0 DEF Go, Handed, Fits, J
  <2> QED
    BY <2>2, <2>3, <2>4, <1>0, Landing DEF Fits, Ats
<1>11. CASE NextMember(c)
  <2>1. PICK p \in J.tell :
          Go(c, "notifying", "listing",
             [J EXCEPT !.tell = @ \ {p}, !.peer = p, !.unread = roomsOf[p]])
    BY <1>11 DEF NextMember, J
  <2> DEFINE j == [J EXCEPT !.tell = @ \ {p}, !.peer = p, !.unread = roomsOf[p]]
  <2>2. p \in Conns /\ j \in Jobs /\ j.peer = p
    BY <1>0, <1>j DEF J, Jobs
  <2> HIDE DEF j
  <2> QED
    BY <2>1, <2>2, <1>0, Landing DEF Fits, Ats, j
<1>12. CASE ListRoom(c)
  <2>1. PICK r \in J.unread :
          Go(c, "listing", "listing",
             [J EXCEPT !.unread = @ \ {r},
                       !.seen = @ \cup (members[r] \ {J.peer})])
    BY <1>12 DEF ListRoom, J
  <2> DEFINE j == [J EXCEPT !.unread = @ \ {r},
                            !.seen = @ \cup (members[r] \ {J.peer})]
  <2>2. r \in Rooms /\ j \in Jobs /\ j.peer = J.peer
    BY <1>0, <1>j DEF J, Jobs
  <2>3. Go(c, "listing", "listing", j)
    BY <2>1
  <2> HIDE DEF j
  <2>4. J.peer \in Conns
    BY <2>3, <1>0 DEF Go, Handed, Fits, J
  <2> QED
    BY <2>2, <2>3, <2>4, <1>0, Landing DEF Fits, Ats
<1>13. CASE SendRoster(c)
  <2> DEFINE j == [J EXCEPT !.peer = None, !.seen = {}]
  <2>1. j \in Jobs /\ j.seen = {}
    BY <1>0, <1>j DEF J, Jobs
  <2>2. Go(c, "listing", "notifying", j)
    BY <1>13 DEF SendRoster, J
  <2> HIDE DEF j
  <2> QED
    BY <2>1, <2>2, <1>0, Landing DEF Fits, Ats
<1>14. CASE Notified(c)
  <2>1. PICK a \in {"leaving", "idle"} : Go(c, "notifying", a, Rest)
    BY <1>14 DEF Notified
  <2> QED
    BY <2>1, <1>0, Resting, Landing DEF Fits, Ats
<1>15. CASE Reply(c)
  <2>1. at[c] = "replying" /\ J.owes \in 1..2
    BY <1>15, <1>0 DEF Reply, Go, Handed, Fits, J
  <2>2. J.owes - 1 \in 0..2 /\ (J.owes > 1 => J.owes - 1 \in 1..2)
    BY <2>1
  <2> DEFINE j == [Rest EXCEPT !.owes = J.owes - 1]
  <2>3. j \in Jobs /\ j.owes = J.owes - 1
    BY <2>2, RestOwes
  <2>4. Go(c, "replying", IF J.owes > 1 THEN "replying" ELSE "idle", j)
    BY <1>15 DEF Reply, J
  <2> HIDE DEF j
  <2>5. CASE J.owes > 1
    BY <2>2, <2>3, <2>4, <2>5, <1>0, Landing DEF Fits, Ats
  <2>6. CASE ~(J.owes > 1)
    BY <2>3, <2>4, <2>6, <1>0, Landing DEF Fits, Ats
  <2> QED
    BY <2>5, <2>6
<1>16. CASE BeginRefused(c)
  <2>1. Go(c, "beginning", "replying", [Rest EXCEPT !.owes = 1])
    BY <1>16 DEF BeginRefused
  <2> QED
    BY <2>1, <1>0, RestOwes, Landing DEF Ats
<1>17. CASE \E x \in Transfers : Begin(c, x)
  <2>1. Go(c, "beginning", "ready", job[c])
    BY <1>17 DEF Begin
  <2>2. Fits("ready", job[c])
    BY <2>1, <1>0 DEF Go, Handed, Fits
  <2> QED
    BY <2>1, <2>2, <1>0, Landing DEF Ats
<1>18. CASE SenderReady(c)
  <2>1. Go(c, "ready", "telling", job[c])
    BY <1>18 DEF SenderReady
  <2>2. Fits("telling", job[c])
    BY <2>1, <1>0 DEF Go, Handed, Fits
  <2> QED
    BY <2>1, <2>2, <1>0, Landing DEF Ats
<1>19. CASE TellOther(c)
  <2>1. Go(c, "telling", "idle", Rest)
    BY <1>19 DEF TellOther
  <2> QED
    BY <2>1, <1>0, Resting, Landing DEF Fits, Ats
<1>20. CASE ReadFails(c)
  <2>1. Go(c, "idle", "collecting", Rest)
    BY <1>20 DEF ReadFails
  <2> QED
    BY <2>1, <1>0, Resting, Landing DEF Fits, Ats
<1>21. CASE Collect(c)
  <2>1. Go(c, "collecting", "aborting",
           [Rest EXCEPT !.fails = {x \in live : c \in {from[x], to[x]}}])
    BY <1>21 DEF Collect
  <2>2. {x \in live : c \in {from[x], to[x]}} \in SUBSET Transfers
    BY <1>0
  <2> QED
    BY <2>1, <2>2, <1>0, RestFails, Landing DEF Fits, Ats
<1>22. CASE AbortOne(c)
  <2>1. PICK x \in J.fails :
          Go(c, "aborting", "aborting", [J EXCEPT !.fails = @ \ {x}])
    BY <1>22 DEF AbortOne, J
  <2>2. [J EXCEPT !.fails = @ \ {x}] \in Jobs
    BY <1>0, <1>j DEF J, Jobs
  <2> QED
    BY <2>1, <2>2, <1>0, Landing DEF Fits, Ats
<1>23. CASE Aborted(c)
  <2>1. Go(c, "aborting", "leaving", Rest)
    BY <1>23 DEF Aborted
  <2> QED
    BY <2>1, <1>0, Resting, Landing DEF Fits, Ats
<1>24. CASE Leave(c)
  <2>1. PICK r \in Rooms, n \in {0, 1} :
          Go(c, "leaving", "left", [Rest EXCEPT !.room = r, !.owes = n])
    BY <1>24 DEF Leave, First, Rooms
  <2> DEFINE j == [Rest EXCEPT !.room = r, !.owes = n]
  <2>n. n \in 0..2
    OBVIOUS
  <2>2. j \in Jobs /\ Fits("left", j)
    BY <2>n, Resting, WithLeft
  <2>3. Go(c, "leaving", "left", j)
    BY <2>1
  <2> HIDE DEF j
  <2> QED
    BY <2>2, <2>3, <1>0, Landing DEF Ats
<1>25. CASE LeftRoom(c)
  <2>1. PICK a \in {"leaving", "parting"} : Go(c, "left", a, job[c])
    BY <1>25 DEF LeftRoom
  <2>2. Fits(a, job[c])
    BY <2>1, <1>0 DEF Go, Handed, Fits
  <2> QED
    BY <2>1, <2>2, <1>0, Landing DEF Ats
<1>26. CASE Broadcast(c)
  <2> DEFINE j == [J EXCEPT !.tell = members[J.room]]
  <2>1. Go(c, "parting", "broadcasting", j)
    BY <1>26 DEF Broadcast, J
  <2>2. J.room \in Rooms
    BY <2>1, <1>0 DEF Go, Handed, Fits, J
  <2>3. j \in Jobs /\ j.room = J.room
    BY <2>2, <1>0, <1>j DEF J, Jobs
  <2> HIDE DEF j
  <2> QED
    BY <2>1, <2>2, <2>3, <1>0, Landing DEF Fits, Ats
<1>27. CASE TellLeft(c)
  <2>1. PICK p \in J.tell :
          Go(c, "broadcasting", "broadcasting", [J EXCEPT !.tell = @ \ {p}])
    BY <1>27 DEF TellLeft, J
  <2> DEFINE j == [J EXCEPT !.tell = @ \ {p}]
  <2>2. J.room \in Rooms
    BY <2>1, <1>0 DEF Go, Handed, Fits, J
  <2>3. j \in Jobs /\ j.room = J.room
    BY <1>0, <1>j DEF J, Jobs
  <2> HIDE DEF j
  <2> QED
    BY <2>1, <2>2, <2>3, <1>0, Landing DEF Fits, Ats, j
<1>28. CASE AllTold(c)
  <2>1. Go(c, "broadcasting", "notifying",
           [Rest EXCEPT !.rooms = {job[c].room}])
    BY <1>28 DEF AllTold
  <2>2. job[c].room \in Rooms
    BY <2>1, <1>0 DEF Go, Handed, Fits
  <2> QED
    BY <2>1, <2>2, <1>0, RestRooms, Landing DEF Ats
<1>29. CASE Gone(c)
  <2>1. at' = [at EXCEPT ![c] = "gone"] /\ job' = [job EXCEPT ![c] = Rest]
    BY <1>29 DEF Gone
  <2>2. at \in [Conns -> Ats] /\ job \in [Conns -> Jobs]
    BY <1>0 DEF TypeOK
  <2>3. "gone" \in Ats
    BY DEF Ats
  <2> QED
    BY <2>1, <2>2, <2>3, Resting DEF Turned, Handed, Fits
<1> QED
  BY <1>1, <1>2, <1>3, <1>4, <1>5, <1>6, <1>7, <1>8, <1>9, <1>10, <1>11,
     <1>12, <1>13, <1>14, <1>15, <1>16, <1>17, <1>18, <1>19, <1>20, <1>21,
     <1>22, <1>23, <1>24, <1>25, <1>26, <1>27, <1>28, <1>29
     DEF Asked, Handling, Cleanup
-----------------------------------------------------------------------------
(* The steps that are not a handler's.                                     *)
Socket(c) == Hangup(c) \/ PingFails(c) \/ WriterSeesClosed(c)

Step(c) == Asked(c) \/ Handling(c) \/ Cleanup(c)

LEMMA Steps ==
  ASSUME [Next]_vars
  PROVE  \/ \E c \in Conns : Step(c)
         \/ \E c \in Conns : Socket(c)
         \/ \E x \in Transfers : DataEnds(x) \/ Reap(x)
         \/ UNCHANGED vars
BY DEF Next, Step, Socket

(* Which steps change who is in which room.                                *)
LEMMA RoomSteps ==
  ASSUME NEW c \in Conns, Step(c)
  PROVE  \/ UNCHANGED membership
         \/ \E r \in Rooms : Enter(c, r)
         \/ JoinedRoom(c) \/ Joined(c) \/ Leave(c) \/ LeftRoom(c)
<1>1. CASE Asked(c)
  BY <1>1 DEF Asked, EnterFails, HelloAgain, Refused, Relay, TransferBegin,
              TransferEnd
<1>2. CASE Handling(c)
  BY <1>2 DEF Handling, NextRoom, NextMember, ListRoom, SendRoster, Notified,
              Reply, BeginRefused, Begin, SenderReady, TellOther
<1>3. CASE Cleanup(c)
  BY <1>3 DEF Cleanup, ReadFails, Collect, AbortOne, Aborted, Broadcast,
              TellLeft, AllTold, Gone
<1> QED
  BY <1>1, <1>2, <1>3 DEF Step

(* Which steps change the transfers, and how.                              *)
LEMMA TransferSteps ==
  ASSUME NEW c \in Conns, Step(c)
  PROVE  \/ UNCHANGED transfers
         \/ \E x \in Transfers : Begin(c, x)
         \/ /\ UNCHANGED <<table, from, to, late>>
            /\ (\E x \in Transfers : TransferEnd(c, x)) \/ AbortOne(c)
            /\ \E x : live' = live \ {x}
<1>1. CASE Asked(c)
  BY <1>1 DEF Asked, Enter, EnterFails, HelloAgain, Refused, Relay,
              TransferBegin, TransferEnd
<1>2. CASE Handling(c)
  BY <1>2 DEF Handling, JoinedRoom, Joined, NextRoom, NextMember, ListRoom,
              SendRoster, Notified, Reply, BeginRefused, SenderReady,
              TellOther
<1>3. CASE Cleanup(c)
  BY <1>3 DEF Cleanup, ReadFails, Collect, AbortOne, Aborted, Leave, LeftRoom,
              Broadcast, TellLeft, AllTold, Gone
<1> QED
  BY <1>1, <1>2, <1>3 DEF Step

(* Which steps change the history.                                         *)
LEMMA HistorySteps ==
  ASSUME NEW c \in Conns, Step(c)
  PROVE  /\ \/ SendRoster(c) \/ HelloAgain(c) \/ NextMember(c)
            \/ raced' = raced
         /\ Aborted(c) \/ swept' = swept
         /\ asks' = asks \/ (asks < MaxAsks /\ asks' = asks + 1)
<1>1. CASE Asked(c)
  BY <1>1 DEF Asked, Enter, EnterFails, HelloAgain, Refused, Relay,
              TransferBegin, TransferEnd, Ask
<1>2. CASE Handling(c)
  BY <1>2 DEF Handling, JoinedRoom, Joined, NextRoom, NextMember, ListRoom,
              SendRoster, Notified, Reply, BeginRefused, Begin, SenderReady,
              TellOther
<1>3. CASE Cleanup(c)
  BY <1>3 DEF Cleanup, ReadFails, Collect, AbortOne, Aborted, Leave, LeftRoom,
              Broadcast, TellLeft, AllTold, Gone
<1> QED
  BY <1>1, <1>2, <1>3 DEF Step

(* What a step does to the sockets and to the rosters.                     *)
Plugged ==
  /\ closed \subseteq closed' /\ closed' \subseteq Conns
  /\ open' \subseteq open /\ writing' \subseteq writing
  /\ shown' \in [Conns -> SUBSET Conns] /\ mishaps' \in 0..MaxMishaps

LEMMA SocketSteps ==
  ASSUME IInv, NEW c \in Conns, Step(c)
  PROVE  /\ Plugged
         /\ shown' = shown \/ SendRoster(c) \/ Gone(c)
<1>0. /\ TypeOK /\ Handed(c) /\ closed \subseteq Conns
      /\ shown \in [Conns -> SUBSET Conns] /\ mishaps \in 0..MaxMishaps
  BY Parts DEF TypeOK
<1>1. ASSUME UNCHANGED <<open, writing>>, PutNone
      PROVE  Plugged /\ shown' = shown
  BY <1>0, <1>1 DEF Plugged, PutNone
<1>2. ASSUME UNCHANGED <<open, writing>>, NEW p \in Conns, PutNote(p)
      PROVE  Plugged /\ shown' = shown
  BY <1>0, <1>2, Noting DEF Plugged
<1>3. CASE Asked(c)
  <2>1. CASE \E p \in Conns : Relay(c, p)
    BY <1>2, <2>1 DEF Relay, Ask, Go
  <2>2. CASE ~\E p \in Conns : Relay(c, p)
    <3>1. UNCHANGED <<open, writing>> /\ PutNone
      BY <1>3, <2>2 DEF Asked, Enter, EnterFails, HelloAgain, Refused,
                        TransferBegin, TransferEnd, Ask, Go
    <3> QED
      BY <3>1, <1>1
  <2> QED
    BY <2>1, <2>2
<1>4. CASE Handling(c)
  <2>1. CASE Joined(c) \/ Reply(c) \/ SenderReady(c)
    BY <1>2, <2>1 DEF Joined, Reply, SenderReady, Go
  <2>2. CASE TellOther(c)
    <3>1. job[c].peer \in Conns
      BY <2>2, <1>0 DEF TellOther, Go, Handed, Fits
    <3>2. UNCHANGED <<open, writing>> /\ PutNote(job[c].peer)
      BY <2>2 DEF TellOther, Go
    <3> QED
      BY <3>1, <3>2, <1>2
  <2>3. CASE SendRoster(c)
    <3>1. job[c].peer \in Conns /\ job[c].seen \in SUBSET Conns
      BY <2>3, <1>0, Parts, Fields DEF SendRoster, Go, Handed, Fits
    <3>2. /\ UNCHANGED <<open, writing>>
          /\ Put(job[c].peer, job[c].seen)
      BY <2>3 DEF SendRoster, Go
    <3> QED
      BY <3>1, <3>2, <2>3, <1>0, Putting DEF Plugged
  <2>4. CASE \/ JoinedRoom(c) \/ NextRoom(c) \/ NextMember(c) \/ ListRoom(c)
             \/ Notified(c) \/ BeginRefused(c)
             \/ \E x \in Transfers : Begin(c, x)
    <3>1. UNCHANGED <<open, writing>> /\ PutNone
      BY <2>4 DEF JoinedRoom, NextRoom, NextMember, ListRoom, Notified,
                  BeginRefused, Begin, Go
    <3> QED
      BY <3>1, <1>1
  <2> QED
    BY <1>4, <2>1, <2>2, <2>3, <2>4 DEF Handling
<1>5. CASE Cleanup(c)
  <2>1. CASE ReadFails(c)
    BY <2>1, <1>0 DEF ReadFails, Go, Plugged
  <2>2. CASE TellLeft(c)
    <3>1. job[c].tell \in SUBSET Conns
      BY Parts, Fields
    <3>2. PICK p \in job[c].tell : UNCHANGED <<open, writing>> /\ PutNote(p)
      BY <2>2 DEF TellLeft, Go
    <3> QED
      BY <3>1, <3>2, <1>2
  <2>3. CASE Gone(c)
    BY <2>3, <1>0 DEF Gone, Plugged
  <2>4. CASE \/ Collect(c) \/ AbortOne(c) \/ Aborted(c) \/ Leave(c)
             \/ LeftRoom(c) \/ Broadcast(c) \/ AllTold(c)
    <3>1. UNCHANGED <<open, writing>> /\ PutNone
      BY <2>4 DEF Collect, AbortOne, Aborted, Leave, LeftRoom, Broadcast,
                  AllTold, Go
    <3> QED
      BY <3>1, <1>1
  <2> QED
    BY <1>5, <2>1, <2>2, <2>3, <2>4 DEF Cleanup
<1> QED
  BY <1>3, <1>4, <1>5 DEF Step

(* The initial states satisfy the invariant.                               *)
LEMMA InitInv == Init => IInv
<1> SUFFICES ASSUME Init PROVE IInv
  OBVIOUS
<1> USE DEF Init
<1>1. /\ at \in [Conns -> Ats] /\ job \in [Conns -> Jobs]
      /\ \A c \in Conns : at[c] = "idle"
  BY Resting DEF Ats
<1>2. /\ members \in [Rooms -> SUBSET Conns]
      /\ roomsOf \in [Conns -> SUBSET Rooms]
      /\ joined \in [Conns -> SUBSET Rooms]
      /\ shown \in [Conns -> SUBSET Conns]
  OBVIOUS
<1>3. asks \in 0..MaxAsks /\ mishaps \in 0..MaxMishaps
  BY BoundsAssumption
<1>4. /\ from \in [Transfers -> Conns \cup {None}]
      /\ to \in [Transfers -> Conns \cup {None}]
  OBVIOUS
<1>5. TypeOK
  BY <1>1, <1>2, <1>3, <1>4 DEF TypeOK
<1>6. ASSUME NEW c \in Conns
      PROVE  /\ Handed(c) /\ Ending(c) /\ Failing(c) /\ Placed(c)
             /\ \A p \in Conns : Reading(c, p)
  BY <1>1, <1>6 DEF Handed, Fits, Ending, Failing, Placed, Reading, Parted,
                    Listing
<1>7. ASSUME NEW p \in Conns
      PROVE  Current(p)
  <2>1. Reachable(p) = {} /\ shown[p] = {}
    BY DEF Reachable
  <2>2. \A e \in Conns : ~Listing(e, p)
    BY <1>1 DEF Listing
  <2> QED
    BY <2>1, <2>2 DEF Current
<1>8. AbortedWithPeer
  BY DEF AbortedWithPeer
<1> QED
  BY <1>5, <1>6, <1>7, <1>8 DEF IInv
-----------------------------------------------------------------------------
(* Every step preserves the typing.                                        *)
LEMMA RoomTypes ==
  ASSUME IInv, NEW c \in Conns, Step(c)
  PROVE  /\ members' \in [Rooms -> SUBSET Conns]
         /\ roomsOf' \in [Conns -> SUBSET Rooms]
         /\ joined' \in [Conns -> SUBSET Rooms]
<1>0. /\ members \in [Rooms -> SUBSET Conns]
      /\ roomsOf \in [Conns -> SUBSET Rooms]
      /\ joined \in [Conns -> SUBSET Rooms] /\ Handed(c)
  BY Parts DEF TypeOK
<1>1. CASE UNCHANGED membership
  BY <1>0, <1>1 DEF membership
<1>2. CASE \E r \in Rooms : Enter(c, r)
  BY <1>0, <1>2 DEF Enter
<1>3. CASE JoinedRoom(c) \/ Joined(c)
  <2>1. job[c].room \in Rooms
    BY <1>0, <1>3 DEF JoinedRoom, Joined, Go, Handed, Fits
  <2> QED
    BY <1>0, <1>3, <2>1 DEF JoinedRoom, Joined
<1>4. CASE Leave(c)
  <2>1. PICK r \in Rooms : /\ members' = [members EXCEPT ![r] = @ \ {c}]
                           /\ joined' = [joined EXCEPT ![c] = @ \ {r}]
                           /\ roomsOf' = roomsOf
    BY <1>4 DEF Leave, First, Rooms
  <2> QED
    BY <1>0, <2>1
<1>5. CASE LeftRoom(c)
  BY <1>0, <1>5 DEF LeftRoom
<1> QED
  BY <1>1, <1>2, <1>3, <1>4, <1>5, RoomSteps

TransferTypes ==
  /\ table \subseteq Transfers /\ live \subseteq table /\ late \subseteq table
  /\ from \in [Transfers -> Conns \cup {None}]
  /\ to \in [Transfers -> Conns \cup {None}]

LEMMA TransfersTyped ==
  ASSUME IInv, NEW c \in Conns, Step(c)
  PROVE  TransferTypes'
<1>0. TransferTypes /\ job[c].peer \in Conns \cup {None}
  BY Parts, Fields DEF TypeOK, TransferTypes
<1>1. CASE UNCHANGED transfers
  BY <1>0, <1>1 DEF transfers, TransferTypes
<1>2. CASE \E x \in Transfers : Begin(c, x)
  <2>1. PICK x \in Transfers : Begin(c, x)
    BY <1>2
  <2>2. /\ table' = table \cup {x} /\ live' = live \cup {x}
        /\ from' = [from EXCEPT ![x] = c]
        /\ to' = [to EXCEPT ![x] = job[c].peer]
        /\ late' = late \cup {x} \/ late' = late
    BY <2>1 DEF Begin
  <2> QED
    BY <1>0, <2>2 DEF TransferTypes
<1>3. CASE UNCHANGED <<table, from, to, late>> /\ \E x : live' = live \ {x}
  BY <1>0, <1>3 DEF TransferTypes
<1> QED
  BY <1>1, <1>2, <1>3, TransferSteps

LEMMA StepTypes ==
  ASSUME IInv, NEW c \in Conns, Step(c)
  PROVE  TypeOK' /\ \A d \in Conns : Handed(d)'
<1>0. TypeOK /\ \A d \in Conns : Handed(d)
  BY DEF IInv
<1>1. Turned(c)
  BY Turns DEF Step
<1>2. Plugged
  BY SocketSteps
<1>3. /\ open \subseteq Conns /\ writing \subseteq Conns
      /\ asks \in 0..MaxAsks /\ raced \subseteq Conns /\ swept \subseteq Conns
  BY <1>0 DEF TypeOK
<1>4. asks' \in 0..MaxAsks
  BY <1>3, HistorySteps, BoundsAssumption
<1>5. raced' \subseteq Conns
  <2>1. CASE SendRoster(c)
    <3>1. job[c].peer \in Conns
      BY <2>1, <1>0 DEF SendRoster, Go, Handed, Fits
    <3> QED
      BY <2>1, <3>1, <1>3 DEF SendRoster
  <2>2. CASE HelloAgain(c) \/ NextMember(c)
    BY <2>2, <1>3 DEF HelloAgain, NextMember, BeginsWith
  <2> QED
    BY <2>1, <2>2, <1>3, HistorySteps
<1>6. swept' \subseteq Conns
  BY <1>3, HistorySteps DEF Aborted
<1>7. TransferTypes'
  BY TransfersTyped
<1>8. /\ members' \in [Rooms -> SUBSET Conns]
      /\ roomsOf' \in [Conns -> SUBSET Rooms]
      /\ joined' \in [Conns -> SUBSET Rooms]
  BY RoomTypes
<1>9. TypeOK'
  BY <1>1, <1>2, <1>3, <1>4, <1>5, <1>6, <1>7, <1>8
     DEF TypeOK, Turned, Plugged, TransferTypes
<1>10. ASSUME NEW d \in Conns, d # c PROVE Handed(d)'
  BY <1>0, <1>1, <1>10 DEF Turned, Handed, Fits
<1> QED
  BY <1>1, <1>9, <1>10 DEF Turned

LEMMA OtherTypes ==
  ASSUME IInv, \/ \E c \in Conns : Socket(c)
               \/ \E x \in Transfers : DataEnds(x) \/ Reap(x)
               \/ UNCHANGED vars
  PROVE  TypeOK' /\ \A d \in Conns : Handed(d)'
<1>0. TypeOK /\ \A d \in Conns : Handed(d)
  BY DEF IInv
<1>1. UNCHANGED <<membership, at, job, asks, raced, swept, shown, closed>>
  BY DEF Socket, Hangup, PingFails, WriterSeesClosed, DataEnds, Reap, vars,
         sockets, membership
<1>2. \A d \in Conns : Handed(d)'
  BY <1>0, <1>1 DEF Handed, Fits
<1>3. /\ TransferTypes /\ open \subseteq Conns /\ writing \subseteq Conns
      /\ mishaps \in 0..MaxMishaps
  BY <1>0 DEF TypeOK, TransferTypes
<1>4. CASE \E c \in Conns : Socket(c)
  <2>1. /\ UNCHANGED transfers /\ open' \subseteq open
        /\ writing' \subseteq writing
        /\ mishaps' = mishaps \/ Mishap
    BY <1>4 DEF Socket, Hangup, PingFails, WriterSeesClosed
  <2>2. mishaps' \in 0..MaxMishaps
    BY <2>1, <1>3, BoundsAssumption DEF Mishap
  <2>3. TransferTypes'
    BY <2>1, <1>3 DEF transfers, TransferTypes
  <2> QED
    BY <2>1, <2>2, <2>3, <1>0, <1>1, <1>2, <1>3
       DEF TypeOK, TransferTypes, membership
<1>5. CASE \E x \in Transfers : DataEnds(x) \/ Reap(x)
  <2>1. UNCHANGED sockets
    BY <1>5 DEF DataEnds, Reap
  <2>2. TransferTypes'
    BY <1>3, <1>5 DEF TransferTypes, DataEnds, Reap
  <2> QED
    BY <2>1, <2>2, <1>0, <1>1, <1>2
       DEF TypeOK, TransferTypes, membership, sockets
<1>6. CASE UNCHANGED vars
  BY <1>6, <1>0, <1>1, <1>2
     DEF TypeOK, vars, membership, sockets, transfers
<1> QED
  BY <1>4, <1>5, <1>6

LEMMA Typed ==
  ASSUME IInv, [Next]_vars
  PROVE  TypeOK' /\ \A d \in Conns : Handed(d)'
BY Steps, StepTypes, OtherTypes
-----------------------------------------------------------------------------
(* Cleanups.                                                               *)
LEMMA Went ==
  ASSUME TypeOK, NEW c \in Conns, NEW b, NEW a, NEW j, Go(c, b, a, j)
  PROVE  at[c] = b /\ at'[c] = a /\ job'[c] = j
BY DEF Go, TypeOK

(* The read loop and what it calls are over when the cleanup begins, but   *)
(* for the rosters that both send.                                         *)
LEMMA Places ==
  ASSUME TypeOK, NEW c \in Conns, Step(c)
  PROVE  \/ /\ at[c] \in {"idle", "recording", "joined", "replying",
                          "beginning", "ready", "telling"}
            /\ at'[c] \notin Parted \cup {"collecting", "aborting"}
         \/ /\ at[c] \in {"notifying", "listing"}
            /\ at'[c] \in {"notifying", "listing"}
         \/ Notified(c) \/ Cleanup(c)
<1>1. CASE Asked(c)
  <2>1. PICK a \in {"recording", "replying", "listing", "idle", "beginning",
                    "telling"} : \E j : Go(c, "idle", a, j)
    BY <1>1 DEF Asked, Enter, EnterFails, HelloAgain, Refused, Relay,
                TransferBegin, TransferEnd, Ask
  <2> QED
    BY <2>1, Went DEF Parted
<1>2. CASE \/ NextRoom(c) \/ NextMember(c) \/ ListRoom(c) \/ SendRoster(c)
  <2>1. PICK b \in {"notifying", "listing"}, a \in {"notifying", "listing"} :
          \E j : Go(c, b, a, j)
    BY <1>2 DEF NextRoom, NextMember, ListRoom, SendRoster
  <2> QED
    BY <2>1, Went
<1>3. CASE \/ JoinedRoom(c) \/ Joined(c) \/ Reply(c) \/ BeginRefused(c)
           \/ (\E x \in Transfers : Begin(c, x)) \/ SenderReady(c)
           \/ TellOther(c)
  <2>1. PICK b \in {"recording", "joined", "replying", "beginning", "ready",
                    "telling"},
             a \in {"joined", "notifying", "replying", "idle", "ready",
                    "telling"} : \E j : Go(c, b, a, j)
    BY <1>3 DEF JoinedRoom, Joined, Reply, BeginRefused, Begin, SenderReady,
                TellOther
  <2> QED
    BY <2>1, Went DEF Parted
<1> QED
  BY <1>1, <1>2, <1>3 DEF Step, Handling

LEMMA EndingStep ==
  ASSUME IInv, [Next]_vars, NEW d \in Conns
  PROVE  Ending(d)'
<1>0. TypeOK /\ \A c \in Conns : Ending(c)
  BY DEF IInv
<1>1. ASSUME NEW c \in Conns, Step(c)
      PROVE  Ending(d)'
  <2>1. Turned(c) /\ closed \subseteq closed'
    BY <1>1, Turns, SocketSteps DEF Step, Plugged
  <2>2. CASE d # c
    <3>1. d \in swept' => d \in swept
      BY <1>1, <2>2, HistorySteps DEF Aborted
    <3>2. at'[d] = at[d] /\ swept \subseteq swept'
      BY <1>1, <2>1, <2>2, HistorySteps DEF Turned, Aborted
    <3> QED
      BY <3>1, <3>2, <2>1, <1>0 DEF Ending
  <2>3. CASE d = c
    <3>0. Ending(c) /\ closed \subseteq closed'
      BY <1>0, <2>1
    <3>1. ASSUME ~Cleanup(c)
          PROVE  Ending(c)'
      <4>1. swept' = swept
        BY <1>1, <3>1, HistorySteps DEF Cleanup
      <4>2. CASE Notified(c)
        <5>1. PICK j : Go(c, "notifying",
                          IF c \in swept THEN "leaving" ELSE "idle", j)
          BY <4>2 DEF Notified
        <5>2. at'[c] = IF c \in swept THEN "leaving" ELSE "idle"
          BY <5>1, <1>0, Went
        <5> QED
          BY <5>2, <4>1, <3>0 DEF Ending, Parted
      <4>3. CASE ~Notified(c)
        BY <3>0, <3>1, <4>1, <4>3, <1>0, <1>1, Places DEF Ending, Parted
      <4> QED
        BY <4>2, <4>3
    <3>2. CASE ReadFails(c)
      <4>1. PICK j : Go(c, "idle", "collecting", j)
        BY <3>2 DEF ReadFails
      <4>2. at[c] = "idle" /\ at'[c] = "collecting"
        BY <4>1, <1>0, Went
      <4>3. c \in closed' /\ swept' = swept
        BY <3>2 DEF ReadFails
      <4> QED
        BY <4>2, <4>3, <3>0, <2>3 DEF Ending, Parted
    <3>3. CASE Collect(c) \/ AbortOne(c)
      <4>1. PICK b \in {"collecting", "aborting"} :
              \E j : Go(c, b, "aborting", j)
        BY <3>3 DEF Collect, AbortOne
      <4>2. at[c] \in {"collecting", "aborting"} /\ at'[c] = "aborting"
        BY <4>1, <1>0, Went
      <4>3. swept' = swept
        BY <3>3 DEF Collect, AbortOne
      <4> QED
        BY <4>2, <4>3, <3>0, <2>3 DEF Ending, Parted
    <3>4. CASE Aborted(c)
      <4>1. PICK j : Go(c, "aborting", "leaving", j)
        BY <3>4 DEF Aborted
      <4>2. at[c] = "aborting" /\ at'[c] = "leaving"
        BY <4>1, <1>0, Went
      <4>3. swept' = swept \cup {c}
        BY <3>4 DEF Aborted
      <4> QED
        BY <4>2, <4>3, <3>0, <2>3 DEF Ending, Parted
    <3>5. CASE \/ Leave(c) \/ LeftRoom(c) \/ Broadcast(c) \/ TellLeft(c)
               \/ AllTold(c)
      <4>1. PICK b \in Parted, a \in Parted \cup {"notifying"} :
              \E j : Go(c, b, a, j)
        BY <3>5 DEF Leave, LeftRoom, Broadcast, TellLeft, AllTold, Parted
      <4>2. at[c] \in Parted /\ at'[c] \in Parted \cup {"notifying"}
        BY <4>1, <1>0, Went
      <4>3. swept' = swept
        BY <3>5 DEF Leave, LeftRoom, Broadcast, TellLeft, AllTold
      <4> QED
        BY <4>2, <4>3, <3>0, <2>3 DEF Ending, Parted
    <3>6. CASE Gone(c)
      <4>1. at[c] = "leaving" /\ at'[c] = "gone" /\ swept' = swept
        BY <3>6, <1>0 DEF Gone, TypeOK
      <4> QED
        BY <4>1, <3>0, <2>3 DEF Ending, Parted
    <3> QED
      BY <2>3, <3>1, <3>2, <3>3, <3>4, <3>5, <3>6 DEF Cleanup
  <2> QED
    BY <2>2, <2>3
<1>2. ASSUME UNCHANGED <<at, swept, closed>>
      PROVE  Ending(d)'
  BY <1>0, <1>2 DEF Ending
<1> QED
  BY <1>1, <1>2, Steps
     DEF Socket, Hangup, PingFails, WriterSeesClosed, DataEnds, Reap, vars,
         sockets

(* What is failed stays failed, and a transfer that is minted has a sender *)
(* who is there.                                                           *)
LEMMA FailingStep ==
  ASSUME IInv, [Next]_vars, NEW d \in Conns
  PROVE  Failing(d)'
<1>0. /\ TypeOK /\ Failing(d) /\ live \subseteq table
      /\ from \in [Transfers -> Conns \cup {None}]
      /\ to \in [Transfers -> Conns \cup {None}] /\ table \subseteq Transfers
  BY Parts DEF TypeOK
<1>1. ASSUME UNCHANGED <<at, job>>, live' \subseteq live,
             \A x \in live' : /\ from'[x] = from[x] /\ to'[x] = to[x]
                              /\ x \in late => x \in late'
      PROVE  Failing(d)'
  BY <1>0, <1>1 DEF Failing
<1>2. ASSUME NEW c \in Conns, Step(c)
      PROVE  Failing(d)'
  <2>1. Turned(c)
    BY <1>2, Turns DEF Step
  <2>2. CASE d # c
    <3>1. at'[d] = at[d] /\ job'[d] = job[d]
      BY <2>1, <2>2 DEF Turned
    <3>2. CASE \E x \in Transfers : Begin(c, x)
      <4>1. PICK x \in Transfers : Begin(c, x)
        BY <3>2
      <4>2. /\ live' = live \cup {x} /\ from' = [from EXCEPT ![x] = c]
            /\ to' = [to EXCEPT ![x] = job[c].peer]
            /\ late' = IF CleaningUp(job[c].peer) THEN late \cup {x} ELSE late
        BY <4>1 DEF Begin
      <4>3. /\ from'[x] = c /\ to'[x] = job[c].peer
            /\ \A y \in Transfers \ {x} : from'[y] = from[y] /\ to'[y] = to[y]
        BY <4>2, <1>0
      <4>4. at[d] = "aborting" /\ to'[x] = d => x \in late'
        BY <4>2, <4>3 DEF CleaningUp
      <4> QED
        BY <4>2, <4>3, <4>4, <3>1, <2>2, <1>0 DEF Failing
    <3>3. CASE ~\E x \in Transfers : Begin(c, x)
      <4>1. UNCHANGED <<from, to, late>> /\ live' \subseteq live
        BY <1>2, <3>3, TransferSteps DEF transfers
      <4> QED
        BY <4>1, <3>1, <1>0 DEF Failing
    <3> QED
      BY <3>2, <3>3
  <2>3. CASE d = c
    <3>1. CASE Collect(c)
      <4>1. Go(c, "collecting", "aborting",
               [Rest EXCEPT !.fails = {x \in live : c \in {from[x], to[x]}}])
        BY <3>1 DEF Collect
      <4>2. job'[c].fails = {x \in live : c \in {from[x], to[x]}}
        BY <4>1, <1>0, Went DEF Rest
      <4>3. UNCHANGED transfers
        BY <3>1 DEF Collect
      <4> QED
        BY <4>2, <4>3, <2>3 DEF Failing, transfers
    <3>2. CASE AbortOne(c)
      <4>1. PICK x \in job[c].fails :
              /\ Go(c, "aborting", "aborting",
                    [job[c] EXCEPT !.fails = @ \ {x}])
              /\ live' = live \ {x} /\ UNCHANGED <<table, from, to, late>>
        BY <3>2 DEF AbortOne
      <4>2. /\ at[c] = "aborting"
            /\ job'[c] = [job[c] EXCEPT !.fails = @ \ {x}]
        BY <4>1, <1>0, Went
      <4>3. job'[c].fails = job[c].fails \ {x}
        BY <4>2, Parts DEF Jobs
      <4> QED
        BY <4>1, <4>2, <4>3, <2>3, <1>0 DEF Failing
    <3>3. CASE ~Collect(c) /\ ~AbortOne(c)
      <4>1. at'[c] # "aborting"
        <5>1. CASE Notified(c)
          <6>1. PICK a \in {"leaving", "idle"} : \E j : Go(c, "notifying", a, j)
            BY <5>1 DEF Notified
          <6> QED
            BY <6>1, <1>0, Went
        <5>2. CASE Cleanup(c) /\ ~Gone(c)
          <6>1. PICK a \in {"collecting", "leaving", "left", "parting",
                            "broadcasting", "notifying"} :
              \E b, j : Go(c, b, a, j)
            BY <5>2, <3>3 DEF Cleanup, ReadFails, Aborted, Leave, LeftRoom,
                              Broadcast, TellLeft, AllTold
          <6> QED
            BY <6>1, <1>0, Went
        <5>3. CASE Gone(c)
          BY <5>3, <1>0 DEF Gone, TypeOK
        <5> QED
          BY <5>1, <5>2, <5>3, <1>0, <1>2, Places
      <4> QED
        BY <4>1, <2>3 DEF Failing
    <3> QED
      BY <3>1, <3>2, <3>3
  <2> QED
    BY <2>2, <2>3
<1>3. CASE \E c \in Conns : Socket(c)
  BY <1>1, <1>3 DEF Socket, Hangup, PingFails, WriterSeesClosed, transfers
<1>4. CASE \E x \in Transfers : DataEnds(x) \/ Reap(x)
  <2>1. PICK x \in Transfers : DataEnds(x) \/ Reap(x)
    BY <1>4
  <2>2. /\ UNCHANGED <<at, job>> /\ live' \subseteq live
        /\ \A y \in live' : y \in late => y \in late'
    BY <2>1 DEF DataEnds, Reap
  <2>3. \A y \in live' : from'[y] = from[y] /\ to'[y] = to[y]
    BY <2>1, <1>0 DEF DataEnds, Reap
  <2> QED
    BY <2>2, <2>3, <1>1
<1>5. CASE UNCHANGED vars
  BY <1>1, <1>5 DEF vars, transfers
<1> QED
  BY <1>2, <1>3, <1>4, <1>5, Steps

LEMMA AbortedStep ==
  ASSUME IInv, [Next]_vars
  PROVE  AbortedWithPeer'
<1>0. /\ TypeOK /\ AbortedWithPeer /\ live \subseteq table
      /\ from \in [Transfers -> Conns \cup {None}]
      /\ to \in [Transfers -> Conns \cup {None}] /\ table \subseteq Transfers
      /\ \A c \in Conns : Ending(c) /\ Failing(c)
  BY DEF TypeOK, IInv
<1>1. ASSUME swept' = swept, live' \subseteq live,
             \A x \in live' : /\ from'[x] = from[x] /\ to'[x] = to[x]
                              /\ x \in late => x \in late'
      PROVE  AbortedWithPeer'
  BY <1>0, <1>1 DEF AbortedWithPeer
<1>2. ASSUME NEW c \in Conns, Step(c)
      PROVE  AbortedWithPeer'
  <2>1. CASE \E x \in Transfers : Begin(c, x)
    <3>1. PICK x \in Transfers : Begin(c, x)
      BY <2>1
    <3>2. /\ live' = live \cup {x} /\ from' = [from EXCEPT ![x] = c]
          /\ to' = [to EXCEPT ![x] = job[c].peer] /\ swept' = swept
          /\ late' = IF CleaningUp(job[c].peer) THEN late \cup {x} ELSE late
          /\ at[c] = "beginning"
      BY <3>1 DEF Begin, Go
    <3>3. /\ from'[x] = c /\ to'[x] = job[c].peer
          /\ \A y \in Transfers \ {x} : from'[y] = from[y] /\ to'[y] = to[y]
      BY <3>2, <1>0
    <3>4. c \notin swept
      BY <3>2, <1>0 DEF Ending, Parted
    <3>5. to'[x] \in swept => x \in late'
      BY <3>2, <3>3 DEF CleaningUp
    <3> QED
      BY <3>2, <3>3, <3>4, <3>5, <1>0 DEF AbortedWithPeer
  <2>2. CASE Aborted(c)
    <3>1. /\ UNCHANGED transfers /\ swept' = swept \cup {c}
          /\ at[c] = "aborting" /\ job[c].fails = {}
      BY <2>2 DEF Aborted, Go
    <3>2. \A x \in live : from[x] # c /\ (to[x] = c => x \in late)
      BY <3>1, <1>0 DEF Failing
    <3> QED
      BY <3>1, <3>2, <1>0 DEF AbortedWithPeer, transfers
  <2>3. CASE ~Aborted(c) /\ ~\E x \in Transfers : Begin(c, x)
    <3>1. UNCHANGED <<from, to, late, swept>> /\ live' \subseteq live
      BY <1>2, <2>3, TransferSteps, HistorySteps DEF transfers
    <3> QED
      BY <3>1, <1>1
  <2> QED
    BY <2>1, <2>2, <2>3
<1>3. CASE \E c \in Conns : Socket(c)
  BY <1>1, <1>3 DEF Socket, Hangup, PingFails, WriterSeesClosed, transfers
<1>4. CASE \E x \in Transfers : DataEnds(x) \/ Reap(x)
  <2>1. PICK x \in Transfers : DataEnds(x) \/ Reap(x)
    BY <1>4
  <2>2. /\ swept' = swept /\ live' \subseteq live
        /\ \A y \in live' : y \in late => y \in late'
    BY <2>1 DEF DataEnds, Reap
  <2>3. \A y \in live' : from'[y] = from[y] /\ to'[y] = to[y]
    BY <2>1, <1>0 DEF DataEnds, Reap
  <2> QED
    BY <2>2, <2>3, <1>1
<1>5. CASE UNCHANGED vars
  BY <1>1, <1>5 DEF vars, transfers
<1> QED
  BY <1>2, <1>3, <1>4, <1>5, Steps
-----------------------------------------------------------------------------
(* Rooms and rosters.                                                      *)
LEMMA Left ==
  ASSUME IInv, NEW c \in Conns, at[c] \in Parted
  PROVE  c \in closed
BY Parts DEF Ending

(* A step records a room or forgets one for its own connection only, and   *)
(* takes nobody off a room's members but its own closed peer.              *)
LEMMA Others ==
  ASSUME IInv, NEW c \in Conns, Step(c)
  PROVE  /\ \A p \in Conns \ {c} : roomsOf'[p] = roomsOf[p]
         /\ c \notin closed => \A r \in roomsOf[c] : r \in roomsOf'[c]
         /\ \A p \in Conns, r \in Rooms :
              p \in members[r] => p \in members'[r] \/ (p = c /\ c \in closed)
<1>0. /\ TypeOK /\ members \in [Rooms -> SUBSET Conns]
      /\ roomsOf \in [Conns -> SUBSET Rooms]
  BY Parts DEF TypeOK
<1>1. CASE UNCHANGED membership
  BY <1>1 DEF membership
<1>2. CASE \E r \in Rooms : Enter(c, r)
  <2>1. PICK r \in Rooms : /\ members' = [members EXCEPT ![r] = @ \cup {c}]
                           /\ roomsOf' = roomsOf
    BY <1>2 DEF Enter
  <2> QED
    BY <2>1, <1>0
<1>3. CASE JoinedRoom(c)
  BY <1>3, <1>0 DEF JoinedRoom
<1>4. CASE Joined(c)
  BY <1>4 DEF Joined
<1>5. CASE Leave(c)
  <2>1. PICK r \in Rooms : /\ members' = [members EXCEPT ![r] = @ \ {c}]
                           /\ roomsOf' = roomsOf /\ at[c] = "leaving"
    BY <1>5 DEF Leave, First, Rooms, Go
  <2>2. c \in closed
    BY <2>1, Left DEF Parted
  <2> QED
    BY <2>1, <2>2, <1>0
<1>6. CASE LeftRoom(c)
  <2>1. /\ roomsOf' = [roomsOf EXCEPT ![c] = @ \ {job[c].room}]
        /\ members' = members /\ at[c] = "left"
    BY <1>6 DEF LeftRoom, Go
  <2>2. c \in closed
    BY <2>1, Left DEF Parted
  <2> QED
    BY <2>1, <2>2, <1>0
<1> QED
  BY <1>1, <1>2, <1>3, <1>4, <1>5, <1>6, RoomSteps

(* The steps after which a handler is recording a room, or listing.        *)
LEMMA Entered ==
  ASSUME TypeOK, NEW c \in Conns, Step(c)
  PROVE  /\ at'[c] = "recording" => \E r \in Rooms : Enter(c, r)
         /\ at'[c] = "joined" => JoinedRoom(c)
         /\ at'[c] = "listing" => HelloAgain(c) \/ NextMember(c) \/ ListRoom(c)
<1>1. CASE /\ Asked(c) /\ ~HelloAgain(c)
           /\ ~\E r \in Rooms : Enter(c, r)
  <2>1. PICK a \in {"replying", "idle", "beginning", "telling"} :
          \E j : Go(c, "idle", a, j)
    BY <1>1 DEF Asked, EnterFails, Refused, Relay, TransferBegin, TransferEnd,
                Ask
  <2> QED
    BY <2>1, Went
<1>2. CASE \E r \in Rooms : Enter(c, r)
  <2>1. \E j : Go(c, "idle", "recording", j)
    BY <1>2 DEF Enter, Ask
  <2> QED
    BY <2>1, <1>2, Went
<1>3. CASE HelloAgain(c)
  <2>1. \E j : Go(c, "idle", "listing", j)
    BY <1>3 DEF HelloAgain, Ask
  <2> QED
    BY <2>1, <1>3, Went
<1>4. CASE JoinedRoom(c)
  <2>1. \E j : Go(c, "recording", "joined", j)
    BY <1>4 DEF JoinedRoom
  <2> QED
    BY <2>1, <1>4, Went
<1>5. CASE NextMember(c) \/ ListRoom(c)
  <2>1. \E b, j : Go(c, b, "listing", j)
    BY <1>5 DEF NextMember, ListRoom
  <2> QED
    BY <2>1, <1>5, Went
<1>6. CASE /\ Handling(c)
           /\ ~(JoinedRoom(c) \/ NextMember(c) \/ ListRoom(c))
  <2>1. PICK a \in {"notifying", "leaving", "idle", "replying", "ready",
                    "telling"} :
          \E b, j : Go(c, b, a, j)
    BY <1>6 DEF Handling, Joined, NextRoom, SendRoster, Notified, Reply,
                BeginRefused, Begin, SenderReady, TellOther
  <2> QED
    BY <2>1, Went
<1>7. CASE Cleanup(c) /\ ~Gone(c)
  <2>1. PICK a \in {"collecting", "aborting", "leaving", "left", "parting",
                    "broadcasting", "notifying"} :
          \E b, j : Go(c, b, a, j)
    BY <1>7 DEF Cleanup, ReadFails, Collect, AbortOne, Aborted, Leave,
                LeftRoom, Broadcast, TellLeft, AllTold
  <2> QED
    BY <2>1, Went
<1>8. CASE Gone(c)
  BY <1>8 DEF Gone, TypeOK
<1> QED
  BY <1>1, <1>2, <1>3, <1>4, <1>5, <1>6, <1>7, <1>8 DEF Step, Asked

LEMMA PlacedStep ==
  ASSUME IInv, [Next]_vars, NEW d \in Conns
  PROVE  Placed(d)'
<1>0. /\ TypeOK /\ Placed(d) /\ Handed(d)
      /\ members \in [Rooms -> SUBSET Conns]
      /\ roomsOf \in [Conns -> SUBSET Rooms]
  BY Parts DEF TypeOK
<1>1. ASSUME NEW c \in Conns, Step(c)
      PROVE  Placed(d)'
  <2>1. Turned(c) /\ closed \subseteq closed'
    BY <1>1, Turns, SocketSteps DEF Step, Plugged
  <2>2. CASE d # c
    <3>1. at'[d] = at[d] /\ job'[d] = job[d] /\ roomsOf'[d] = roomsOf[d]
      BY <1>1, <2>1, <2>2, Others DEF Turned
    <3>2. \A r \in Rooms : d \in members[r] => d \in members'[r]
      BY <1>1, <2>2, Others
    <3>3. at[d] \in {"recording", "joined"} => job[d].room \in Rooms
      BY <1>0 DEF Handed, Fits
    <3> QED
      BY <3>1, <3>2, <3>3, <2>1, <1>0 DEF Placed
  <2>3. CASE d = c
    <3>1. CASE \E r \in Rooms : Enter(c, r)
      <4>1. PICK r \in Rooms : Enter(c, r)
        BY <3>1
      <4>2. /\ Go(c, "idle", "recording", [Rest EXCEPT !.room = r])
            /\ members' = [members EXCEPT ![r] = @ \cup {c}]
            /\ UNCHANGED <<roomsOf, closed>>
        BY <4>1 DEF Enter, Ask, PutNone
      <4>3. job'[c].room = r
        BY <4>2, <1>0, Went DEF Rest
      <4>4. /\ c \in members'[r]
            /\ \A q \in Rooms : members[q] \subseteq members'[q]
        BY <4>2, <1>0
      <4>5. c \notin closed' => \A q \in roomsOf'[c] : c \in members'[q]
        BY <4>2, <4>4, <2>3, <1>0 DEF Placed
      <4> QED
        BY <4>3, <4>4, <4>5, <2>3 DEF Placed
    <3>2. CASE JoinedRoom(c)
      <4>1. /\ Go(c, "recording", "joined", job[c])
            /\ roomsOf' = [roomsOf EXCEPT ![c] = @ \cup {job[c].room}]
            /\ UNCHANGED <<members, closed>>
        BY <3>2 DEF JoinedRoom, PutNone
      <4>2. at[c] = "recording" /\ job'[c] = job[c]
        BY <4>1, <1>0, Went
      <4>3. roomsOf'[c] = roomsOf[c] \cup {job[c].room}
        BY <4>1, <1>0
      <4> QED
        BY <4>1, <4>2, <4>3, <2>3, <1>0 DEF Placed
    <3>3. CASE ~JoinedRoom(c) /\ ~\E r \in Rooms : Enter(c, r)
      <4>1. at'[c] \notin {"recording", "joined"}
        BY <1>0, <1>1, <3>3, Entered
      <4>2. c \notin closed' => UNCHANGED <<members, roomsOf>>
        <5>1. CASE Leave(c) \/ LeftRoom(c)
          BY <5>1, <2>1, Left DEF Leave, LeftRoom, Go, Parted
        <5> QED
          BY <1>1, <3>3, <5>1, RoomSteps DEF membership, Joined
      <4> QED
        BY <4>1, <4>2, <2>1, <2>3, <1>0 DEF Placed
    <3> QED
      BY <3>1, <3>2, <3>3
  <2> QED
    BY <2>2, <2>3
<1>2. ASSUME UNCHANGED <<at, job, membership, closed>>
      PROVE  Placed(d)'
  BY <1>0, <1>2 DEF Placed, membership
<1> QED
  BY <1>1, <1>2, Steps
     DEF Socket, Hangup, PingFails, WriterSeesClosed, DataEnds, Reap, vars,
         sockets

(* What a handler that begins to list has of the rooms, and of those that  *)
(* it has listed.                                                          *)
LEMMA BeginsListing ==
  ASSUME IInv, NEW c \in Conns, HelloAgain(c) \/ NextMember(c)
  PROVE  /\ UNCHANGED membership /\ at'[c] = "listing"
         /\ job'[c].peer \in Conns /\ job'[c].seen = {}
         /\ job'[c].unread = roomsOf[job'[c].peer]
         /\ at[c] # "listing"
         /\ shown' = shown
<1>0. TypeOK /\ Handed(c) /\ job[c] \in Jobs
  BY Parts
<1>1. CASE HelloAgain(c)
  <2>1. /\ Go(c, "idle", "listing",
              [Rest EXCEPT !.peer = c, !.unread = roomsOf[c]])
        /\ UNCHANGED membership /\ shown' = shown
    BY <1>1 DEF HelloAgain, Ask, PutNone
  <2>2. /\ at[c] = "idle" /\ at'[c] = "listing"
        /\ job'[c] = [Rest EXCEPT !.peer = c, !.unread = roomsOf[c]]
    BY <2>1, <1>0, Went
  <2>3. job'[c].peer = c /\ job'[c].seen = {} /\ job'[c].unread = roomsOf[c]
    BY <2>2 DEF Rest
  <2> QED
    BY <2>1, <2>2, <2>3
<1>2. CASE NextMember(c)
  <2>1. PICK p \in job[c].tell :
          Go(c, "notifying", "listing",
             [job[c] EXCEPT !.tell = @ \ {p}, !.peer = p,
                            !.unread = roomsOf[p]])
    BY <1>2 DEF NextMember
  <2>2. /\ at[c] = "notifying" /\ at'[c] = "listing"
        /\ job'[c] = [job[c] EXCEPT !.tell = @ \ {p}, !.peer = p,
                                    !.unread = roomsOf[p]]
    BY <2>1, <1>0, Went
  <2>3. /\ job'[c].peer = p /\ job'[c].seen = job[c].seen
        /\ job'[c].unread = roomsOf[p]
    BY <2>2, <1>0 DEF Jobs
  <2>4. p \in Conns /\ job[c].seen = {}
    BY <2>1, <2>2, <1>0, Fields DEF Handed, Fits
  <2>5. UNCHANGED membership /\ shown' = shown
    BY <1>2 DEF NextMember, PutNone
  <2> QED
    BY <2>2, <2>3, <2>4, <2>5
<1> QED
  BY <1>1, <1>2

LEMMA GoesOnListing ==
  ASSUME IInv, NEW c \in Conns, ListRoom(c)
  PROVE  /\ UNCHANGED membership /\ at[c] = "listing" /\ at'[c] = "listing"
         /\ job'[c].peer = job[c].peer /\ job'[c].tell = job[c].tell
         /\ job'[c].rooms = job[c].rooms /\ shown' = shown
         /\ \E r \in job[c].unread :
              /\ job'[c].unread = job[c].unread \ {r}
              /\ job'[c].seen = job[c].seen \cup (members[r] \ {job[c].peer})
<1>0. TypeOK /\ job[c] \in Jobs
  BY Parts
<1>1. PICK r \in job[c].unread :
        Go(c, "listing", "listing",
           [job[c] EXCEPT !.unread = @ \ {r},
                          !.seen = @ \cup (members[r] \ {job[c].peer})])
  BY DEF ListRoom
<1>2. /\ at[c] = "listing" /\ at'[c] = "listing"
      /\ job'[c] = [job[c] EXCEPT !.unread = @ \ {r},
                      !.seen = @ \cup (members[r] \ {job[c].peer})]
  BY <1>1, <1>0, Went
<1>3. /\ job'[c].peer = job[c].peer /\ job'[c].tell = job[c].tell
      /\ job'[c].rooms = job[c].rooms
      /\ job'[c].unread = job[c].unread \ {r}
      /\ job'[c].seen = job[c].seen \cup (members[r] \ {job[c].peer})
  BY <1>2, <1>0 DEF Jobs
<1>4. UNCHANGED membership /\ shown' = shown
  BY DEF ListRoom, PutNone
<1> QED
  BY <1>2, <1>3, <1>4

LEMMA ReadingStep ==
  ASSUME IInv, [Next]_vars, NEW e \in Conns, NEW p \in Conns
  PROVE  Reading(e, p)'
<1>0. /\ TypeOK /\ Reading(e, p)
  BY Parts DEF IInv
<1>1. ASSUME NEW c \in Conns, Step(c)
      PROVE  Reading(e, p)'
  <2>1. Turned(c) /\ closed \subseteq closed'
    BY <1>1, Turns, SocketSteps DEF Step, Plugged
  <2>2. p \notin closed => \A r \in roomsOf[p] : r \in roomsOf'[p]
    BY <1>1, Others
  <2>3. CASE e # c
    <3>1. at'[e] = at[e] /\ job'[e] = job[e]
      BY <2>1, <2>3 DEF Turned
    <3> QED
      BY <3>1, <2>1, <2>2, <1>0 DEF Reading, Listing
  <2>4. CASE e = c
    <3>1. CASE HelloAgain(c) \/ NextMember(c)
      <4>1. /\ roomsOf' = roomsOf /\ job'[c].unread = roomsOf[job'[c].peer]
        BY <3>1, BeginsListing DEF membership
      <4> QED
        BY <4>1, <2>4 DEF Reading, Listing
    <3>2. CASE ListRoom(c)
      <4>1. /\ roomsOf' = roomsOf /\ at[c] = "listing"
            /\ job'[c].peer = job[c].peer
            /\ job'[c].unread \subseteq job[c].unread
        BY <3>2, GoesOnListing DEF membership
      <4> QED
        BY <4>1, <2>1, <2>4, <1>0 DEF Reading, Listing
    <3>3. CASE ~(HelloAgain(c) \/ NextMember(c) \/ ListRoom(c))
      BY <1>0, <1>1, <2>4, <3>3, Entered DEF Reading, Listing
    <3> QED
      BY <3>1, <3>2, <3>3
  <2> QED
    BY <2>3, <2>4
<1>2. ASSUME UNCHANGED <<at, job, membership, closed>>
      PROVE  Reading(e, p)'
  BY <1>0, <1>2 DEF Reading, Listing, membership
<1> QED
  BY <1>1, <1>2, Steps
     DEF Socket, Hangup, PingFails, WriterSeesClosed, DataEnds, Reap, vars,
         sockets
-----------------------------------------------------------------------------
(* A handler that is going to tell a peer still is after a step of its     *)
(* own, unless it begins with that peer.                                   *)
LEMMA DueGoesOn ==
  ASSUME IInv, NEW c \in Conns, Step(c), NEW p \in Conns, p \notin closed,
         Due(c, p)
  PROVE  Due(c, p)' \/ (NextMember(c) /\ Listing(c, p)')
<1>0. /\ TypeOK /\ Handed(c) /\ job[c] \in Jobs
      /\ joined \in [Conns -> SUBSET Rooms]
  BY Parts DEF TypeOK
<1>1. at[c] \in {"recording", "joined", "parting", "broadcasting", "left",
                 "notifying", "listing"}
  BY DEF Due
<1>2. \A r \in Rooms : p \in members[r] => p \in members'[r] \/ p = c
  BY Others
<1>3. CASE JoinedRoom(c)
  <2>1. /\ Go(c, "recording", "joined", job[c]) /\ members' = members
    BY <1>3 DEF JoinedRoom
  <2>2. at[c] = "recording" /\ at'[c] = "joined" /\ job'[c] = job[c]
    BY <2>1, <1>0, Went
  <2> QED
    BY <2>1, <2>2 DEF Due
<1>4. CASE Joined(c)
  <2>1. PICK s : /\ Go(c, "joined", "notifying", [Rest EXCEPT !.rooms = s])
                 /\ job[c].room \in s /\ members' = members
    <3>1. joined'[c] = joined[c] \cup {job[c].room}
      BY <1>4, <1>0 DEF Joined
    <3> QED
      BY <1>4, <3>1 DEF Joined
  <2>2. /\ at[c] = "joined" /\ at'[c] = "notifying"
        /\ job'[c] = [Rest EXCEPT !.rooms = s]
    BY <2>1, <1>0, Went
  <2>3. job'[c].rooms = s
    BY <2>2 DEF Rest
  <2> QED
    BY <2>1, <2>2, <2>3 DEF Due
<1>5. CASE NextRoom(c)
  <2> DEFINE r == First(job[c].rooms)
  <2>1. /\ Go(c, "notifying", "notifying",
              [job[c] EXCEPT !.tell = members[r], !.rooms = @ \ {r}])
        /\ members' = members /\ job[c].tell = {}
    BY <1>5 DEF NextRoom, membership
  <2> HIDE DEF r
  <2>2. /\ at[c] = "notifying" /\ at'[c] = "notifying"
        /\ job'[c] = [job[c] EXCEPT !.tell = members[r], !.rooms = @ \ {r}]
    BY <2>1, <1>0, Went
  <2>3. job'[c].tell = members[r] /\ job'[c].rooms = job[c].rooms \ {r}
    BY <2>2, <1>0 DEF Jobs
  <2> QED
    BY <2>1, <2>2, <2>3 DEF Due
<1>6. CASE NextMember(c)
  <2>1. PICK q \in job[c].tell :
          Go(c, "notifying", "listing",
             [job[c] EXCEPT !.tell = @ \ {q}, !.peer = q,
                            !.unread = roomsOf[q]])
    BY <1>6 DEF NextMember
  <2>2. /\ at[c] = "notifying" /\ at'[c] = "listing"
        /\ job'[c] = [job[c] EXCEPT !.tell = @ \ {q}, !.peer = q,
                                    !.unread = roomsOf[q]]
    BY <2>1, <1>0, Went
  <2>3. /\ job'[c].peer = q /\ job'[c].tell = job[c].tell \ {q}
        /\ job'[c].rooms = job[c].rooms
    BY <2>2, <1>0 DEF Jobs
  <2>4. members' = members
    BY <1>6 DEF NextMember, membership
  <2>5. CASE p = q
    BY <2>2, <2>3, <2>5, <1>6 DEF Listing
  <2>6. CASE p # q
    BY <2>2, <2>3, <2>4, <2>6 DEF Due
  <2> QED
    BY <2>5, <2>6
<1>7. CASE ListRoom(c)
  BY <1>7, GoesOnListing DEF Due, membership
<1>8. CASE SendRoster(c)
  <2>1. /\ Go(c, "listing", "notifying",
              [job[c] EXCEPT !.peer = None, !.seen = {}])
        /\ members' = members
    BY <1>8 DEF SendRoster, membership
  <2>2. /\ at[c] = "listing" /\ at'[c] = "notifying"
        /\ job'[c] = [job[c] EXCEPT !.peer = None, !.seen = {}]
    BY <2>1, <1>0, Went
  <2>3. job'[c].tell = job[c].tell /\ job'[c].rooms = job[c].rooms
    BY <2>2, <1>0 DEF Jobs
  <2> QED
    BY <2>1, <2>2, <2>3 DEF Due
<1>9. CASE LeftRoom(c)
  <2>1. PICK a : /\ Go(c, "left", a, job[c])
                 /\ job[c].owes # 0 => a = "parting"
                 /\ members' = members
    BY <1>9 DEF LeftRoom
  <2>2. at[c] = "left" /\ at'[c] = a /\ job'[c] = job[c]
    BY <2>1, <1>0, Went
  <2> QED
    BY <2>1, <2>2 DEF Due
<1>10. CASE Broadcast(c)
  <2>1. /\ Go(c, "parting", "broadcasting",
              [job[c] EXCEPT !.tell = members[job[c].room]])
        /\ members' = members
    BY <1>10 DEF Broadcast, membership
  <2>2. /\ at[c] = "parting" /\ at'[c] = "broadcasting"
        /\ job'[c] = [job[c] EXCEPT !.tell = members[job[c].room]]
    BY <2>1, <1>0, Went
  <2>3. job'[c].room = job[c].room
    BY <2>2, <1>0 DEF Jobs
  <2> QED
    BY <2>1, <2>2, <2>3 DEF Due
<1>11. CASE TellLeft(c)
  <2>1. PICK q : Go(c, "broadcasting", "broadcasting",
                    [job[c] EXCEPT !.tell = @ \ {q}])
    BY <1>11 DEF TellLeft
  <2>2. /\ at[c] = "broadcasting" /\ at'[c] = "broadcasting"
        /\ job'[c] = [job[c] EXCEPT !.tell = @ \ {q}]
    BY <2>1, <1>0, Went
  <2>3. job'[c].room = job[c].room
    BY <2>2, <1>0 DEF Jobs
  <2>4. members' = members
    BY <1>11 DEF TellLeft, membership
  <2> QED
    BY <2>2, <2>3, <2>4 DEF Due
<1>12. CASE AllTold(c)
  <2>1. /\ Go(c, "broadcasting", "notifying",
              [Rest EXCEPT !.rooms = {job[c].room}])
        /\ members' = members
    BY <1>12 DEF AllTold, membership
  <2>2. /\ at[c] = "broadcasting" /\ at'[c] = "notifying"
        /\ job'[c] = [Rest EXCEPT !.rooms = {job[c].room}]
    BY <2>1, <1>0, Went
  <2>3. job'[c].rooms = {job[c].room}
    BY <2>2 DEF Rest
  <2> QED
    BY <2>1, <2>2, <2>3 DEF Due
<1>13. CASE Notified(c)
  <2>1. job[c].tell = {} /\ job[c].rooms = {} /\ at[c] = "notifying"
    BY <1>13 DEF Notified, Go
  <2> QED
    BY <2>1 DEF Due
<1> QED
  <2>1. ~Asked(c)
    BY <1>1 DEF Asked, Enter, EnterFails, HelloAgain, Refused, Relay,
                TransferBegin, TransferEnd, Ask, Go
  <2>2. ~\/ Reply(c) \/ BeginRefused(c) \/ SenderReady(c) \/ TellOther(c)
         \/ \E x \in Transfers : Begin(c, x)
    BY <1>1 DEF Reply, BeginRefused, SenderReady, TellOther, Begin, Go
  <2>3. ~\/ ReadFails(c) \/ Collect(c) \/ AbortOne(c) \/ Aborted(c) \/ Leave(c)
         \/ Gone(c)
    BY <1>1 DEF ReadFails, Collect, AbortOne, Aborted, Leave, Gone, Go
  <2> QED
    BY <2>1, <2>2, <2>3, <1>3, <1>4, <1>5, <1>6, <1>7, <1>8, <1>9, <1>10,
       <1>11, <1>12, <1>13 DEF Step, Handling, Cleanup

(* Whoever is not told of a change after a step can reach whom it could    *)
(* reach before it.                                                        *)
LEMMA ReachStays ==
  ASSUME IInv, NEW c \in Conns, Step(c), NEW p \in Conns, p \notin closed,
         ~Due(c, p)'
  PROVE  /\ roomsOf'[p] = roomsOf[p]
         /\ \A r \in roomsOf[p] : members'[r] = members[r]
<1>0. /\ TypeOK /\ Handed(c) /\ Placed(c) /\ Placed(p)
      /\ members \in [Rooms -> SUBSET Conns]
      /\ roomsOf \in [Conns -> SUBSET Rooms]
      /\ roomsOf[p] \in SUBSET Rooms
  BY Parts DEF TypeOK
<1>1. CASE \E r \in Rooms : Enter(c, r)
  <2>1. PICK r \in Rooms : Enter(c, r)
    BY <1>1
  <2>2. /\ Go(c, "idle", "recording", [Rest EXCEPT !.room = r])
        /\ members' = [members EXCEPT ![r] = @ \cup {c}]
        /\ roomsOf' = roomsOf
    BY <2>1 DEF Enter, Ask
  <2>3. at'[c] = "recording" /\ job'[c] = [Rest EXCEPT !.room = r]
    BY <2>2, <1>0, Went
  <2>4. job'[c].room = r
    BY <2>3 DEF Rest
  <2>5. p \notin members'[r]
    BY <2>3, <2>4 DEF Due
  <2>6. r \notin roomsOf[p]
    BY <2>2, <2>5, <1>0 DEF Placed
  <2> QED
    BY <2>2, <2>6, <1>0
<1>2. CASE JoinedRoom(c)
  <2>1. /\ Go(c, "recording", "joined", job[c]) /\ members' = members
        /\ roomsOf' = [roomsOf EXCEPT ![c] = @ \cup {job[c].room}]
    BY <1>2 DEF JoinedRoom
  <2>2. at[c] = "recording" /\ at'[c] = "joined" /\ job'[c] = job[c]
    BY <2>1, <1>0, Went
  <2>3. p # c
    BY <2>1, <2>2, <1>0 DEF Due, Placed
  <2> QED
    BY <2>1, <2>3, <1>0
<1>3. CASE Leave(c)
  <2> DEFINE r == First(joined[c])
             n == IF members[r] = {c} THEN 0 ELSE 1
  <2>1. /\ Go(c, "leaving", "left", [Rest EXCEPT !.room = r, !.owes = n])
        /\ members' = [members EXCEPT ![r] = @ \ {c}] /\ roomsOf' = roomsOf
    BY <1>3 DEF Leave
  <2>2. r \in Rooms /\ (n = 0 => members[r] = {c})
    BY DEF First, Rooms
  <2> HIDE DEF r, n
  <2>3. /\ at[c] = "leaving" /\ at'[c] = "left"
        /\ job'[c] = [Rest EXCEPT !.room = r, !.owes = n]
    BY <2>1, <1>0, Went
  <2>4. job'[c].room = r /\ job'[c].owes = n
    BY <2>3 DEF Rest
  <2>5. c \in closed /\ p # c
    BY <2>3, Left DEF Parted
  <2>6. n = 0 \/ p \notin members'[r]
    BY <2>3, <2>4 DEF Due
  <2>7. p \notin members[r]
    BY <2>1, <2>2, <2>5, <2>6, <1>0
  <2>8. r \notin roomsOf[p]
    BY <2>7, <1>0 DEF Placed
  <2> QED
    BY <2>1, <2>8, <1>0
<1>4. CASE LeftRoom(c)
  <2>1. /\ roomsOf' = [roomsOf EXCEPT ![c] = @ \ {job[c].room}]
        /\ members' = members /\ at[c] = "left"
    BY <1>4 DEF LeftRoom, Go
  <2>2. p # c
    BY <2>1, Left DEF Parted
  <2> QED
    BY <2>1, <2>2, <1>0
<1>5. CASE UNCHANGED membership \/ Joined(c)
  BY <1>5 DEF membership, Joined
<1> QED
  BY <1>1, <1>2, <1>3, <1>4, <1>5, RoomSteps

LEMMA SameReach ==
  ASSUME IInv, NEW p \in Conns, roomsOf'[p] = roomsOf[p],
         \A r \in roomsOf[p] : members'[r] = members[r]
  PROVE  Reachable(p)' = Reachable(p)
<1>1. \A q : q \in Reachable(p)' <=>
               q # p /\ \E r \in roomsOf'[p] : q \in members'[r]
  BY DEF Reachable
<1>2. \A q : q \in Reachable(p)' <=> q \in Reachable(p)
  BY <1>1, Reached
<1> QED
  BY <1>2

(* What was read for a peer stays accurate as long as it can reach the     *)
(* same.                                                                   *)
LEMMA StaysAccurate ==
  ASSUME IInv, NEW e \in Conns, NEW p \in Conns, p \notin closed,
         Listing(e, p), Accurate(e, p), job'[e] = job[e],
         roomsOf'[p] = roomsOf[p],
         \A r \in roomsOf[p] : members'[r] = members[r]
  PROVE  Accurate(e, p)'
<1>1. job[e].unread \subseteq roomsOf[p]
  BY DEF IInv, Reading
<1>2. Reachable(p)' = Reachable(p)
  BY SameReach
<1> QED
  BY <1>1, <1>2 DEF Accurate

(* A handler that begins to read for a peer reads what it can reach, and   *)
(* goes on to.                                                             *)
LEMMA AccurateFirst ==
  ASSUME IInv, NEW c \in Conns, HelloAgain(c) \/ NextMember(c),
         NEW p \in Conns, Listing(c, p)'
  PROVE  Accurate(c, p)'
<1>1. /\ UNCHANGED <<members, roomsOf>> /\ job'[c].seen = {}
      /\ job'[c].unread = roomsOf[p]
  BY BeginsListing DEF membership, Listing
<1>2. Reachable(p)' = Reachable(p)
  BY <1>1 DEF Reachable
<1> QED
  BY <1>1, <1>2, Reached DEF Accurate

LEMMA AccurateNext ==
  ASSUME IInv, NEW c \in Conns, ListRoom(c), NEW p \in Conns,
         Listing(c, p), Accurate(c, p)
  PROVE  Listing(c, p)' /\ Accurate(c, p)'
<1>1. PICK r \in job[c].unread :
        /\ job'[c].unread = job[c].unread \ {r}
        /\ job'[c].seen = job[c].seen \cup (members[r] \ {job[c].peer})
  BY GoesOnListing
<1>2. /\ UNCHANGED <<members, roomsOf>> /\ at'[c] = "listing"
      /\ job'[c].peer = job[c].peer /\ job[c].peer = p
  BY GoesOnListing DEF membership, Listing
<1>3. Reachable(p)' = Reachable(p)
  BY <1>2 DEF Reachable
<1> QED
  BY <1>1, <1>2, <1>3 DEF Accurate, Listing

(* A roster that was sent, by the only handler that was reading for the    *)
(* peer, is what the peer can reach.                                       *)
LEMMA AccurateLast ==
  ASSUME IInv, NEW c \in Conns, SendRoster(c), NEW p \in Conns,
         Listing(c, p), Accurate(c, p), p \notin closed', p \notin raced'
  PROVE  /\ \A e \in Conns : ~Listing(e, p)'
         /\ shown'[p] = Reachable(p)'
<1>0. /\ TypeOK /\ job[c] \in Jobs /\ at[c] = "listing" /\ job[c].peer = p
      /\ roomsOf \in [Conns -> SUBSET Rooms]
      /\ members \in [Rooms -> SUBSET Conns]
  BY Parts DEF Listing, TypeOK
<1>1. /\ Go(c, "listing", "notifying",
            [job[c] EXCEPT !.peer = None, !.seen = {}])
      /\ Put(p, job[c].seen) /\ job[c].unread = {}
      /\ raced' = IF Alone(c, p) THEN raced ELSE raced \cup {p}
      /\ UNCHANGED membership
  BY <1>0 DEF SendRoster
<1>2. \A d \in Conns \ {c} : ~Listing(d, p)
  BY <1>1 DEF Alone
<1>3. \A e \in Conns : ~Listing(e, p)'
  <2>1. at'[c] = "notifying"
    BY <1>0, <1>1, Went
  <2>2. \A d \in Conns \ {c} : at'[d] = at[d] /\ job'[d] = job[d]
    BY <1>0, <1>1, Turns DEF Handling, Turned
  <2> QED
    BY <2>1, <2>2, <1>2 DEF Listing
<1>4. job[c].seen \in SUBSET Conns
  BY <1>0, Fields
<1>5. shown'[p] = job[c].seen
  BY <1>0, <1>1, <1>4, Putting
<1>6. Reachable(p) \in SUBSET Conns
  BY <1>0, Reached
<1>7. job[c].seen = Reachable(p)
  BY <1>1, <1>4, <1>6 DEF Accurate
<1>8. Reachable(p)' = Reachable(p)
  BY <1>1 DEF Reachable, membership
<1> QED
  BY <1>3, <1>5, <1>7, <1>8

(* The roster that is shown is another one only after somebody read for    *)
(* the peer.                                                               *)
LEMMA ShownStays ==
  ASSUME IInv, NEW c \in Conns, Step(c), NEW p \in Conns, Up(p)',
         ~Listing(c, p)
  PROVE  shown'[p] = shown[p]
<1>0. TypeOK /\ Handed(c) /\ job[c] \in Jobs
  BY Parts
<1>1. CASE SendRoster(c)
  <2>1. /\ at[c] = "listing" /\ Put(job[c].peer, job[c].seen)
    BY <1>1 DEF SendRoster, Go
  <2>2. job[c].peer # p /\ job[c].peer \in Conns
    BY <2>1, <1>0 DEF Listing, Handed, Fits
  <2>3. job[c].seen \in SUBSET Conns
    BY <1>0, Fields
  <2> QED
    BY <2>1, <2>2, <2>3, <1>0, Putting
<1>2. CASE Gone(c)
  <2>1. /\ shown' = [shown EXCEPT ![c] = {}] /\ writing' = writing \ {c}
    BY <1>2 DEF Gone
  <2>2. p # c
    BY <2>1 DEF Up
  <2> QED
    BY <2>1, <2>2, <1>0 DEF TypeOK
<1> QED
  BY <1>1, <1>2, SocketSteps

(* The peers that are not raced after a step were not before it, or are    *)
(* being read for.                                                         *)
LEMMA RacedStays ==
  ASSUME IInv, NEW c \in Conns, Step(c), NEW p \in Conns, p \notin raced'
  PROVE  \/ p \notin raced
         \/ (HelloAgain(c) \/ NextMember(c)) /\ Listing(c, p)'
<1>0. TypeOK /\ job[c] \in Jobs
  BY Parts
<1>1. CASE SendRoster(c)
  BY <1>1 DEF SendRoster
<1>2. CASE HelloAgain(c)
  <2>1. /\ Go(c, "idle", "listing",
              [Rest EXCEPT !.peer = c, !.unread = roomsOf[c]])
        /\ BeginsWith(c, c)
    BY <1>2 DEF HelloAgain, Ask
  <2>2. /\ at'[c] = "listing"
        /\ job'[c] = [Rest EXCEPT !.peer = c, !.unread = roomsOf[c]]
    BY <2>1, <1>0, Went
  <2>3. Listing(c, c)'
    BY <2>2 DEF Listing, Rest
  <2>4. raced' = raced \/ raced' = raced \ {c}
    BY <2>1 DEF BeginsWith
  <2> QED
    BY <1>2, <2>3, <2>4
<1>3. CASE NextMember(c)
  <2>1. PICK q \in job[c].tell :
          /\ Go(c, "notifying", "listing",
                [job[c] EXCEPT !.tell = @ \ {q}, !.peer = q,
                               !.unread = roomsOf[q]])
          /\ BeginsWith(c, q)
    BY <1>3 DEF NextMember
  <2>2. /\ at'[c] = "listing"
        /\ job'[c] = [job[c] EXCEPT !.tell = @ \ {q}, !.peer = q,
                                    !.unread = roomsOf[q]]
    BY <2>1, <1>0, Went
  <2>3. job'[c].peer = q
    BY <2>2, <1>0 DEF Jobs
  <2>4. Listing(c, q)'
    BY <2>2, <2>3 DEF Listing
  <2>5. raced' = raced \/ raced' = raced \ {q}
    BY <2>1 DEF BeginsWith
  <2> QED
    BY <1>3, <2>4, <2>5
<1> QED
  BY <1>1, <1>2, <1>3, HistorySteps

LEMMA CurrentStep ==
  ASSUME IInv, NEW c \in Conns, Step(c), NEW p \in Conns
  PROVE  Current(p)'
<1> SUFFICES ASSUME Up(p)', p \notin raced', \A e \in Conns : ~Due(e, p)'
             PROVE  \/ \E e \in Conns : Listing(e, p)' /\ Accurate(e, p)'
                    \/ /\ \A e \in Conns : ~Listing(e, p)'
                       /\ shown'[p] = Reachable(p)'
  BY DEF Current
<1>0. TypeOK /\ Current(p) /\ Turned(c) /\ Plugged
  BY Parts, Turns, SocketSteps DEF Step
<1>1. Up(p) /\ p \notin closed /\ p \notin closed'
  BY <1>0 DEF Up, Plugged
<1>3. \A e \in Conns \ {c} : at'[e] = at[e] /\ job'[e] = job[e]
  BY <1>0 DEF Turned
<1>4. \A e \in Conns \ {c} : ~Due(e, p)
  <2>1. \A r \in Rooms : p \in members[r] => p \in members'[r]
    BY <1>1, Others
  <2>2. SUFFICES ASSUME NEW e \in Conns \ {c}, Due(e, p)
                 PROVE  Due(e, p)'
    OBVIOUS
  <2>3. /\ at[e] \in {"recording", "joined", "left", "parting",
                      "broadcasting"} => job[e].room \in Rooms
        /\ job[e].rooms \in SUBSET Rooms
    BY Parts, Fields DEF Handed, Fits
  <2> QED
    BY <2>1, <2>2, <2>3, <1>3 DEF Due
<1>5. CASE (HelloAgain(c) \/ NextMember(c)) /\ Listing(c, p)'
  BY <1>5, AccurateFirst
<1>6. CASE ~((HelloAgain(c) \/ NextMember(c)) /\ Listing(c, p)')
  <2>0. p \notin raced
    BY <1>6, RacedStays
  <2>1. ~Due(c, p)
    BY <1>1, <1>6, DueGoesOn
  <2>2. /\ roomsOf'[p] = roomsOf[p]
        /\ \A r \in roomsOf[p] : members'[r] = members[r]
    BY <1>1, ReachStays
  <2>3. CASE \E e \in Conns : Listing(e, p) /\ Accurate(e, p)
    <3>1. PICK e \in Conns : Listing(e, p) /\ Accurate(e, p)
      BY <2>3
    <3>2. CASE e # c
      <4>1. Listing(e, p)' /\ job'[e] = job[e]
        BY <1>3, <3>1, <3>2 DEF Listing
      <4> QED
        BY <4>1, <3>1, <2>2, <1>1, StaysAccurate
    <3>3. CASE e = c
      <4>1. CASE ListRoom(c)
        BY <3>1, <3>3, <4>1, AccurateNext
      <4>2. CASE SendRoster(c)
        BY <3>1, <3>3, <4>2, <1>1, AccurateLast
      <4>3. at[c] = "listing"
        BY <3>1, <3>3 DEF Listing
      <4> QED
        <5>1. ~Asked(c)
          BY <4>3 DEF Asked, Enter, EnterFails, HelloAgain, Refused, Relay,
                      TransferBegin, TransferEnd, Ask, Go
        <5>2. ~Cleanup(c)
          BY <4>3 DEF Cleanup, ReadFails, Collect, AbortOne, Aborted, Leave,
                      LeftRoom, Broadcast, TellLeft, AllTold, Gone, Go
        <5>3. Handling(c) => ListRoom(c) \/ SendRoster(c)
          BY <4>3 DEF Handling, JoinedRoom, Joined, NextRoom, NextMember,
                      Notified, Reply, BeginRefused, Begin, SenderReady,
                      TellOther, Go
        <5> QED
          BY <5>1, <5>2, <5>3, <4>1, <4>2 DEF Step
    <3> QED
      BY <3>2, <3>3
  <2>4. CASE (\A e \in Conns : ~Listing(e, p)) /\ shown[p] = Reachable(p)
    <3>1. \A e \in Conns : ~Listing(e, p)'
      <4>1. \A e \in Conns \ {c} : ~Listing(e, p)'
        BY <1>3, <2>4 DEF Listing
      <4>2. ~Listing(c, p)'
        <5>1. ListRoom(c) => (Listing(c, p)' => Listing(c, p))
          BY GoesOnListing DEF Listing
        <5> QED
          BY <5>1, <1>0, <1>6, <2>4, Entered DEF Listing
      <4> QED
        BY <4>1, <4>2
    <3>2. shown'[p] = shown[p]
      BY <2>4, ShownStays
    <3>3. Reachable(p)' = Reachable(p)
      BY <2>2, SameReach
    <3> QED
      BY <3>1, <3>2, <3>3, <2>4
  <2> QED
    BY <2>0, <2>1, <2>3, <2>4, <1>0, <1>1, <1>4 DEF Current
<1> QED
  BY <1>5, <1>6

(* Sockets, the data plane and time change nothing that a roster shows.    *)
LEMMA CurrentOtherwise ==
  ASSUME IInv, \/ \E c \in Conns : Socket(c)
               \/ \E x \in Transfers : DataEnds(x) \/ Reap(x)
               \/ UNCHANGED vars,
         NEW p \in Conns
  PROVE  Current(p)'
<1>1. /\ UNCHANGED <<members, roomsOf, at, job, raced, shown, closed>>
      /\ open' \subseteq open /\ writing' \subseteq writing
  BY DEF Socket, Hangup, PingFails, WriterSeesClosed, DataEnds, Reap, vars,
         sockets, membership
<1>2. Up(p)' => Up(p)
  BY <1>1 DEF Up
<1>3. /\ \A e \in Conns : /\ Due(e, p)' <=> Due(e, p)
                          /\ Listing(e, p)' <=> Listing(e, p)
                          /\ Accurate(e, p)' <=> Accurate(e, p)
      /\ Reachable(p)' = Reachable(p)
  BY <1>1 DEF Due, Listing, Accurate, Reachable
<1>4. Current(p)
  BY Parts
<1> QED
  BY <1>1, <1>2, <1>3, <1>4 DEF Current
-----------------------------------------------------------------------------
LEMMA StepInv ==
  ASSUME IInv, [Next]_vars
  PROVE  IInv'
<1>1. TypeOK' /\ \A c \in Conns : Handed(c)'
  BY Typed
<1>2. \A c \in Conns : Ending(c)' /\ Failing(c)' /\ Placed(c)'
  BY EndingStep, FailingStep, PlacedStep
<1>3. \A c \in Conns : \A p \in Conns : Reading(c, p)'
  BY ReadingStep
<1>4. \A p \in Conns : Current(p)'
  BY Steps, CurrentStep, CurrentOtherwise
<1>5. AbortedWithPeer'
  BY AbortedStep
<1> QED
  BY <1>1, <1>2, <1>3, <1>4, <1>5 DEF IInv

LEMMA Invariant == Spec => []IInv
<1>1. Init => IInv
  BY InitInv
<1>2. IInv /\ [Next]_vars => IInv'
  BY StepInv
<1> QED
  BY <1>1, <1>2, PTL DEF Spec

(* The variables keep their types: in particular, a handler never sends to *)
(* a peer or enters a room that it has not got (conn.go:129-380).          *)
THEOREM TypeCorrect == Spec => []TypeOK
<1>1. IInv => TypeOK
  BY DEF IInv
<1> QED
  BY <1>1, Invariant, PTL

(* A peer that is gone has no transfer that it sends, and receives none    *)
(* but those begun while its cleanup was under way (rendezvous.go:180-208, *)
(* conn.go:229-236).                                                       *)
THEOREM TransfersEndWithPeers == Spec => []AbortedWithPeer
<1>1. IInv => AbortedWithPeer
  BY DEF IInv
<1> QED
  BY <1>1, Invariant, PTL

(* When nobody is being announced, every peer that can be written to was   *)
(* last told of exactly those whom it can reach, unless two handlers were  *)
(* at its roster at once and none alone since (room.go:225-268).           *)
THEOREM RostersAreCurrent == Spec => []RosterCurrent
<1>1. IInv => RosterCurrent
  <2> SUFFICES ASSUME IInv, \A e \in Conns : ~Announcing(e),
                      NEW c \in Conns, Up(c), c \notin raced
               PROVE  shown[c] = Reachable(c)
    BY DEF RosterCurrent
  <2>1. \A e \in Conns : ~Due(e, c) /\ ~Listing(e, c)
    BY DEF Announcing, Due, Listing
  <2> QED
    BY <2>1, Parts DEF Current
<1> QED
  BY <1>1, Invariant, PTL
=============================================================================
