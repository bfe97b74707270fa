-------------------------- MODULE WebSessionProofs --------------------------
(***************************************************************************)
(* Proofs about WebSession, for any number of items and frames and any     *)
(* bounds: what a download is given, what a decline is worth, and which    *)
(* item a relayed transfer is received for.                                *)
(*                                                                         *)
(* A download is given the right frames because the channel keeps its      *)
(* order, so the invariant says what that order is (Linked), where the     *)
(* receiver is in it (Downloads) and where the sender is (Streaming).      *)
(***************************************************************************)
EXTENDS WebSession, SequenceTheorems, WellFoundedInduction, TLAPS

(* The states of a send that has the peer.                                 *)
Engaged == {"opening", "beginning", "streaming", "relaying", "uploading"}

(* One item is sent at a time, and once.                                   *)
Dispatch ==
  /\ \A i \in Items : outgoing[i] \in {"new", "offered"} => sendAt[i] = "idle"
  /\ \A i \in Items : sendAt[i] \in Engaged =>
       busy /\ \A j \in Items : sendAt[j] \in Engaged => j = i

InQueue(i) == \E k \in 1..Len(queued) : queued[k] = i

(* Nothing came of an approval, as there was none.                         *)
Unasked(i) ==
  /\ requests[i] = 0 /\ ~InQueue(i) /\ sendAt[i] = "idle"
  /\ \A t \in Items : pairedWith[t] # i

(* An item is offered once, and asked for only after it was approved.      *)
Asking ==
  \A i \in Items :
    /\ outgoing[i] = "new" => incoming[i] = "unknown" /\ i \notin offers
    /\ i \in offers => incoming[i] = "unknown"
    /\ incoming[i] = "unknown" => approving[i] = 0
    /\ incoming[i] \in {"unknown", "pending"} \/ i \in refused => Unasked(i)
    /\ i \in refused => incoming[i] = "declined" /\ approving[i] = 0
    /\ approving[i] + requests[i] <= MaxClicks

(* An item that the channel has not seen.                                  *)
Unseen(i) ==
  /\ \A q \in 1..Len(chan) : chan[q].item # i
  /\ preparing # i /\ active # i /\ sink[i] = "none" /\ i \notin readies

Relayed(i) == i \in begins \cup receiverReady \/ readyAt[i] # "idle"

(* An item goes one way.                                                   *)
Ways ==
  \A i \in Items :
    /\ sendAt[i] \in {"idle", "opening", "relaying", "uploading"} => Unseen(i)
    /\ Relayed(i) =>
         Unseen(i) /\ sendAt[i] \in {"relaying", "uploading", "over"}
    /\ i \in begins => i \notin receiverReady
    /\ i \in begins \cup receiverReady => readyAt[i] = "idle"
    /\ readyAt[i] # "idle" => pairedWith[i] # None

(* The item that the receiver is in the middle of, before message q.       *)
Before(q) ==
  IF q = 1 THEN IF preparing # None THEN preparing ELSE active
  ELSE IF chan[q - 1].t \in {"begin", "data"} THEN chan[q - 1].item
  ELSE None

(* The channel has the messages of one item after those of another, and a  *)
(* frame or an end only right after the frame before it.                   *)
Follows(q) ==
  /\ chan[q].t = "begin" =>
       /\ Before(q) = None /\ sink[chan[q].item] = "none"
       /\ preparing # chan[q].item
       /\ \A p \in 1..Len(chan) :
            chan[p].t = "begin" /\ chan[p].item = chan[q].item => p = q
  /\ chan[q].t # "begin" => Before(q) \in {chan[q].item, None}
  /\ chan[q].t = "data" => chan[q].n >= 1
  /\ chan[q].t = "end" => chan[q].n = 0
  /\ chan[q].t \in {"data", "end"} =>
       IF q = 1
       THEN /\ preparing = None
            /\ active = chan[q].item =>
                 Len(written[active]) = Frames - chan[q].n
       ELSE /\ chan[q - 1].t = "data" /\ chan[q - 1].item = chan[q].item
            /\ chan[q - 1].n = chan[q].n + 1

Linked == \A q \in 1..Len(chan) : Follows(q)

(* The receiver has one download at a time.                                *)
Downloads ==
  /\ preparing # None => active = None /\ sink[preparing] = "none"
  /\ active # None => sink[active] = "open"
  /\ \A i \in Items : sink[i] = "none" => written[i] = <<>> /\ i \notin readies
  /\ OwnFrames

(* Both pages have the channel.                                            *)
Joined == ~sDropped /\ ~rDropped

(* What the sender sends next fits what is on the channel.                 *)
Streaming ==
  /\ \A i \in Items :
       /\ sendAt[i] \in {"idle", "opening", "beginning"} => left[i] = Frames
       /\ sendAt[i] = "beginning" =>
            /\ written[i] = <<>>
            /\ \A q \in 1..Len(chan) : chan[q].item = i => chan[q].t = "begin"
  /\ Joined =>
       /\ Before(Len(chan) + 1) # None =>
            sendAt[Before(Len(chan) + 1)] \in {"beginning", "streaming"}
       /\ \A i \in Items :
            /\ sendAt[i] = "beginning" /\ chan # <<>> =>
                 chan[Len(chan)].t = "begin" /\ chan[Len(chan)].item = i
            /\ sendAt[i] = "streaming" =>
                 IF chan = <<>>
                 THEN /\ preparing = None
                      /\ active = i => Len(written[i]) = Frames - left[i]
                 ELSE /\ chan[Len(chan)].t = "data"
                      /\ chan[Len(chan)].item = i
                      /\ chan[Len(chan)].n = left[i] + 1

(* The item is going to be sent, and its receiver's page has not heard it. *)
Awaited(i) ==
  \/ outgoing[i] = "offered" /\ (requests[i] > 0 \/ InQueue(i))
  \/ sendAt[i] = "opening" \/ i \in begins \cup receiverReady

(* Such an item is approved, and the only one that is.                     *)
Pairs ==
  ~together =>
    /\ \A i, j \in Items :
         incoming[i] = "approved" /\ incoming[j] = "approved" => i = j
    /\ \A i \in Items : Awaited(i) => incoming[i] = "approved"
    /\ \A t \in Items : pairedWith[t] \in {None, t}

IInv ==
  /\ TypeOK /\ Dispatch /\ Asking /\ Ways /\ Linked /\ Downloads
  /\ Streaming /\ Pairs
-----------------------------------------------------------------------------
(* There is a least number in a set of numbers.                            *)
LEMMA Least ==
  ASSUME NEW n \in Nat, NEW W \in SUBSET (0..n), W # {}
  PROVE  \E m \in W : \A l \in 0..n : l < m => l \notin W
<1>1. W \subseteq Nat
  OBVIOUS
<1>2. PICK m \in W : \A l \in W : ~(<<l, m>> \in OpToRel(<, Nat))
  BY <1>1, NatLessThanWellFounded, WFMin
<1> QED
  BY <1>1, <1>2 DEF OpToRel

(* What Only keeps of a queue, one place after the other.                  *)
Grown(queue, S, f, k) ==
  IF k = 0 THEN <<>>
  ELSE IF queue[k] \in S THEN Append(f[k - 1], queue[k])
  ELSE f[k - 1]

(* The function that Only picks exists.                                    *)
LEMMA UptoExists ==
  ASSUME NEW T, NEW queue \in Seq(T), NEW S
  PROVE  \E f : f = [k \in 0..Len(queue) |-> Grown(queue, S, f, k)]
<1> DEFINE n == Len(queue)
           Upto(f, m) == f = [k \in 0..m |-> Grown(queue, S, f, k)]
           Unfounded == {m \in 0..n : ~\E f : Upto(f, m)}
<1>1. n \in Nat
  OBVIOUS
<1> SUFFICES ASSUME Unfounded # {} PROVE FALSE
  BY <1>1
<1>2. PICK m \in Unfounded : \A l \in 0..n : l < m => l \notin Unfounded
  <2> HIDE DEF Unfounded
  <2>1. Unfounded \subseteq 0..n
    BY DEF Unfounded
  <2> QED
    BY <1>1, <2>1, Least
<1>3. m \in 0..n /\ \A l \in 0..n : l < m => \E f : Upto(f, l)
  BY <1>2
<1>4. CASE m = 0
  <2>1. Upto([k \in 0..0 |-> <<>>], 0)
    BY DEF Grown
  <2> QED
    BY <1>2, <1>4, <2>1
<1>5. CASE m # 0
  <2>1. PICK f : Upto(f, m - 1)
    BY <1>1, <1>3, <1>5
  <2> DEFINE g == [k \in 0..m |-> IF k = m THEN Grown(queue, S, f, m)
                                 ELSE f[k]]
  <2>2. ASSUME NEW k \in 0..m PROVE g[k] = Grown(queue, S, g, k)
    <3>1. k # 0 => k - 1 \in 0..m - 1 /\ g[k - 1] = f[k - 1]
      BY <1>3
    <3>2. Grown(queue, S, g, k) = Grown(queue, S, f, k)
      BY <3>1 DEF Grown
    <3>3. k # m => g[k] = f[k] /\ f[k] = Grown(queue, S, f, k)
      BY <1>3, <2>1
    <3> QED
      BY <3>2, <3>3
  <2>3. Upto(g, m)
    BY <2>2
  <2> QED
    BY <1>2, <2>3
<1> QED
  BY <1>4, <1>5

(* A queue keeps of its items those of the set, and gets no others.        *)
LEMMA Selected ==
  ASSUME NEW T, NEW queue \in Seq(T), NEW S
  PROVE  Only(queue, S) \in
           Seq({i \in S : \E k \in 1..Len(queue) : queue[k] = i})
<1> DEFINE n == Len(queue)
           Kept == {i \in S : \E k \in 1..n : queue[k] = i}
<1>1. PICK f : /\ f = [k \in 0..n |-> Grown(queue, S, f, k)]
               /\ Only(queue, S) = f[n]
  <2>1. \E f : f = [k \in 0..n |-> Grown(queue, S, f, k)]
    BY UptoExists
  <2> QED
    BY <2>1 DEF Only, Grown
<1>2. n \in Nat /\ \A k \in 0..n : f[k] = Grown(queue, S, f, k)
  BY <1>1
<1> DEFINE Wrong == {m \in 0..n : f[m] \notin Seq(Kept)}
<1>3. ASSUME Wrong # {} PROVE FALSE
  <2>1. PICK m \in Wrong : \A l \in 0..n : l < m => l \notin Wrong
    <3> HIDE DEF Wrong
    <3>1. Wrong \subseteq 0..n
      BY DEF Wrong
    <3> QED
      BY <1>2, <1>3, <3>1, Least
  <2>2. m \in 0..n /\ f[m] \notin Seq(Kept)
    BY <2>1
  <2>3. \A l \in 0..n : l < m => f[l] \in Seq(Kept)
    BY <2>1
  <2>4. \A i \in Kept : \A e \in Seq(Kept) : Append(e, i) \in Seq(Kept)
    OBVIOUS
  <2>5. m # 0 => m \in 1..n /\ m - 1 \in 0..n /\ m - 1 < m
    BY <1>2, <2>2
  <2>6. m # 0 => f[m - 1] \in Seq(Kept) /\ (queue[m] \in S => queue[m] \in Kept)
    BY <2>3, <2>5
  <2>7. <<>> \in Seq(Kept)
    OBVIOUS
  <2> HIDE DEF Kept, Wrong
  <2> QED
    BY <1>2, <2>2, <2>4, <2>6, <2>7 DEF Grown
<1>4. f[n] \in Seq(Kept)
  <2> HIDE DEF Kept
  <2>1. n \in 0..n /\ n \notin Wrong
    BY <1>2, <1>3
  <2> QED
    BY <2>1
<1> QED
  BY <1>1, <1>4
-----------------------------------------------------------------------------
(* What pumping the queue comes to: the next offered item begins, or the   *)
(* peer goes on as it is.                                                  *)
Pumped(queue, isBusy, states, places) ==
  \/ busy' = isBusy /\ outgoing' = states /\ sendAt' = places
  \/ \E next \in Items :
       /\ states[next] = "offered"
       /\ \E k \in 1..Len(queue) : queue[k] = next
       /\ ~isBusy /\ busy' = TRUE
       /\ outgoing' = [states EXCEPT ![next] = "sending"]
       /\ sendAt' = [places EXCEPT ![next] = "opening"]

LEMMA PumpMoves ==
  ASSUME NEW queue \in Seq(Items), NEW isBusy \in BOOLEAN, NEW states,
         NEW places, Pump(queue, isBusy, states, places)
  PROVE  /\ queued' \in Seq(Items)
         /\ \A i \in Items : InQueue(i)' =>
              states[i] = "offered" /\ \E k \in 1..Len(queue) : queue[k] = i
         /\ Pumped(queue, isBusy, states, places)
<1> DEFINE offered == {i \in Items : states[i] = "offered"}
           waiting == Only(queue, offered)
           Kept == {i \in offered : \E k \in 1..Len(queue) : queue[k] = i}
<1>1. waiting \in Seq(Kept)
  BY Selected
<1>2. \A i \in Kept : /\ i \in Items /\ states[i] = "offered"
                      /\ \E k \in 1..Len(queue) : queue[k] = i
  OBVIOUS
<1>3. \/ /\ queued' = waiting /\ busy' = isBusy
         /\ outgoing' = states /\ sendAt' = places
      \/ /\ waiting # <<>> /\ ~isBusy /\ busy' = TRUE
         /\ queued' = Only(waiting, Items \ {Head(waiting)})
         /\ outgoing' = [states EXCEPT ![Head(waiting)] = "sending"]
         /\ sendAt' = [places EXCEPT ![Head(waiting)] = "opening"]
  BY DEF Pump
<1> HIDE DEF waiting, Kept
<1>4. queued' \in Seq(Kept)
  <2>1. CASE queued' = waiting
    BY <1>1, <2>1
  <2>2. CASE waiting # <<>> /\ queued' = Only(waiting, Items \ {Head(waiting)})
    <3> DEFINE left2 == {i \in Items \ {Head(waiting)} :
                          \E k \in 1..Len(waiting) : waiting[k] = i}
    <3>1. queued' \in Seq(left2)
      BY <1>1, <2>2, Selected
    <3>2. left2 \subseteq Kept
      BY <1>1
    <3> QED
      BY <3>1, <3>2, SeqMonotonic
  <2> QED
    BY <1>3, <2>1, <2>2
<1>5. \A k \in 1..Len(queued') : queued'[k] \in Kept
  BY <1>4
<1>6. waiting # <<>> => Head(waiting) \in Kept
  BY <1>1, HeadTailProperties
<1> QED
  <2>1. queued' \in Seq(Items)
    BY <1>2, <1>4, SeqMonotonic
  <2>2. \A i \in Items : InQueue(i)' =>
          states[i] = "offered" /\ \E k \in 1..Len(queue) : queue[k] = i
    BY <1>2, <1>5 DEF InQueue
  <2> QED
    BY <1>2, <1>3, <1>6, <2>1, <2>2 DEF Pumped
-----------------------------------------------------------------------------
Outgoings == {"new", "offered", "sending", "done", "failed", "declined"}

Incomings == {"unknown", "pending", "approved", "receiving", "done", "failed",
              "declined"}

Places == {"idle", "opening", "beginning", "streaming", "relaying",
           "uploading", "over"}

Messages ==
  [t : {"begin", "data", "end", "abort"}, item : Items, n : 0..Frames]

SenderTypes ==
  /\ outgoing \in [Items -> Outgoings] /\ queued \in Seq(Items)
  /\ busy \in BOOLEAN /\ sendAt \in [Items -> Places]
  /\ left \in [Items -> 0..Frames]

(* What is on the channel, with data messages within the limit only.       *)
OnChannel ==
  /\ chan \in Seq(Messages)
  /\ \A k \in 1..Len(chan) : chan[k].t = "data" => k <= MaxWire

(* Pumping the queue, the end of a send and a message keep the types.      *)
LEMMA PumpTypes ==
  ASSUME NEW queue \in Seq(Items), NEW isBusy \in BOOLEAN,
         NEW states \in [Items -> Outgoings], NEW places \in [Items -> Places],
         Pump(queue, isBusy, states, places)
  PROVE  /\ outgoing' \in [Items -> Outgoings] /\ queued' \in Seq(Items)
         /\ busy' \in BOOLEAN /\ sendAt' \in [Items -> Places]
<1>1. queued' \in Seq(Items)
  BY PumpMoves
<1>2. Pumped(queue, isBusy, states, places)
  BY PumpMoves
<1> QED
  BY <1>1, <1>2 DEF Pumped, Outgoings, Places

LEMMA SendEndsTypes ==
  ASSUME SenderTypes, NEW i \in Items, NEW state \in {"done", "failed"},
         SendEnds(i, state)
  PROVE  SenderTypes'
<1>1. left' \in [Items -> 0..Frames]
  BY BoundsAssumption DEF SendEnds, SenderTypes
<1> DEFINE states == [outgoing EXCEPT ![i] = state]
           places == [sendAt EXCEPT ![i] = "over"]
<1>2. states \in [Items -> Outgoings] /\ places \in [Items -> Places]
  BY DEF SenderTypes, Outgoings, Places
<1>3. Pump(queued, FALSE, states, places)
  BY DEF SendEnds
<1> HIDE DEF states, places
<1> QED
  BY <1>1, <1>2, <1>3, PumpTypes DEF SenderTypes

LEMMA MessageTypes ==
  ASSUME TypeOK, NEW i \in Items,
         NEW kind \in {"begin", "data", "end", "abort"},
         kind = "data" => Len(chan) < MaxWire
  PROVE  /\ Message(kind, i) \in Messages
         /\ Put(Message(kind, i)) => OnChannel'
         /\ UNCHANGED chan => OnChannel'
<1>1. /\ Message(kind, i) \in Messages /\ OnChannel /\ Len(chan) \in Nat
      /\ Message(kind, i).t = kind
  BY DEF Message, Messages, TypeOK, OnChannel
<1> DEFINE m == Message(kind, i)
<1> HIDE DEF m
<1>2. /\ Append(chan, m) \in Seq(Messages)
      /\ Len(Append(chan, m)) = Len(chan) + 1
      /\ Append(chan, m)[Len(chan) + 1] = m
      /\ \A k \in 1..Len(chan) : Append(chan, m)[k] = chan[k]
  BY <1>1 DEF m, OnChannel
<1>3. ASSUME chan' = Append(chan, m)
      PROVE  OnChannel'
  <2>1. SUFFICES ASSUME NEW k \in 1..Len(chan) + 1, chan'[k].t = "data"
                 PROVE  k <= MaxWire
    BY <1>2, <1>3 DEF OnChannel
  <2>2. CASE k = Len(chan) + 1
    BY <1>1, <1>2, <1>3, <2>1, <2>2, BoundsAssumption DEF m
  <2>3. CASE k # Len(chan) + 1
    <3>1. k \in 1..Len(chan)
      BY <1>1, <2>3
    <3> QED
      BY <1>1, <1>2, <1>3, <2>1, <3>1 DEF OnChannel
  <2> QED
    BY <2>2, <2>3
<1>4. chan' = chan => OnChannel'
  BY <1>1 DEF OnChannel
<1> QED
  BY <1>1, <1>3, <1>4 DEF Put, m

(* What comes off the channel.                                             *)
LEMMA TakeTypes ==
  ASSUME TypeOK, chan # <<>>
  PROVE  /\ Head(chan) \in Messages /\ Tail(chan) \in Seq(Messages)
         /\ Head(chan) = chan[1] /\ 1 \in 1..Len(chan)
         /\ chan' = Tail(chan) => OnChannel'
<1>1. OnChannel
  BY DEF TypeOK, OnChannel, Messages
<1>2. /\ Head(chan) \in Messages /\ Tail(chan) \in Seq(Messages)
      /\ Head(chan) = chan[1] /\ 1 \in 1..Len(chan)
      /\ Len(chan) \in Nat /\ Len(Tail(chan)) = Len(chan) - 1
      /\ \A k \in 1..Len(chan) - 1 : Tail(chan)[k] = chan[k + 1]
  BY <1>1, HeadTailProperties DEF OnChannel
<1>3. ASSUME chan' = Tail(chan)
      PROVE  OnChannel'
  <2>1. SUFFICES ASSUME NEW k \in 1..Len(chan) - 1, chan'[k].t = "data"
                 PROVE  k <= MaxWire
    BY <1>2, <1>3 DEF OnChannel
  <2>2. k + 1 \in 1..Len(chan) /\ chan[k + 1].t = "data"
    BY <1>2, <1>3, <2>1
  <2> QED
    BY <1>1, <1>2, <2>2, BoundsAssumption DEF OnChannel
<1> QED
  BY <1>2, <1>3

LEMMA PrefixTypes ==
  ASSUME TypeOK, NEW k \in 0..Len(chan), chan' = SubSeq(chan, 1, k)
  PROVE  OnChannel'
<1>1. OnChannel /\ Len(chan) \in Nat
  BY DEF TypeOK, OnChannel, Messages
<1>2. /\ chan' \in Seq(Messages) /\ Len(chan') = k
      /\ \A j \in 1..k : chan'[j] = chan[j]
  BY <1>1, SubSeqProperties DEF OnChannel
<1> QED
  BY <1>1, <1>2 DEF OnChannel
-----------------------------------------------------------------------------
(* The steps of an item's offer and answer keep the types.                 *)
LEMMA ItemTypes ==
  ASSUME IInv, NEW i \in Items, ItemNext(i)
  PROVE  TypeOK'
<1> USE DEF answers, downloads, pairing, envelopes, wire, relay
<1>0. TypeOK /\ Asking
  BY DEF IInv
<1>1. CASE Offer(i)
  <2>1. outgoing' \in [Items -> Outgoings] /\ offers' \subseteq Items
    <3>1. outgoing \in [Items -> Outgoings] /\ offers \subseteq Items
      BY <1>0 DEF TypeOK, Outgoings
    <3> QED
      BY <1>1, <3>1 DEF Offer, Outgoings
  <2> QED
    BY <1>0, <1>1, <2>1 DEF Offer, TypeOK, Outgoings
<1>2. CASE HearOffer(i)
  <2>1. /\ incoming' \in [Items -> Incomings] /\ offers' \subseteq Items
        /\ arrived' \in Seq(Items)
    <3>1. /\ incoming \in [Items -> Incomings] /\ offers \subseteq Items
          /\ arrived \in Seq(Items)
      BY <1>0 DEF TypeOK, Incomings
    <3> QED
      BY <1>2, <3>1 DEF HearOffer, Incomings
  <2> QED
    BY <1>0, <1>2, <2>1 DEF HearOffer, sender, TypeOK, Incomings
<1>3. CASE Approve(i)
  <2>1. approving' \in [Items -> 0..MaxClicks]
    <3>1. approving \in [Items -> 0..MaxClicks] /\ MaxClicks \in Nat
      BY <1>0, BoundsAssumption DEF TypeOK
    <3> QED
      BY <1>3, <3>1 DEF Approve
  <2> QED
    BY <1>0, <1>3, <2>1 DEF Approve, sender, TypeOK
<1>4. CASE Approved(i)
  <2>1. /\ approving' \in [Items -> 0..MaxClicks]
        /\ requests' \in [Items -> 0..MaxClicks]
    <3>1. /\ approving \in [Items -> 0..MaxClicks] /\ MaxClicks \in Nat
          /\ requests \in [Items -> 0..MaxClicks]
          /\ approving[i] + requests[i] <= MaxClicks
      BY <1>0, BoundsAssumption DEF TypeOK, Asking
    <3> QED
      BY <1>4, <3>1 DEF Approved
  <2> QED
    BY <1>0, <1>4, <2>1 DEF Approved, sender, TypeOK
<1>5. CASE ApproveFails(i)
  <2>1. approving' \in [Items -> 0..MaxClicks]
    <3>1. approving \in [Items -> 0..MaxClicks] /\ MaxClicks \in Nat
      BY <1>0, BoundsAssumption DEF TypeOK
    <3> QED
      BY <1>5, <3>1 DEF ApproveFails
  <2> QED
    BY <1>0, <1>5, <2>1 DEF ApproveFails, sender, TypeOK
<1>6. CASE Decline(i)
  BY <1>0, <1>6 DEF Decline, sender, TypeOK
<1>7. CASE HearRequest(i)
  <2>1. requests' \in [Items -> 0..MaxClicks]
    <3>1. requests \in [Items -> 0..MaxClicks] /\ MaxClicks \in Nat
      BY <1>0, BoundsAssumption DEF TypeOK
    <3> QED
      BY <1>7, <3>1 DEF HearRequest
  <2>2. /\ outgoing' \in [Items -> Outgoings] /\ queued' \in Seq(Items)
        /\ busy' \in BOOLEAN /\ sendAt' \in [Items -> Places]
    <3>1. /\ queued \in Seq(Items) /\ busy \in BOOLEAN
          /\ outgoing \in [Items -> Outgoings] /\ sendAt \in [Items -> Places]
      BY <1>0 DEF TypeOK, Outgoings, Places
    <3>2. Append(queued, i) \in Seq(Items)
      BY <3>1
    <3> QED
      BY <1>7, <3>1, <3>2, PumpTypes DEF HearRequest
  <2> QED
    BY <1>0, <1>7, <2>1, <2>2 DEF HearRequest, TypeOK, Outgoings, Places
<1>8. CASE HearReject(i)
  BY <1>0, <1>8 DEF HearReject, TypeOK
<1> QED
  BY <1>1, <1>2, <1>3, <1>4, <1>5, <1>6, <1>7, <1>8 DEF ItemNext
(* The steps of the sender's end of the channel keep the types.            *)
LEMMA SenderEndTypes ==
  ASSUME IInv, NEW i \in Items,
         \/ Begin(i) \/ HearReady(i) \/ SendFrame(i) \/ EndSent(i)
         \/ DirectFails(i)
  PROVE  TypeOK'
<1> USE DEF answers, downloads, pairing, envelopes, wire, relay
<1>0. TypeOK
  BY DEF IInv
<1>1. SenderTypes /\ OnChannel /\ rDropped \in BOOLEAN
  BY <1>0 DEF TypeOK, SenderTypes, OnChannel, Outgoings, Places, Messages
<1>2. SenderTypes' /\ OnChannel'
  <2>1. CASE Begin(i)
    <3>1. sendAt' \in [Items -> Places]
      BY <1>1, <2>1 DEF Begin, SendGoesOn, SenderTypes, Places
    <3>2. OnChannel'
      BY <1>0, <2>1, MessageTypes DEF Begin
    <3> QED
      BY <1>1, <2>1, <3>1, <3>2 DEF Begin, SendGoesOn, SenderTypes
  <2>2. CASE HearReady(i)
    <3>1. UNCHANGED chan
      BY <2>2 DEF HearReady
    <3> QED
      BY <1>1, <2>2, <3>1
         DEF HearReady, SendGoesOn, SenderTypes, OnChannel, Places
  <2>3. CASE SendFrame(i)
    <3>1. left' \in [Items -> 0..Frames]
      <4>1. left \in [Items -> 0..Frames] /\ Frames \in Nat
        BY <1>1, BoundsAssumption DEF SenderTypes
      <4> QED
        BY <2>3, <4>1 DEF SendFrame, MoreToSend
    <3>2. OnChannel'
      BY <1>0, <2>3, MessageTypes DEF SendFrame
    <3> QED
      BY <1>1, <2>3, <3>1, <3>2 DEF SendFrame, SenderTypes
  <2>4. CASE EndSent(i)
    <3>1. OnChannel'
      BY <1>0, <2>4, MessageTypes DEF EndSent
    <3> QED
      BY <1>1, <2>4, <3>1, SendEndsTypes DEF EndSent
  <2>5. CASE DirectFails(i)
    <3>1. OnChannel'
      BY <1>0, <2>5, MessageTypes DEF DirectFails, Abort
    <3> QED
      BY <1>1, <2>5, <3>1, SendEndsTypes DEF DirectFails
  <2> QED
    BY <2>1, <2>2, <2>3, <2>4, <2>5
<1>3. UNCHANGED <<incoming, arrived, approving, preparing, active, sink,
                  written, pairedWith, readyAt, offers, requests, rejects,
                  channel, readies, sDropped, rDropped, begins, senderReady,
                  receiverReady, fetched, refused, together, overtaken>>
  BY DEF Begin, HearReady, SendFrame, EndSent, DirectFails
<1> QED
  BY <1>0, <1>2, <1>3
     DEF TypeOK, SenderTypes, OnChannel, Outgoings, Places, Messages

LEMMA LinkClosesTypes ==
  ASSUME IInv, SenderLinkCloses
  PROVE  TypeOK'
<1> USE DEF answers, downloads, pairing, envelopes, wire, relay
<1>0. TypeOK
  BY DEF IInv
<1>1. SenderTypes /\ OnChannel /\ rDropped \in BOOLEAN
  BY <1>0 DEF TypeOK, SenderTypes, OnChannel, Outgoings, Places, Messages
<1>2. SenderTypes' /\ OnChannel'
  <2>1. CASE UNCHANGED <<sender, chan>>
    BY <1>1, <2>1 DEF sender, SenderTypes, OnChannel
  <2>2. CASE \E i \in Items : SendEnds(i, "failed") /\ Abort(i)
    <3>1. PICK i \in Items : SendEnds(i, "failed") /\ Abort(i)
      BY <2>2
    <3>2. OnChannel'
      BY <1>0, <3>1, MessageTypes DEF Abort
    <3> QED
      BY <1>1, <3>1, <3>2, SendEndsTypes
  <2> QED
    BY <2>1, <2>2 DEF SenderLinkCloses
<1>3. /\ sDropped' \in BOOLEAN
      /\ UNCHANGED <<incoming, arrived, approving, preparing, active, sink,
                     written, pairedWith, readyAt, offers, requests, rejects,
                     channel, readies, rDropped, begins, senderReady,
                     receiverReady, fetched, refused, together, overtaken>>
  BY DEF SenderLinkCloses
<1> QED
  BY <1>0, <1>2, <1>3
     DEF TypeOK, SenderTypes, OnChannel, Outgoings, Places, Messages

ReceiverTypes ==
  /\ incoming \in [Items -> Incomings]
  /\ preparing \in Items \cup {None} /\ active \in Items \cup {None}
  /\ sink \in [Items -> {"none", "open", "closed", "aborted"}]
  /\ written \in [Items -> Seq(Items \X (1..Frames))]
  /\ OnChannel /\ readies \subseteq Items
  /\ rDropped \in BOOLEAN /\ overtaken \subseteq Items

LEMMA FinishTypes ==
  ASSUME ReceiverTypes, NEW i \in Items, NEW how \in {"closed", "aborted"},
         NEW state \in {"done", "failed"}, Finish(i, how, state)
  PROVE  /\ incoming' \in [Items -> Incomings] /\ active' = None
         /\ sink' \in [Items -> {"none", "open", "closed", "aborted"}]
         /\ written' \in [Items -> Seq(Items \X (1..Frames))]
<1>1. <<>> \in Seq(Items \X (1..Frames))
  OBVIOUS
<1> QED
  BY <1>1 DEF Finish, ReceiverTypes, Incomings
(* The steps of the receiver's end of the channel keep the types.          *)
Receives(i) ==
  \/ TakeBegin(i) \/ Prepared(i) \/ PrepareFails(i)
  \/ TakeData(i) \/ TakeDataFails(i) \/ TakeEnd(i) \/ TakeAbort(i)

(* A message comes off the channel.                                        *)
Takes(i) ==
  \/ TakeBegin(i) \/ TakeData(i) \/ TakeDataFails(i) \/ TakeEnd(i)
  \/ TakeAbort(i)

LEMMA ReceiverFrame ==
  ASSUME (\E i \in Items : Receives(i)) \/ ReceiverLinkCloses
  PROVE  UNCHANGED <<outgoing, queued, busy, sendAt, left, arrived, approving,
                     pairedWith, readyAt, offers, requests, rejects, channel,
                     sDropped, begins, senderReady, receiverReady, fetched,
                     refused, together>>
<1> USE DEF sender, answers, downloads, pairing, envelopes, wire, relay
<1>1. ASSUME NEW i \in Items, Takes(i)
      PROVE  UNCHANGED <<outgoing, queued, busy, sendAt, left, arrived,
                         approving, pairedWith, readyAt, offers, requests,
                         rejects, channel, sDropped, begins, senderReady,
                         receiverReady, fetched, refused, together>>
  BY <1>1 DEF Takes, TakeBegin, TakeData, TakeDataFails, TakeEnd, TakeAbort,
              Take
<1>2. ASSUME NEW i \in Items, Prepared(i) \/ PrepareFails(i)
      PROVE  UNCHANGED <<outgoing, queued, busy, sendAt, left, arrived,
                         approving, pairedWith, readyAt, offers, requests,
                         rejects, channel, sDropped, begins, senderReady,
                         receiverReady, fetched, refused, together>>
  BY <1>2 DEF Prepared, PrepareFails
<1>3. CASE ReceiverLinkCloses
  BY <1>3 DEF ReceiverLinkCloses
<1> QED
  BY <1>1, <1>2, <1>3 DEF Receives, Takes

LEMMA ReceiverEndTypes ==
  ASSUME IInv, (\E i \in Items : Receives(i)) \/ ReceiverLinkCloses
  PROVE  TypeOK'
<1> USE DEF wire, downloads
<1>0. TypeOK /\ Linked
  BY DEF IInv
<1>1. ReceiverTypes
  BY <1>0 DEF TypeOK, ReceiverTypes, OnChannel, Incomings, Messages
<1>2. ReceiverTypes'
  <2>1. ASSUME NEW i \in Items, Prepared(i)
        PROVE  ReceiverTypes'
    BY <1>1, <2>1 DEF Prepared, ReceiverTypes, OnChannel, Incomings
  <2>2. ASSUME NEW i \in Items, PrepareFails(i)
        PROVE  ReceiverTypes'
    BY <1>1, <2>2 DEF PrepareFails, ReceiverTypes, OnChannel, Incomings
  <2>3. ASSUME NEW i \in Items, Takes(i)
        PROVE  /\ chan # <<>> /\ OnChannel'
               /\ UNCHANGED <<rDropped, readies, overtaken>>
    <3>1. /\ chan # <<>> /\ chan' = Tail(chan)
          /\ UNCHANGED <<rDropped, readies, overtaken>>
      BY <2>3 DEF Takes, TakeBegin, TakeData, TakeDataFails, TakeEnd,
                  TakeAbort, Take
    <3> QED
      BY <1>0, <3>1, TakeTypes
  <2>4. ASSUME NEW i \in Items, TakeBegin(i)
        PROVE  ReceiverTypes'
    <3>1. /\ preparing' \in {i, None}
          /\ UNCHANGED <<incoming, active, sink, written>>
      BY <2>4 DEF TakeBegin
    <3> QED
      BY <1>1, <2>3, <2>4, <3>1 DEF ReceiverTypes, Takes
  <2>5. ASSUME NEW i \in Items, TakeData(i)
        PROVE  ReceiverTypes'
    <3>1. UNCHANGED <<incoming, preparing, active, sink>>
      BY <2>5 DEF TakeData
    <3>2. written' \in [Items -> Seq(Items \X (1..Frames))]
      <4>1. /\ Head(chan).t = "data" /\ Head(chan) \in Messages
            /\ Head(chan) = chan[1] /\ 1 \in 1..Len(chan)
        BY <1>0, <2>3, <2>5, TakeTypes DEF Takes, TakeData, Take
      <4>2. Head(chan).n \in 1..Frames
        <5>1. Follows(1) /\ chan[1].t = "data"
          BY <1>0, <4>1 DEF Linked
        <5>2. chan[1].n >= 1
          BY <5>1 DEF Follows
        <5>3. Head(chan).n \in 0..Frames /\ Head(chan).n >= 1
          BY <4>1, <5>2 DEF Messages
        <5> QED
          BY <5>3, BoundsAssumption
      <4>3. <<i, Frames - Head(chan).n + 1>> \in Items \X (1..Frames)
        BY <4>2, BoundsAssumption
      <4> DEFINE frame == <<i, Frames - Head(chan).n + 1>>
      <4> DEFINE Fed == Seq(Items \X (1..Frames))
      <4>4. /\ active = None => written' = written
            /\ active # None =>
                 written' = [written EXCEPT ![active] = Append(@, frame)]
        BY <2>5 DEF TakeData
      <4>5. /\ written \in [Items -> Fed] /\ active \in Items \cup {None}
            /\ \A w \in Fed : Append(w, frame) \in Fed
        BY <1>1, <4>3 DEF ReceiverTypes
      <4> HIDE DEF frame, Fed
      <4>6. written' \in [Items -> Fed]
        BY <4>4, <4>5
      <4> QED
        BY <4>6 DEF Fed
    <3> QED
      BY <1>1, <2>3, <2>5, <3>1, <3>2 DEF ReceiverTypes, Takes
  <2>6. ASSUME NEW i \in Items, TakeDataFails(i) \/ TakeEnd(i) \/ TakeAbort(i)
        PROVE  ReceiverTypes'
    <3>1. /\ preparing' = preparing
          /\ \/ Finish(i, "closed", "done") \/ Finish(i, "aborted", "failed")
             \/ active # None /\ Finish(active, "aborted", "failed")
             \/ UNCHANGED <<incoming, active, sink, written>>
      BY <2>6 DEF TakeDataFails, TakeEnd, TakeAbort
    <3> QED
      BY <1>1, <2>3, <2>6, <3>1, FinishTypes DEF ReceiverTypes, Takes
  <2>7. CASE ReceiverLinkCloses
    <3>1. OnChannel'
      <4>1. UNCHANGED chan => OnChannel'
        BY <1>1 DEF ReceiverTypes, OnChannel
      <4> QED
        BY <1>0, <2>7, <4>1, PrefixTypes DEF ReceiverLinkCloses
    <3>2. /\ rDropped' \in BOOLEAN
          /\ UNCHANGED <<preparing, readies, overtaken>>
          /\ \/ active # None /\ Finish(active, "aborted", "failed")
             \/ UNCHANGED <<incoming, active, sink, written>>
      BY <1>1, <2>7 DEF ReceiverLinkCloses, ReceiverTypes
    <3> QED
      BY <1>1, <3>1, <3>2, FinishTypes DEF ReceiverTypes
  <2> QED
    BY <2>1, <2>2, <2>4, <2>5, <2>6, <2>7 DEF Receives
<1>3. UNCHANGED <<outgoing, queued, busy, sendAt, left, arrived, approving,
                  pairedWith, readyAt, offers, requests, rejects, channel,
                  sDropped, begins, senderReady, receiverReady, fetched,
                  refused, together>>
  BY ReceiverFrame
<1>4. /\ outgoing' \in [Items -> Outgoings] /\ queued' \in Seq(Items)
      /\ busy' \in BOOLEAN /\ sendAt' \in [Items -> Places]
      /\ left' \in [Items -> 0..Frames]
  BY <1>0, <1>3 DEF TypeOK, Outgoings, Places
<1> QED
  BY <1>0, <1>2, <1>3, <1>4
     DEF TypeOK, ReceiverTypes, OnChannel, Outgoings, Places, Incomings,
         Messages

(* The steps that go by way of the relay keep the types.                   *)
LEMMA RelayTypes ==
  ASSUME IInv, NEW t \in Items, RelayNext(t)
  PROVE  TypeOK'
<1> USE DEF answers, downloads, pairing, envelopes, wire, relay
<1>0. TypeOK
  BY DEF IInv
<1>1. /\ SenderTypes /\ incoming \in [Items -> Incomings]
      /\ pairedWith \in [Items -> Items \cup {None}]
      /\ readyAt \in [Items -> {"idle", "keying", "starting", "over"}]
      /\ begins \subseteq Items /\ senderReady \subseteq Items
      /\ receiverReady \subseteq Items /\ fetched \subseteq Items
      /\ arrived \in Seq(Items)
  BY <1>0 DEF TypeOK, SenderTypes, Outgoings, Places, Incomings
<1>2. SenderTypes'
  <2>1. CASE BeginRelayed(t) \/ HearSenderReady(t)
    <3>1. \/ \E i : SendGoesOn(i, "opening", "relaying")
          \/ \E i : SendGoesOn(i, "relaying", "uploading")
          \/ UNCHANGED <<outgoing, queued, busy, sendAt>>
      BY <2>1 DEF BeginRelayed, HearSenderReady
    <3>2. UNCHANGED left
      BY <2>1 DEF BeginRelayed, HearSenderReady
    <3> QED
      BY <1>1, <3>1, <3>2 DEF SendGoesOn, SenderTypes, Places
  <2>2. CASE Uploaded(t) \/ UploadFails(t)
    BY <1>1, <2>2, SendEndsTypes DEF Uploaded, UploadFails
  <2>3. CASE ~(BeginRelayed(t) \/ HearSenderReady(t) \/ Uploaded(t)
               \/ UploadFails(t))
    BY <1>1, <2>3 DEF RelayNext, RelayAnswers, HearReceiverReady, Keyed,
                      DownloadStarted, DownloadFails, Pairing, sender,
                      SenderTypes
  <2> QED
    BY <2>1, <2>2, <2>3
<1>3. /\ pairedWith' \in [Items -> Items \cup {None}]
      /\ readyAt' \in [Items -> {"idle", "keying", "starting", "over"}]
      /\ incoming' \in [Items -> Incomings]
  <2>1. CASE HearReceiverReady(t)
    <3> DEFINE approved == {i \in Items : incoming[i] = "approved"}
    <3>1. ApprovedItems \in Seq(Items)
      <4>1. ApprovedItems \in Seq({i \in approved :
                                     \E k \in 1..Len(arrived) : arrived[k] = i})
        BY <1>1, Selected DEF ApprovedItems
      <4> QED
        BY <4>1, SeqMonotonic
    <3>2. ApprovedItems # <<>> => Head(ApprovedItems) \in Items
      BY <3>1, HeadTailProperties
    <3> QED
      BY <1>1, <2>1, <3>2 DEF HearReceiverReady
  <2>2. CASE Keyed(t) \/ DownloadStarted(t) \/ DownloadFails(t)
    <3>1. PICK to \in {"starting", "over"},
               state \in {"receiving", "done", "failed"} :
            /\ readyAt' = [readyAt EXCEPT ![t] = to]
            /\ incoming' = [incoming EXCEPT ![pairedWith[t]] = state]
            /\ UNCHANGED pairedWith
      BY <2>2 DEF Keyed, DownloadStarted, DownloadFails, Pairing
    <3>2. readyAt' \in [Items -> {"idle", "keying", "starting", "over"}]
      BY <1>1, <3>1
    <3>3. state \in Incomings
      BY DEF Incomings
    <3>4. incoming' \in [Items -> Incomings]
      BY <1>1, <3>1, <3>3
    <3> QED
      BY <1>1, <3>1, <3>2, <3>4
  <2>3. CASE ~(HearReceiverReady(t) \/ Keyed(t) \/ DownloadStarted(t)
               \/ DownloadFails(t))
    BY <1>1, <2>3 DEF RelayNext, BeginRelayed, RelayAnswers, HearSenderReady,
                      Uploaded, UploadFails
  <2> QED
    BY <2>1, <2>2, <2>3
<1>4. /\ begins' \subseteq Items /\ senderReady' \subseteq Items
      /\ receiverReady' \subseteq Items /\ fetched' \subseteq Items
  <2>1. /\ begins' \subseteq begins \cup {t}
        /\ senderReady' \subseteq senderReady \cup {t}
        /\ receiverReady' \subseteq receiverReady \cup {t}
        /\ fetched' \subseteq fetched \cup {t}
    BY DEF RelayNext, BeginRelayed, RelayAnswers, HearSenderReady, Uploaded,
           UploadFails, HearReceiverReady, Keyed, DownloadStarted,
           DownloadFails, Pairing
  <2> QED
    BY <1>1, <2>1
<1>5. UNCHANGED <<arrived, approving, preparing, active, sink, written,
                  offers, requests, rejects, channel, chan, readies, sDropped,
                  rDropped, refused, together, overtaken>>
  BY DEF RelayNext, BeginRelayed, RelayAnswers, HearSenderReady, Uploaded,
         UploadFails, HearReceiverReady, Keyed, DownloadStarted,
         DownloadFails, Pairing
<1> QED
  BY <1>0, <1>2, <1>3, <1>4, <1>5
     DEF TypeOK, SenderTypes, Outgoings, Places, Incomings

(* Every step keeps the types.                                             *)
LEMMA TypeStep == IInv /\ [Next]_vars => TypeOK'
<1> SUFFICES ASSUME IInv, [Next]_vars PROVE TypeOK'
  OBVIOUS
<1>0. TypeOK
  BY DEF IInv
<1>1. CASE OpenChannel
  BY <1>0, <1>1 DEF OpenChannel, sender, answers, downloads, pairing,
                    envelopes, relay, TypeOK
<1>2. CASE UNCHANGED vars
  BY <1>0, <1>2 DEF vars, sender, answers, downloads, pairing, envelopes,
                    wire, relay, TypeOK
<1>3. ASSUME NEW i \in Items, DirectNext(i)
      PROVE  TypeOK'
  BY <1>3, SenderEndTypes, ReceiverEndTypes DEF DirectNext, Receives
<1> QED
  BY <1>1, <1>2, <1>3, ItemTypes, RelayTypes, LinkClosesTypes,
     ReceiverEndTypes DEF Next
-----------------------------------------------------------------------------
(* How the sender's page goes on: with offers and what answers them, with  *)
(* the item being sent, or with the end of that.                           *)
SenderMove ==
  \/ UNCHANGED <<outgoing, queued, busy, sendAt>>
  \/ \E i \in Items :
       \/ Offer(i) \/ HearRequest(i) \/ HearReject(i)
       \/ Begin(i) \/ HearReady(i) \/ BeginRelayed(i)
       \/ SendGoesOn(i, "relaying", "uploading")
  \/ \E i \in Items, state \in {"done", "failed"} :
       sendAt[i] \in Engaged /\ SendEnds(i, state)

LEMMA SenderMoves ==
  ASSUME [Next]_vars
  PROVE  SenderMove
<1> USE DEF sender
<1>1. ASSUME NEW i \in Items, ItemNext(i) PROVE SenderMove
  BY <1>1 DEF SenderMove, ItemNext, HearOffer, Approve, Approved,
              ApproveFails, Decline
<1>2. ASSUME NEW i \in Items, DirectNext(i) PROVE SenderMove
  <2>1. CASE Begin(i) \/ HearReady(i)
    BY <2>1 DEF SenderMove
  <2>2. CASE SendFrame(i)
    BY <2>2 DEF SenderMove, SendFrame
  <2>3. CASE EndSent(i) \/ DirectFails(i)
    BY <2>3 DEF SenderMove, EndSent, DirectFails, Engaged
  <2>4. CASE Receives(i)
    BY <2>4, ReceiverFrame DEF SenderMove
  <2> QED
    BY <1>2, <2>1, <2>2, <2>3, <2>4 DEF DirectNext, Receives
<1>3. ASSUME NEW t \in Items, RelayNext(t) PROVE SenderMove
  <2>1. CASE BeginRelayed(t)
    BY <2>1 DEF SenderMove
  <2>2. CASE HearSenderReady(t)
    BY <2>2 DEF SenderMove, HearSenderReady
  <2>3. CASE Uploaded(t) \/ UploadFails(t)
    BY <2>3 DEF SenderMove, Uploaded, UploadFails, Engaged
  <2>4. CASE ~(BeginRelayed(t) \/ HearSenderReady(t) \/ Uploaded(t)
               \/ UploadFails(t))
    BY <1>3, <2>4 DEF SenderMove, RelayNext, RelayAnswers, HearReceiverReady,
                      Keyed, DownloadStarted, DownloadFails, Pairing
  <2> QED
    BY <2>1, <2>2, <2>3, <2>4
<1>4. CASE OpenChannel \/ UNCHANGED vars
  BY <1>4 DEF SenderMove, OpenChannel, vars
<1>5. CASE SenderLinkCloses
  BY <1>5 DEF SenderMove, SenderLinkCloses, Engaged
<1>6. CASE ReceiverLinkCloses
  BY <1>6, ReceiverFrame DEF SenderMove
<1> QED
  BY <1>1, <1>2, <1>3, <1>4, <1>5, <1>6 DEF Next

(* What the end of a send comes to.                                        *)
LEMMA SendEndsMoves ==
  ASSUME IInv, NEW i \in Items, NEW state \in {"done", "failed"},
         SendEnds(i, state)
  PROVE  /\ Pumped(queued, FALSE, [outgoing EXCEPT ![i] = state],
                   [sendAt EXCEPT ![i] = "over"])
         /\ \A j \in Items : InQueue(j)' => InQueue(j)
<1> DEFINE states == [outgoing EXCEPT ![i] = state]
           places == [sendAt EXCEPT ![i] = "over"]
<1>1. /\ Pump(queued, FALSE, states, places)
      /\ queued \in Seq(Items) /\ FALSE \in BOOLEAN
  BY DEF SendEnds, IInv, TypeOK
<1> HIDE DEF states, places
<1>2. /\ Pumped(queued, FALSE, states, places)
      /\ \A j \in Items : InQueue(j)' =>
           \E k \in 1..Len(queued) : queued[k] = j
  BY <1>1, PumpMoves
<1> QED
  BY <1>2 DEF states, places, InQueue

(* And what a request comes to.                                            *)
LEMMA RequestMoves ==
  ASSUME IInv, NEW i \in Items, HearRequest(i)
  PROVE  /\ Pumped(Append(queued, i), busy, outgoing, sendAt)
         /\ \A j \in Items : InQueue(j)' => InQueue(j) \/ j = i
         /\ \A j \in Items :
              (\E k \in 1..Len(Append(queued, i)) : Append(queued, i)[k] = j)
                => InQueue(j) \/ j = i
<1> DEFINE queue == Append(queued, i)
<1>1. /\ queue \in Seq(Items) /\ queued \in Seq(Items) /\ busy \in BOOLEAN
      /\ Pump(queue, busy, outgoing, sendAt)
  BY DEF HearRequest, IInv, TypeOK
<1>2. \A j \in Items :
        (\E k \in 1..Len(queue) : queue[k] = j) => InQueue(j) \/ j = i
  BY <1>1 DEF InQueue
<1>3. queue = Append(queued, i)
  OBVIOUS
<1> HIDE DEF queue
<1>4. /\ Pumped(queue, busy, outgoing, sendAt)
      /\ \A j \in Items : InQueue(j)' =>
           \E k \in 1..Len(queue) : queue[k] = j
  BY <1>1, PumpMoves
<1>5. \A j \in Items : InQueue(j)' => InQueue(j) \/ j = i
  BY <1>2, <1>4
<1> QED
  BY <1>2, <1>3, <1>4, <1>5

(* What a step of the sender's page does with one item.                    *)
Turn(i) ==
  /\ outgoing'[i] = "new" => outgoing[i] = "new"
  /\ outgoing'[i] = "offered" => outgoing[i] = "offered" \/ Offer(i)
  /\ InQueue(i)' => InQueue(i) \/ HearRequest(i)
  /\ \/ sendAt'[i] = sendAt[i]
     \/ /\ sendAt[i] = "idle" /\ sendAt'[i] = "opening"
        /\ outgoing[i] = "offered" /\ outgoing'[i] = "sending"
        /\ InQueue(i) \/ HearRequest(i)
     \/ Begin(i) \/ HearReady(i) \/ BeginRelayed(i)
     \/ SendGoesOn(i, "relaying", "uploading")
     \/ sendAt[i] \in Engaged /\ sendAt'[i] = "over"

LEMMA Turns ==
  ASSUME IInv, [Next]_vars, NEW i \in Items
  PROVE  Turn(i)
<1>1. /\ outgoing \in [Items -> Outgoings] /\ sendAt \in [Items -> Places]
      /\ queued \in Seq(Items)
      /\ \A j \in Items :
           outgoing[j] \in {"new", "offered"} => sendAt[j] = "idle"
  BY DEF IInv, TypeOK, Dispatch, Outgoings, Places
<1>2. CASE UNCHANGED <<outgoing, queued, busy, sendAt>>
  BY <1>2 DEF Turn, InQueue
<1>3. ASSUME NEW j \in Items, Offer(j) \/ HearReject(j)
      PROVE  Turn(i)
  <2>1. /\ UNCHANGED <<queued, sendAt>>
        /\ \A k \in Items \ {j} : outgoing'[k] = outgoing[k]
        /\ outgoing'[j] # "new"
        /\ outgoing'[j] = "offered" => Offer(j)
    BY <1>1, <1>3 DEF Offer, HearReject
  <2> QED
    BY <2>1 DEF Turn, InQueue
<1>4. ASSUME NEW j \in Items, HearRequest(j)
      PROVE  Turn(i)
  <2>1. /\ InQueue(i)' => InQueue(i) \/ j = i
        /\ Pumped(Append(queued, j), busy, outgoing, sendAt)
    BY <1>4, RequestMoves
  <2>2. CASE busy' = busy /\ outgoing' = outgoing /\ sendAt' = sendAt
    BY <1>4, <2>1, <2>2 DEF Turn
  <2>3. ASSUME NEW next \in Items, outgoing[next] = "offered",
               \E k \in 1..Len(Append(queued, j)) : Append(queued, j)[k] = next,
               outgoing' = [outgoing EXCEPT ![next] = "sending"],
               sendAt' = [sendAt EXCEPT ![next] = "opening"]
        PROVE  Turn(i)
    <3>1. InQueue(next) \/ j = next
      BY <1>4, <2>3, RequestMoves
    <3>2. sendAt[next] = "idle"
      BY <1>1, <2>3
    <3> QED
      BY <1>1, <1>4, <2>1, <2>3, <3>1, <3>2 DEF Turn
  <2> QED
    BY <2>1, <2>2, <2>3 DEF Pumped
<1>5. ASSUME NEW j \in Items,
             \/ Begin(j) \/ HearReady(j) \/ BeginRelayed(j)
             \/ SendGoesOn(j, "relaying", "uploading")
      PROVE  Turn(i)
  <2>1. /\ UNCHANGED <<outgoing, queued>>
        /\ \A k \in Items \ {j} : sendAt'[k] = sendAt[k]
    BY <1>1, <1>5 DEF Begin, HearReady, BeginRelayed, SendGoesOn
  <2> QED
    BY <1>5, <2>1 DEF Turn, InQueue
<1>6. ASSUME NEW j \in Items, NEW state \in {"done", "failed"},
             sendAt[j] \in Engaged, SendEnds(j, state)
      PROVE  Turn(i)
  <2> DEFINE states == [outgoing EXCEPT ![j] = state]
             places == [sendAt EXCEPT ![j] = "over"]
  <2>1. /\ Pumped(queued, FALSE, states, places)
        /\ InQueue(i)' => InQueue(i)
    BY <1>6, SendEndsMoves
  <2>2. CASE outgoing' = states /\ sendAt' = places
    BY <1>1, <1>6, <2>1, <2>2 DEF Turn
  <2>3. ASSUME NEW next \in Items, states[next] = "offered",
               \E k \in 1..Len(queued) : queued[k] = next,
               outgoing' = [states EXCEPT ![next] = "sending"],
               sendAt' = [places EXCEPT ![next] = "opening"]
        PROVE  Turn(i)
    <3>1. next # j /\ outgoing[next] = "offered" /\ sendAt[next] = "idle"
      BY <1>1, <1>6, <2>3
    <3>2. InQueue(next)
      BY <2>3 DEF InQueue
    <3> QED
      BY <1>1, <1>6, <2>1, <2>3, <3>1, <3>2 DEF Turn
  <2> QED
    BY <2>1, <2>2, <2>3 DEF Pumped
<1> QED
  BY <1>2, <1>3, <1>4, <1>5, <1>6, SenderMoves DEF SenderMove

(* One item is sent at a time.                                             *)
LEMMA DispatchStep ==
  ASSUME IInv, [Next]_vars
  PROVE  Dispatch'
<1>1. /\ outgoing \in [Items -> Outgoings] /\ sendAt \in [Items -> Places]
      /\ Dispatch /\ busy \in BOOLEAN
  BY DEF IInv, TypeOK, Outgoings, Places
<1>2. ASSUME NEW i \in Items, outgoing'[i] \in {"new", "offered"}
      PROVE  sendAt'[i] = "idle"
  <2>1. Turn(i)
    BY Turns
  <2>2. CASE Offer(i)
    BY <1>1, <2>2 DEF Offer, Dispatch
  <2>3. CASE outgoing[i] \in {"new", "offered"}
    <3>1. sendAt[i] = "idle"
      BY <1>1, <2>3 DEF Dispatch
    <3> QED
      BY <1>2, <2>1, <3>1
         DEF Turn, Begin, HearReady, BeginRelayed, SendGoesOn, Engaged
  <2> QED
    BY <1>2, <2>1, <2>2, <2>3 DEF Turn
<1> DEFINE One(isBusy, places) ==
             \A i \in Items : places[i] \in Engaged =>
               isBusy /\ \A j \in Items : places[j] \in Engaged => j = i
<1>3. One(busy, sendAt)
  BY <1>1 DEF Dispatch
<1>4. ASSUME NEW queue, NEW isBusy, NEW states,
             NEW places \in [Items -> Places],
             Pumped(queue, isBusy, states, places), One(isBusy, places)
      PROVE  One(busy', sendAt')
  BY <1>4 DEF Pumped, Engaged
<1>5. One(busy', sendAt')
  <2>1. ASSUME NEW i \in Items, HearRequest(i)
        PROVE  One(busy', sendAt')
    <3>1. Pumped(Append(queued, i), busy, outgoing, sendAt)
      BY <2>1, RequestMoves
    <3> HIDE DEF One
    <3> QED
      BY <1>1, <1>3, <1>4, <3>1
  <2>2. ASSUME NEW i \in Items, NEW state \in {"done", "failed"},
               sendAt[i] \in Engaged, SendEnds(i, state)
        PROVE  One(busy', sendAt')
    <3> DEFINE places == [sendAt EXCEPT ![i] = "over"]
    <3>1. Pumped(queued, FALSE, [outgoing EXCEPT ![i] = state], places)
      BY <2>2, SendEndsMoves
    <3>2. places \in [Items -> Places] /\ One(FALSE, places)
      BY <1>1, <1>3, <2>2 DEF Places, Engaged
    <3> HIDE DEF One, places
    <3> QED
      BY <1>4, <3>1, <3>2
  <2>3. ASSUME NEW i \in Items,
               \/ Begin(i) \/ HearReady(i) \/ BeginRelayed(i)
               \/ SendGoesOn(i, "relaying", "uploading")
        PROVE  One(busy', sendAt')
    <3>1. /\ sendAt[i] \in Engaged /\ busy' = busy
          /\ \E to \in Engaged : sendAt' = [sendAt EXCEPT ![i] = to]
      BY <2>3 DEF Begin, HearReady, BeginRelayed, SendGoesOn, Engaged
    <3> QED
      BY <1>1, <1>3, <3>1
  <2>4. CASE UNCHANGED <<busy, sendAt>>
    BY <1>3, <2>4
  <2> HIDE DEF One
  <2> QED
    BY <2>1, <2>2, <2>3, <2>4, SenderMoves DEF SenderMove, Offer, HearReject
<1> QED
  BY <1>2, <1>5 DEF Dispatch
-----------------------------------------------------------------------------
(* How the receiver's page goes on with one item.                          *)
Patch(i) ==
  \/ incoming'[i] = incoming[i]
  \/ HearOffer(i) \/ Approved(i) \/ ApproveFails(i) \/ Decline(i)
  \/ preparing = i /\ incoming'[i] \in {"receiving", "failed"}
  \/ active = i /\ incoming'[i] \in {"done", "failed"}
  \/ \E t \in Items : /\ readyAt[t] # "idle" /\ pairedWith[t] = i
                      /\ incoming'[i] \in {"receiving", "done", "failed"}

LEMMA Patches ==
  ASSUME IInv, [Next]_vars, NEW i \in Items
  PROVE  Patch(i)
<1>1. incoming \in [Items -> Incomings]
  BY DEF IInv, TypeOK, Incomings
<1>2. ASSUME NEW j \in Items, ItemNext(j) PROVE Patch(i)
  BY <1>1, <1>2 DEF Patch, ItemNext, Offer, HearOffer, Approve, Approved,
                    ApproveFails, Decline, HearRequest, HearReject
<1>3. ASSUME NEW j \in Items, DirectNext(j) PROVE Patch(i)
  <2>1. CASE TakeDataFails(j) \/ TakeEnd(j) \/ TakeAbort(j)
    BY <1>1, <2>1 DEF Patch, TakeDataFails, TakeEnd, TakeAbort, Finish
  <2>2. CASE Prepared(j) \/ PrepareFails(j)
    BY <1>1, <2>2 DEF Patch, Prepared, PrepareFails
  <2>3. CASE ~(\/ TakeDataFails(j) \/ TakeEnd(j) \/ TakeAbort(j)
               \/ Prepared(j) \/ PrepareFails(j))
    BY <1>3, <2>3 DEF Patch, DirectNext, Begin, HearReady, SendFrame, EndSent,
                      DirectFails, TakeBegin, TakeData
  <2> QED
    BY <2>1, <2>2, <2>3
<1>4. ASSUME NEW t \in Items, RelayNext(t) PROVE Patch(i)
  <2>1. CASE Keyed(t) \/ DownloadStarted(t) \/ DownloadFails(t)
    <3>1. \E state \in {"receiving", "done", "failed"} :
            /\ readyAt[t] # "idle"
            /\ incoming' = [incoming EXCEPT ![pairedWith[t]] = state]
      BY <2>1 DEF Keyed, DownloadStarted, DownloadFails, Pairing
    <3> QED
      BY <1>1, <3>1 DEF Patch
  <2>2. CASE ~(Keyed(t) \/ DownloadStarted(t) \/ DownloadFails(t))
    BY <1>4, <2>2 DEF Patch, RelayNext, BeginRelayed, RelayAnswers,
                      HearSenderReady, Uploaded, UploadFails,
                      HearReceiverReady
  <2> QED
    BY <2>1, <2>2
<1>5. CASE OpenChannel \/ SenderLinkCloses \/ UNCHANGED vars
  BY <1>5 DEF Patch, OpenChannel, SenderLinkCloses, vars
<1>6. CASE ReceiverLinkCloses
  BY <1>1, <1>6 DEF Patch, ReceiverLinkCloses, Finish
<1> QED
  BY <1>2, <1>3, <1>4, <1>5, <1>6 DEF Next

(* How the answers and the envelopes of an item go on.                     *)
Answer(i) ==
  /\ i \in offers' => Offer(i) \/ i \in offers
  /\ \/ approving'[i] = approving[i]
     \/ Approve(i) \/ Approved(i) \/ ApproveFails(i)
  /\ requests'[i] = requests[i] \/ Approved(i) \/ HearRequest(i)
  /\ i \in refused' => i \in refused \/ (Decline(i) /\ approving[i] = 0)

LEMMA AnswerMoves ==
  ASSUME IInv, [Next]_vars, NEW i \in Items
  PROVE  Answer(i)
<1> USE DEF answers, envelopes
<1>1. /\ approving \in [Items -> 0..MaxClicks]
      /\ requests \in [Items -> 0..MaxClicks]
  BY DEF IInv, TypeOK
<1>2. ASSUME NEW j \in Items, ItemNext(j) PROVE Answer(i)
  <2>1. CASE Offer(j) \/ HearOffer(j)
    BY <2>1 DEF Answer, Offer, HearOffer
  <2>2. CASE Approve(j) \/ Approved(j) \/ ApproveFails(j)
    BY <1>1, <2>2 DEF Answer, Approve, Approved, ApproveFails
  <2>3. CASE Decline(j) \/ HearRequest(j) \/ HearReject(j)
    BY <1>1, <2>3 DEF Answer, Decline, HearRequest, HearReject
  <2> QED
    BY <1>2, <2>1, <2>2, <2>3 DEF ItemNext
<1>3. CASE UNCHANGED <<offers, approving, requests, refused>>
  BY <1>3 DEF Answer
<1>4. ASSUME NEW j \in Items, DirectNext(j)
      PROVE  UNCHANGED <<offers, approving, requests, refused>>
  <2>1. CASE Receives(j)
    BY <2>1, ReceiverFrame
  <2>2. CASE ~Receives(j)
    BY <1>4, <2>2 DEF DirectNext, Receives, Begin, HearReady, SendFrame,
                      EndSent, DirectFails
  <2> QED
    BY <2>1, <2>2
<1>5. ASSUME NEW t \in Items, RelayNext(t)
      PROVE  UNCHANGED <<offers, approving, requests, refused>>
  BY <1>5 DEF RelayNext, BeginRelayed, RelayAnswers, HearSenderReady,
              Uploaded, UploadFails, HearReceiverReady, Keyed,
              DownloadStarted, DownloadFails, Pairing
<1>6. CASE OpenChannel \/ SenderLinkCloses \/ UNCHANGED vars
  BY <1>3, <1>6 DEF OpenChannel, SenderLinkCloses, vars
<1>7. CASE ReceiverLinkCloses
  BY <1>3, <1>7, ReceiverFrame
<1> QED
  BY <1>2, <1>3, <1>4, <1>5, <1>6, <1>7 DEF Next

(* A transfer is received for an item that is approved.                    *)
LEMMA ApprovedHead ==
  ASSUME IInv, ApprovedItems # <<>>
  PROVE  /\ Head(ApprovedItems) \in Items
         /\ incoming[Head(ApprovedItems)] = "approved"
<1> DEFINE approved == {i \in Items : incoming[i] = "approved"}
           Kept == {i \in approved : \E k \in 1..Len(arrived) : arrived[k] = i}
<1>1. arrived \in Seq(Items)
  BY DEF IInv, TypeOK
<1>2. ApprovedItems \in Seq(Kept)
  BY <1>1, Selected DEF ApprovedItems
<1>3. Kept \subseteq approved
  OBVIOUS
<1>4. Head(ApprovedItems) \in approved
  <2> HIDE DEF Kept, approved
  <2> QED
    BY <1>2, <1>3, HeadTailProperties
<1> QED
  BY <1>4

LEMMA PairingMoves ==
  ASSUME IInv, [Next]_vars, NEW t \in Items
  PROVE  \/ pairedWith'[t] = pairedWith[t]
         \/ /\ HearReceiverReady(t) /\ pairedWith'[t] \in Items
            /\ incoming[pairedWith'[t]] = "approved"
<1> USE DEF pairing
<1>1. pairedWith \in [Items -> Items \cup {None}] /\ arrived \in Seq(Items)
  BY DEF IInv, TypeOK
<1>2. ASSUME NEW r \in Items, HearReceiverReady(r), ApprovedItems # <<>>
      PROVE  /\ pairedWith' = [pairedWith EXCEPT ![r] = Head(ApprovedItems)]
             /\ Head(ApprovedItems) \in Items
             /\ incoming[Head(ApprovedItems)] = "approved"
  BY <1>2, ApprovedHead DEF HearReceiverReady
<1>3. (\E r \in Items : HearReceiverReady(r) /\ ApprovedItems # <<>>)
        \/ UNCHANGED pairedWith
  <2>1. ASSUME NEW i \in Items, ItemNext(i) PROVE UNCHANGED pairedWith
    BY <2>1 DEF ItemNext, Offer, HearOffer, Approve, Approved, ApproveFails,
                Decline, HearRequest, HearReject
  <2>2. ASSUME NEW i \in Items, DirectNext(i) PROVE UNCHANGED pairedWith
    <3>1. CASE Receives(i)
      BY <3>1, ReceiverFrame
    <3> QED
      BY <2>2, <3>1 DEF DirectNext, Receives, Begin, HearReady, SendFrame,
                        EndSent, DirectFails
  <2>3. ASSUME NEW r \in Items, RelayNext(r)
        PROVE  (HearReceiverReady(r) /\ ApprovedItems # <<>>)
                 \/ UNCHANGED pairedWith
    BY <2>3 DEF RelayNext, BeginRelayed, RelayAnswers, HearSenderReady,
                Uploaded, UploadFails, HearReceiverReady, Keyed,
                DownloadStarted, DownloadFails, Pairing
  <2>4. CASE OpenChannel \/ SenderLinkCloses \/ UNCHANGED vars
    BY <2>4 DEF OpenChannel, SenderLinkCloses, vars
  <2>5. CASE ReceiverLinkCloses
    BY <2>5, ReceiverFrame
  <2> QED
    BY <2>1, <2>2, <2>3, <2>4, <2>5 DEF Next
<1> QED
  BY <1>1, <1>2, <1>3

(* An item that was not asked for is known to no transfer.                 *)
LEMMA UnaskedUnseen ==
  ASSUME IInv, NEW i \in Items, Unasked(i)
  PROVE  /\ preparing # i /\ active # i /\ i \notin begins \cup receiverReady
         /\ \A t \in Items : pairedWith[t] # i
         /\ requests[i] = 0 /\ ~InQueue(i) /\ sendAt[i] = "idle"
  BY DEF IInv, Ways, Unasked, Unseen, Relayed

(* Nothing is sent that was not approved, and an item is offered once.     *)
LEMMA AskingStep ==
  ASSUME IInv, [Next]_vars
  PROVE  Asking'
<1> SUFFICES ASSUME NEW i \in Items
             PROVE  /\ outgoing'[i] = "new" =>
                         incoming'[i] = "unknown" /\ i \notin offers'
                    /\ i \in offers' => incoming'[i] = "unknown"
                    /\ incoming'[i] = "unknown" => approving'[i] = 0
                    /\ incoming'[i] \in {"unknown", "pending"} \/ i \in refused'
                         => Unasked(i)'
                    /\ i \in refused' =>
                         incoming'[i] = "declined" /\ approving'[i] = 0
                    /\ approving'[i] + requests'[i] <= MaxClicks
  BY DEF Asking
<1>1. /\ outgoing[i] = "new" => incoming[i] = "unknown" /\ i \notin offers
      /\ i \in offers => incoming[i] = "unknown"
      /\ incoming[i] = "unknown" => approving[i] = 0
      /\ incoming[i] \in {"unknown", "pending"} \/ i \in refused => Unasked(i)
      /\ i \in refused => incoming[i] = "declined" /\ approving[i] = 0
      /\ approving[i] + requests[i] <= MaxClicks
  BY DEF IInv, Asking
<1>2. Turn(i) /\ Patch(i) /\ Answer(i)
  BY Turns, Patches, AnswerMoves
<1>3. /\ outgoing \in [Items -> Outgoings] /\ incoming \in [Items -> Incomings]
      /\ approving \in [Items -> 0..MaxClicks] /\ MaxClicks \in Nat
      /\ requests \in [Items -> 0..MaxClicks]
  BY BoundsAssumption DEF IInv, TypeOK, Outgoings, Incomings
<1>4. ASSUME Unasked(i)
      PROVE  /\ \/ incoming'[i] = incoming[i]
                \/ HearOffer(i) \/ Approved(i) \/ ApproveFails(i) \/ Decline(i)
             /\ ~HearRequest(i)
             /\ sendAt'[i] = "idle" /\ ~InQueue(i)'
  <2>1. ~HearRequest(i)
    BY <1>4, UnaskedUnseen DEF HearRequest
  <2> QED
    BY <1>2, <1>4, <2>1, UnaskedUnseen
       DEF Turn, Patch, Begin, HearReady, BeginRelayed, SendGoesOn, Engaged
<1>5. incoming[i] = "unknown" =>
        incoming'[i] = "unknown" \/ HearOffer(i)
  BY <1>1, <1>4 DEF Approved, ApproveFails, Decline, CanAnswer
<1>6. i \in refused => incoming'[i] = "declined"
  BY <1>1, <1>4 DEF HearOffer, Approved, ApproveFails, Decline, CanAnswer
<1>7. ASSUME incoming'[i] \in {"unknown", "pending"}
      PROVE  incoming[i] \in {"unknown", "pending"}
  BY <1>1, <1>2, <1>3, <1>7
     DEF Patch, HearOffer, Approved, ApproveFails, Decline
<1>8. ASSUME incoming'[i] \in {"unknown", "pending"} \/ i \in refused'
      PROVE  Unasked(i)'
  <2>1. Unasked(i)
    BY <1>1, <1>2, <1>7, <1>8 DEF Answer, Decline, CanAnswer
  <2>2. ~Approved(i)
    <3>1. CASE incoming'[i] \in {"unknown", "pending"}
      BY <1>3, <3>1 DEF Approved
    <3>2. CASE i \in refused
      BY <1>1, <3>2 DEF Approved
    <3>3. CASE Decline(i)
      BY <1>3, <3>3 DEF Approved, Decline, CanAnswer
    <3> QED
      BY <1>2, <1>8, <3>1, <3>2, <3>3 DEF Answer
  <2>3. requests'[i] = 0
    BY <1>2, <1>4, <2>1, <2>2 DEF Answer, Unasked
  <2>4. \A t \in Items : pairedWith'[t] # i
    <3>1. incoming[i] # "approved"
      BY <1>1, <1>2, <1>7, <1>8 DEF Answer, Decline, CanAnswer
    <3> QED
      BY <2>1, <3>1, PairingMoves DEF Unasked
  <2> QED
    BY <1>4, <2>1, <2>3, <2>4 DEF Unasked
<1>9. i \in offers' => incoming'[i] = "unknown"
  <2>1. CASE i \in offers
    BY <1>1, <1>5, <2>1 DEF HearOffer
  <2>2. CASE Offer(i)
    BY <1>1, <2>2 DEF Offer
  <2> QED
    BY <1>2, <2>1, <2>2 DEF Answer
<1>10. outgoing'[i] = "new" => incoming'[i] = "unknown" /\ i \notin offers'
  <2>1. outgoing'[i] = "new" => ~Offer(i) /\ ~HearOffer(i)
    BY <1>1, <1>2, <1>3 DEF Turn, Offer, HearOffer
  <2> QED
    BY <1>1, <1>2, <1>5, <2>1 DEF Turn, Answer
<1>11. incoming'[i] = "unknown" => approving'[i] = 0
  <2>1. incoming'[i] = "unknown" => incoming[i] = "unknown"
    BY <1>1, <1>2, <1>3 DEF Patch, HearOffer, Approved, ApproveFails, Decline
  <2> QED
    BY <1>1, <1>2, <2>1 DEF Answer, Approve, Approved, ApproveFails, CanAnswer
<1>12. i \in refused' => incoming'[i] = "declined" /\ approving'[i] = 0
  <2>1. CASE i \in refused
    BY <1>1, <1>2, <1>6, <2>1
       DEF Answer, Approve, Approved, ApproveFails, CanAnswer
  <2>2. CASE Decline(i) /\ approving[i] = 0
    BY <1>3, <2>2 DEF Decline
  <2> QED
    BY <1>2, <2>1, <2>2 DEF Answer
<1>13. approving'[i] + requests'[i] <= MaxClicks
  <2>1. CASE Approve(i)
    <3>1. requests[i] = 0 /\ approving[i] < MaxClicks /\ requests' = requests
      BY <1>1, <2>1 DEF Approve, CanAnswer, Unasked, envelopes
    <3>2. approving'[i] = approving[i] + 1
      BY <1>3, <2>1 DEF Approve
    <3> QED
      BY <1>3, <3>1, <3>2
  <2>2. CASE Approved(i)
    BY <1>1, <1>3, <2>2 DEF Approved
  <2>3. CASE ApproveFails(i)
    <3>1. /\ approving'[i] = approving[i] - 1 /\ approving[i] > 0
          /\ requests' = requests
      BY <1>3, <2>3 DEF ApproveFails, envelopes
    <3> QED
      BY <1>1, <1>3, <3>1
  <2>4. CASE HearRequest(i)
    <3>1. /\ requests[i] > 0 /\ requests'[i] = requests[i] - 1
          /\ approving' = approving
      BY <1>3, <2>4 DEF HearRequest, answers
    <3> QED
      BY <1>1, <1>3, <3>1
  <2> QED
    BY <1>1, <1>2, <2>1, <2>2, <2>3, <2>4 DEF Answer
<1> QED
  BY <1>8, <1>9, <1>10, <1>11, <1>12, <1>13
-----------------------------------------------------------------------------
(* How the channel and the downloads go on: the sender puts a message on   *)
(* it, or the receiver goes on.                                            *)
Puts(kind, i) ==
  /\ Put(Message(kind, i)) /\ ~sDropped
  /\ UNCHANGED <<preparing, active, sink, written, readies, rDropped,
                 overtaken>>
  /\ \/ kind = "begin" /\ Begin(i)
     \/ kind = "data" /\ SendFrame(i)
     \/ kind = "end" /\ EndSent(i)
     \/ /\ kind = "abort" /\ SendEnds(i, "failed")
        /\ sendAt[i] \in {"opening", "beginning", "streaming"}

ChannelMove ==
  \/ UNCHANGED <<chan, preparing, active, sink, written, readies, rDropped,
                 overtaken>>
  \/ \E i \in Items, kind \in {"begin", "data", "end", "abort"} : Puts(kind, i)
  \/ \E i \in Items : Receives(i)
  \/ ReceiverLinkCloses

LEMMA SendPuts ==
  ASSUME IInv, NEW i \in Items
  PROVE  /\ Begin(i) => Puts("begin", i)
         /\ SendFrame(i) => Puts("data", i)
         /\ EndSent(i) => Puts("end", i)
         /\ DirectFails(i) /\ ~sDropped => Puts("abort", i)
         /\ SenderLinkCloses /\ ~sDropped' /\ sendAt[i] = "beginning"
              /\ SendEnds(i, "failed") /\ Abort(i) => Puts("abort", i)
<1> USE DEF downloads, wire
<1>1. Begin(i) => Puts("begin", i)
  BY DEF Puts, Begin
<1>2. SendFrame(i) => Puts("data", i)
  BY DEF Puts, SendFrame
<1>3. EndSent(i) => Puts("end", i)
  BY DEF Puts, EndSent
<1>4. DirectFails(i) /\ ~sDropped => Puts("abort", i)
  <2>1. sDropped \in BOOLEAN
    BY DEF IInv, TypeOK
  <2> QED
    BY <2>1 DEF Puts, DirectFails, Abort
<1>5. SenderLinkCloses /\ ~sDropped' /\ sendAt[i] = "beginning"
        /\ SendEnds(i, "failed") /\ Abort(i) => Puts("abort", i)
  BY DEF Puts, SenderLinkCloses, Abort
<1> QED
  BY <1>1, <1>2, <1>3, <1>4, <1>5

LEMMA ChannelMoves ==
  ASSUME IInv, [Next]_vars
  PROVE  ChannelMove
<1> USE DEF downloads, wire
<1>1. ASSUME NEW i \in Items, ItemNext(i) PROVE ChannelMove
  BY <1>1 DEF ChannelMove, ItemNext, Offer, HearOffer, Approve, Approved,
              ApproveFails, Decline, HearRequest, HearReject
<1>2. ASSUME NEW i \in Items, DirectNext(i) PROVE ChannelMove
  <2>1. CASE Begin(i) \/ SendFrame(i) \/ EndSent(i)
    BY <2>1, SendPuts DEF ChannelMove
  <2>2. CASE DirectFails(i)
    <3>1. CASE sDropped
      BY <2>2, <3>1 DEF ChannelMove, DirectFails, Abort
    <3>2. CASE ~sDropped
      BY <2>2, <3>2, SendPuts DEF ChannelMove
    <3> QED
      BY <3>1, <3>2
  <2>3. CASE HearReady(i)
    BY <2>3 DEF ChannelMove, HearReady
  <2> QED
    BY <1>2, <2>1, <2>2, <2>3 DEF ChannelMove, DirectNext, Receives
<1>3. ASSUME NEW t \in Items, RelayNext(t) PROVE ChannelMove
  BY <1>3 DEF ChannelMove, RelayNext, BeginRelayed, RelayAnswers,
              HearSenderReady, Uploaded, UploadFails, HearReceiverReady, Keyed,
              DownloadStarted, DownloadFails, Pairing
<1>4. CASE SenderLinkCloses
  <2>1. CASE UNCHANGED chan
    BY <1>4, <2>1 DEF ChannelMove, SenderLinkCloses
  <2>2. ASSUME NEW i \in Items, sendAt[i] = "beginning",
               SendEnds(i, "failed"), Abort(i), chan' # chan
        PROVE  ChannelMove
    <3>1. Puts("abort", i)
      BY <1>4, <2>2, SendPuts DEF Abort
    <3> QED
      BY <3>1 DEF ChannelMove
  <2> QED
    BY <1>4, <2>1, <2>2 DEF SenderLinkCloses
<1>5. CASE OpenChannel \/ UNCHANGED vars
  BY <1>5 DEF ChannelMove, OpenChannel, vars
<1> QED
  BY <1>1, <1>2, <1>3, <1>4, <1>5 DEF Next, ChannelMove

LEMMA SendEndsOver ==
  ASSUME IInv, NEW i \in Items, NEW state \in {"done", "failed"},
         SendEnds(i, state)
  PROVE  sendAt'[i] = "over"
<1>1. outgoing \in [Items -> Outgoings] /\ sendAt \in [Items -> Places]
  BY DEF IInv, TypeOK, Outgoings, Places
<1>2. Pumped(queued, FALSE, [outgoing EXCEPT ![i] = state],
             [sendAt EXCEPT ![i] = "over"])
  BY SendEndsMoves
<1> QED
  BY <1>1, <1>2 DEF Pumped

(* What is put on the channel is of the item that is being sent.           *)
LEMMA PutsItem ==
  ASSUME IInv, NEW i \in Items, NEW kind, Puts(kind, i)
  PROVE  /\ sendAt[i] \in {"opening", "beginning", "streaming"}
         /\ sendAt'[i] \in {"beginning", "streaming", "over"}
         /\ \A j \in Items \ {i} : sendAt[j] \notin Engaged
         /\ kind = "begin" => sendAt[i] = "opening" /\ sendAt'[i] = "beginning"
         /\ kind = "data" => sendAt[i] = "streaming" /\ sendAt'[i] = "streaming"
         /\ kind = "end" => sendAt[i] = "streaming" /\ left[i] = 0
         /\ kind \in {"end", "abort"} => sendAt'[i] = "over"
<1>1. sendAt \in [Items -> Places]
  BY DEF IInv, TypeOK, Places
<1>2. \A j \in Items \ {i} : sendAt[i] \in Engaged => sendAt[j] \notin Engaged
  BY DEF IInv, Dispatch
<1>3. CASE kind = "begin" /\ Begin(i)
  BY <1>1, <1>2, <1>3 DEF Begin, SendGoesOn, Engaged
<1>4. CASE kind = "data" /\ SendFrame(i)
  BY <1>1, <1>2, <1>4 DEF SendFrame, Engaged
<1>5. CASE kind = "end" /\ EndSent(i)
  <2>1. sendAt'[i] = "over"
    BY <1>5, SendEndsOver DEF EndSent
  <2> QED
    BY <1>2, <1>5, <2>1 DEF EndSent, Engaged
<1>6. CASE /\ kind = "abort" /\ SendEnds(i, "failed")
           /\ sendAt[i] \in {"opening", "beginning", "streaming"}
  <2>1. sendAt'[i] = "over"
    BY <1>6, SendEndsOver
  <2> QED
    BY <1>2, <1>6, <2>1 DEF Engaged
<1> QED
  BY <1>3, <1>4, <1>5, <1>6 DEF Puts

LEMMA LinkTypes ==
  ASSUME IInv
  PROVE  /\ chan \in Seq(Messages) /\ Len(chan) \in Nat
         /\ \A q \in 1..Len(chan) : chan[q] \in Messages
         /\ \A q \in 1..Len(chan) : chan[q].item \in Items
         /\ None \notin Items /\ Frames \in Nat
         /\ preparing \in Items \cup {None} /\ active \in Items \cup {None}
         /\ sink \in [Items -> {"none", "open", "closed", "aborted"}]
         /\ written \in [Items -> Seq(Items \X (1..Frames))]
         /\ left \in [Items -> 0..Frames] /\ sendAt \in [Items -> Places]
         /\ sDropped \in BOOLEAN /\ rDropped \in BOOLEAN
<1>1. /\ chan \in Seq(Messages)
      /\ preparing \in Items \cup {None} /\ active \in Items \cup {None}
      /\ sink \in [Items -> {"none", "open", "closed", "aborted"}]
      /\ written \in [Items -> Seq(Items \X (1..Frames))]
      /\ left \in [Items -> 0..Frames] /\ sendAt \in [Items -> Places]
      /\ sDropped \in BOOLEAN /\ rDropped \in BOOLEAN
  BY DEF IInv, TypeOK, Messages, Places
<1>2. Len(chan) \in Nat /\ \A q \in 1..Len(chan) : chan[q] \in Messages
  BY <1>1
<1>3. None \notin Items /\ Frames \in Nat
  BY BoundsAssumption DEF Items
<1>4. \A m \in Messages : m.item \in Items
  BY DEF Messages
<1> QED
  BY <1>1, <1>2, <1>3, <1>4

(* An item stays unseen until its send begins, ends or is aborted.         *)
LEMMA SeenMoves ==
  ASSUME IInv, [Next]_vars, NEW i \in Items, Unseen(i)
  PROVE  \/ Unseen(i)'
         \/ /\ sendAt[i] \in {"opening", "beginning", "streaming"}
            /\ sendAt'[i] \in {"beginning", "streaming", "over"}
<1> SUFFICES ASSUME ~(/\ sendAt[i] \in {"opening", "beginning", "streaming"}
                      /\ sendAt'[i] \in {"beginning", "streaming", "over"})
             PROVE  Unseen(i)'
  OBVIOUS
<1> USE DEF Unseen, wire, downloads
<1>1. /\ chan \in Seq(Messages) /\ Len(chan) \in Nat /\ i # None
      /\ sink \in [Items -> {"none", "open", "closed", "aborted"}]
  BY LinkTypes
<1>2. CASE UNCHANGED <<chan, preparing, active, sink, written, readies,
                       rDropped, overtaken>>
  BY <1>2
<1>3. ASSUME NEW j \in Items, NEW kind, Puts(kind, j) PROVE Unseen(i)'
  <2>1. j # i
    BY <1>3, PutsItem
  <2> DEFINE m == Message(kind, j)
  <2>2. m.item # i
    BY <2>1 DEF Message
  <2>3. /\ chan' = IF rDropped THEN chan ELSE Append(chan, m)
        /\ UNCHANGED <<preparing, active, sink, readies>>
    BY <1>3 DEF Puts, Put
  <2> HIDE DEF m
  <2>4. \A q \in 1..Len(Append(chan, m)) : Append(chan, m)[q].item # i
    BY <1>1, <2>2
  <2> QED
    BY <2>3, <2>4
<1>4. ASSUME NEW j \in Items, Receives(j) PROVE Unseen(i)'
  <2>1. ASSUME Takes(j) PROVE Unseen(i)'
    <3>1. /\ chan # <<>> /\ chan' = Tail(chan) /\ readies' = readies
          /\ Head(chan).item = j
      BY <2>1 DEF Takes, TakeBegin, TakeData, TakeDataFails, TakeEnd,
                  TakeAbort, Take
    <3>2. j # i
      BY <1>1, <3>1, HeadTailProperties
    <3>3. \A q \in 1..Len(chan') : chan'[q].item # i
      BY <1>1, <3>1
    <3>4. preparing' # i /\ active' # i /\ sink'[i] = sink[i]
      <4>1. CASE TakeDataFails(j)
        <5>1. Finish(active, "aborted", "failed") /\ preparing' = preparing
          BY <4>1 DEF TakeDataFails
        <5> QED
          BY <1>1, <4>1, <5>1, LinkTypes DEF TakeDataFails, Finish
      <4>2. CASE ~TakeDataFails(j)
        BY <1>1, <2>1, <3>2, <4>2
           DEF Takes, TakeBegin, TakeData, TakeEnd, TakeAbort, Finish
      <4> QED
        BY <4>1, <4>2
    <3> QED
      BY <3>1, <3>3, <3>4
  <2>2. ASSUME Prepared(j) \/ PrepareFails(j) PROVE Unseen(i)'
    BY <1>1, <2>2 DEF Prepared, PrepareFails
  <2> QED
    BY <1>4, <2>1, <2>2 DEF Receives, Takes
<1>5. CASE ReceiverLinkCloses
  <2>1. \A q \in 1..Len(chan') : chan'[q].item # i
    <3>1. ASSUME NEW k \in 0..Len(chan)
          PROVE  \A q \in 1..Len(SubSeq(chan, 1, k)) :
                   SubSeq(chan, 1, k)[q].item # i
      BY <1>1
    <3>2. chan' = chan \/ \E k \in 0..Len(chan) : chan' = SubSeq(chan, 1, k)
      BY <1>5 DEF ReceiverLinkCloses
    <3> QED
      BY <3>1, <3>2
  <2>2. /\ preparing' # i /\ active' # i /\ sink'[i] = sink[i]
        /\ readies' = readies
    BY <1>1, <1>5 DEF ReceiverLinkCloses, Finish
  <2> QED
    BY <2>1, <2>2
<1> QED
  BY <1>2, <1>3, <1>4, <1>5, ChannelMoves DEF ChannelMove

(* How a relayed transfer goes on.                                         *)
Leg(i) ==
  \/ /\ i \in begins' => i \in begins
     /\ i \in receiverReady' => i \in receiverReady
     /\ readyAt'[i] = readyAt[i]
  \/ BeginRelayed(i) \/ RelayAnswers(i) \/ HearReceiverReady(i)
  \/ /\ begins' = begins /\ receiverReady' = receiverReady
     /\ readyAt[i] # "idle" /\ readyAt'[i] # "idle"

LEMMA Legs ==
  ASSUME IInv, [Next]_vars, NEW i \in Items
  PROVE  Leg(i)
<1> USE DEF relay, pairing
<1>1. readyAt \in [Items -> {"idle", "keying", "starting", "over"}]
  BY DEF IInv, TypeOK
<1>2. ASSUME NEW t \in Items, RelayNext(t) PROVE Leg(i)
  <2>1. CASE Keyed(t) \/ DownloadStarted(t) \/ DownloadFails(t)
    BY <1>1, <2>1 DEF Leg, Keyed, DownloadStarted, DownloadFails, Pairing
  <2>2. CASE BeginRelayed(t)
    BY <2>2 DEF Leg, BeginRelayed
  <2>3. CASE RelayAnswers(t)
    BY <2>3 DEF Leg, RelayAnswers
  <2>4. CASE HearReceiverReady(t)
    BY <1>1, <2>4 DEF Leg, HearReceiverReady
  <2>5. CASE HearSenderReady(t) \/ Uploaded(t) \/ UploadFails(t)
    BY <2>5 DEF Leg, HearSenderReady, Uploaded, UploadFails
  <2> QED
    BY <1>2, <2>1, <2>2, <2>3, <2>4, <2>5 DEF RelayNext
<1>3. CASE UNCHANGED <<begins, receiverReady, readyAt>>
  BY <1>3 DEF Leg
<1>4. ASSUME NEW j \in Items, ItemNext(j)
      PROVE  UNCHANGED <<begins, receiverReady, readyAt>>
  BY <1>4 DEF ItemNext, Offer, HearOffer, Approve, Approved,
              ApproveFails, Decline, HearRequest, HearReject
<1>5. ASSUME NEW j \in Items, DirectNext(j)
      PROVE  UNCHANGED <<begins, receiverReady, readyAt>>
  <2>1. CASE Receives(j)
    BY <2>1, ReceiverFrame
  <2> QED
    BY <1>5, <2>1 DEF DirectNext, Receives, Begin, HearReady, SendFrame,
                      EndSent, DirectFails
<1>6. CASE OpenChannel \/ SenderLinkCloses \/ UNCHANGED vars
  BY <1>3, <1>6 DEF OpenChannel, SenderLinkCloses, vars
<1>7. CASE ReceiverLinkCloses
  BY <1>3, <1>7, ReceiverFrame
<1> QED
  BY <1>2, <1>3, <1>4, <1>5, <1>6, <1>7 DEF Next

(* An item goes one way.                                                   *)
LEMMA WaysStep ==
  ASSUME IInv, [Next]_vars
  PROVE  Ways'
<1> SUFFICES ASSUME NEW i \in Items
             PROVE  /\ sendAt'[i] \in {"idle", "opening", "relaying",
                                       "uploading"} => Unseen(i)'
                    /\ Relayed(i)' =>
                         /\ Unseen(i)'
                         /\ sendAt'[i] \in {"relaying", "uploading", "over"}
                    /\ i \in begins' => i \notin receiverReady'
                    /\ i \in begins' \cup receiverReady' => readyAt'[i] = "idle"
                    /\ readyAt'[i] # "idle" => pairedWith'[i] # None
  BY DEF Ways
<1>1. /\ sendAt[i] \in {"idle", "opening", "relaying", "uploading"} => Unseen(i)
      /\ Relayed(i) =>
           Unseen(i) /\ sendAt[i] \in {"relaying", "uploading", "over"}
      /\ i \in begins => i \notin receiverReady
      /\ i \in begins \cup receiverReady => readyAt[i] = "idle"
      /\ readyAt[i] # "idle" => pairedWith[i] # None
  BY DEF IInv, Ways
<1>2. Turn(i) /\ Leg(i)
  BY Turns, Legs
<1>3. /\ sendAt \in [Items -> Places] /\ None \notin Items
      /\ pairedWith \in [Items -> Items \cup {None}]
      /\ readyAt \in [Items -> {"idle", "keying", "starting", "over"}]
  BY BoundsAssumption DEF IInv, TypeOK, Places, Items
<1>4. Unseen(i) => \/ Unseen(i)'
                   \/ /\ sendAt[i] \in {"opening", "beginning", "streaming"}
                      /\ sendAt'[i] \in {"beginning", "streaming", "over"}
  BY SeenMoves
<1>5. /\ sendAt'[i] \in {"idle", "opening", "relaying", "uploading"} =>
           sendAt[i] \in {"idle", "opening", "relaying", "uploading"}
      /\ sendAt[i] \in {"relaying", "uploading", "over"} =>
           sendAt'[i] \in {"relaying", "uploading", "over"}
  BY <1>2, <1>3
     DEF Turn, Begin, HearReady, BeginRelayed, SendGoesOn, Engaged
<1>6. ASSUME BeginRelayed(i)
      PROVE  /\ sendAt[i] = "opening" /\ sendAt'[i] = "relaying" /\ ~Relayed(i)
             /\ i \notin receiverReady' /\ readyAt'[i] = readyAt[i]
  BY <1>1, <1>3, <1>6 DEF BeginRelayed, SendGoesOn, Relayed, pairing
<1>7. Relayed(i)' => Relayed(i) \/ BeginRelayed(i)
  BY <1>2 DEF Leg, Relayed, RelayAnswers, HearReceiverReady
<1>8. /\ i \in begins' => i \notin receiverReady'
      /\ i \in begins' \cup receiverReady' => readyAt'[i] = "idle"
  BY <1>1, <1>2, <1>6 DEF Leg, Relayed, RelayAnswers, HearReceiverReady, pairing
<1>9. readyAt'[i] # "idle" => pairedWith'[i] # None
  <2>1. CASE readyAt[i] # "idle"
    BY <1>1, <1>3, <2>1, PairingMoves
  <2>2. CASE readyAt[i] = "idle" /\ readyAt'[i] # "idle"
    <3>1. HearReceiverReady(i) /\ ApprovedItems # <<>>
      BY <1>2, <2>2 DEF Leg, BeginRelayed, RelayAnswers, HearReceiverReady,
                        pairing
    <3>2. pairedWith'[i] = Head(ApprovedItems)
      BY <1>3, <3>1 DEF HearReceiverReady
    <3>3. Head(ApprovedItems) \in Items
      BY <3>1, ApprovedHead
    <3> QED
      BY <1>3, <3>2, <3>3
  <2> QED
    BY <2>1, <2>2
<1> QED
  BY <1>1, <1>4, <1>5, <1>6, <1>7, <1>8, <1>9
-----------------------------------------------------------------------------
(* What is put on the channel goes on where the channel is.                *)
LEMMA PutsFollow ==
  ASSUME IInv, NEW i \in Items, NEW kind, Puts(kind, i), ~rDropped
  PROVE  /\ Before(Len(chan) + 1) \in {i, None}
         /\ kind = "begin" => Before(Len(chan) + 1) = None /\ Unseen(i)
<1>1. Streaming /\ Joined
  BY DEF IInv, Puts, Joined
<1>2. Before(Len(chan) + 1) # None =>
        sendAt[Before(Len(chan) + 1)] \in {"beginning", "streaming"}
  BY <1>1 DEF Streaming
<1>3. Before(Len(chan) + 1) \in Items \cup {None}
  <2>1. Len(chan) + 1 # 1 => Len(chan) \in 1..Len(chan)
    BY LinkTypes
  <2>2. (Len(chan) + 1) - 1 = Len(chan)
    BY LinkTypes
  <2> QED
    BY <2>1, <2>2, LinkTypes DEF Before
<1>4. /\ \A j \in Items \ {i} : sendAt[j] \notin Engaged
      /\ kind = "begin" => sendAt[i] = "opening"
  BY PutsItem
<1>5. sendAt[i] = "opening" => Unseen(i)
  BY DEF IInv, Ways
<1> QED
  BY <1>2, <1>3, <1>4, <1>5 DEF Engaged

LEMMA LinkedPuts ==
  ASSUME IInv, NEW i \in Items, NEW kind, Puts(kind, i)
  PROVE  Linked'
<1> DEFINE n == Len(chan)
           m == Message(kind, i)
<1>1. Linked
  BY DEF IInv
<1>2. /\ UNCHANGED <<preparing, active, sink, written>>
      /\ chan' = IF rDropped THEN chan ELSE Append(chan, m)
  BY DEF Puts, Put
<1>3. CASE rDropped
  BY <1>1, <1>2, <1>3 DEF Linked, Follows, Before
<1>4. CASE ~rDropped
  <2>1. m.t = kind /\ m.item = i /\ m.n = left[i]
    BY DEF Message
  <2> HIDE DEF m
  <2>2. /\ Len(chan') = n + 1 /\ chan'[n + 1] = m /\ n \in Nat
        /\ \A q \in 1..n : chan'[q] = chan[q]
    BY <1>2, <1>4, LinkTypes
  <2>3. \A q \in 1..n + 1 : Before(q)' = Before(q)
    <3> SUFFICES ASSUME NEW q \in 1..n + 1 PROVE Before(q)' = Before(q)
      OBVIOUS
    <3>1. q # 1 => q - 1 \in 1..n
      BY <2>2
    <3> QED
      BY <1>2, <2>2, <3>1 DEF Before
  <2>4. ASSUME NEW q \in 1..n PROVE Follows(q)'
    <3>1. /\ Follows(q) /\ chan'[q] = chan[q]
          /\ q # 1 => chan'[q - 1] = chan[q - 1]
      BY <1>1, <2>2 DEF Linked
    <3>2. ASSUME chan[q].t = "begin"
          PROVE  \A p \in 1..n + 1 :
                   chan'[p].t = "begin" /\ chan'[p].item = chan[q].item => p = q
      <4>1. kind = "begin" => chan[q].item # i
        BY <1>4, PutsFollow DEF Unseen
      <4> QED
        BY <2>1, <2>2, <3>1, <3>2, <4>1 DEF Follows
    <3>3. Before(q)' = Before(q)
      BY <2>2, <2>3
    <3> QED
      BY <1>2, <2>2, <3>1, <3>2, <3>3 DEF Follows
  <2>5. ASSUME NEW q \in 1..n + 1, q = n + 1
        PROVE  Follows(q)'
    <3>1. /\ Before(n + 1) \in {i, None}
          /\ kind = "begin" => Before(n + 1) = None /\ Unseen(i)
      BY <1>4, PutsFollow
    <3>2. Before(q)' = Before(n + 1)
      BY <2>3, <2>5
    <3>3. ASSUME kind = "begin"
          PROVE  \A p \in 1..n + 1 :
                   chan'[p].t = "begin" /\ chan'[p].item = i => p = n + 1
      BY <2>2, <3>1, <3>3 DEF Unseen
    <3>4. /\ kind = "data" => left[i] >= 1
          /\ kind = "end" => left[i] = 0
      BY LinkTypes DEF Puts, SendFrame, MoreToSend, EndSent
    <3>5. ASSUME kind \in {"data", "end"}
          PROVE  IF n = 0
                 THEN preparing = None /\
                      (active = i => Len(written[active]) = Frames - left[i])
                 ELSE /\ chan[n].t = "data" /\ chan[n].item = i
                      /\ chan[n].n = left[i] + 1
      <4>1. sendAt[i] = "streaming" /\ Joined /\ Streaming
        BY <1>4, <3>5, PutsItem DEF IInv, Joined, Puts
      <4>2. IF chan = <<>>
            THEN /\ preparing = None
                 /\ active = i => Len(written[i]) = Frames - left[i]
            ELSE /\ chan[n].t = "data" /\ chan[n].item = i
                 /\ chan[n].n = left[i] + 1
        BY <4>1 DEF Streaming
      <4>3. n = 0 <=> chan = <<>>
        BY LinkTypes
      <4> QED
        BY <4>2, <4>3
    <3>6. /\ q = 1 <=> n = 0
          /\ q - 1 = n /\ (n # 0 => chan'[n] = chan[n])
      BY <2>2, <2>5
    <3>7. chan'[q] = m /\ Len(chan') = n + 1
      BY <2>2, <2>5
    <3>8. CASE kind = "begin"
      <4>1. sink[i] = "none" /\ preparing # i
        BY <3>1, <3>8 DEF Unseen
      <4> QED
        BY <1>2, <2>1, <2>5, <3>1, <3>2, <3>3, <3>7, <3>8, <4>1 DEF Follows
    <3>9. CASE kind = "abort"
      BY <2>1, <3>1, <3>2, <3>7, <3>9 DEF Follows
    <3>10. CASE kind \in {"data", "end"}
      <4>1. IF q = 1
            THEN preparing = None /\
                 (active = i => Len(written[active]) = Frames - left[i])
            ELSE /\ chan'[q - 1].t = "data" /\ chan'[q - 1].item = i
                 /\ chan'[q - 1].n = left[i] + 1
        BY <3>5, <3>6, <3>10
      <4> QED
        BY <1>2, <2>1, <3>1, <3>2, <3>4, <3>7, <3>10, <4>1 DEF Follows
    <3> QED
      BY <3>8, <3>9, <3>10 DEF Puts
  <2>6. ASSUME NEW q \in 1..n + 1 PROVE Follows(q)'
    <3>1. q \in 1..n \/ q = n + 1
      BY <2>2
    <3> QED
      BY <2>4, <2>5, <3>1
  <2> QED
    BY <2>2, <2>6 DEF Linked
<1> QED
  BY <1>3, <1>4

(* The receiver takes d messages off the channel, or loses its end.        *)
LEMMA LinkedAdvances ==
  ASSUME IInv, NEW d \in {0, 1}, NEW m \in Nat,
         Len(chan') = m, m + d <= Len(chan),
         \A q \in 1..m : chan'[q] = chan[q + d],
         \A q \in 1..m : chan'[q].t = "begin" =>
           sink'[chan'[q].item] = "none" /\ preparing' # chan'[q].item,
         Before(1)' \in {Before(d + 1), None},
         m >= 1 /\ chan'[1].t \in {"data", "end"} =>
           /\ preparing' = None
           /\ active' = chan'[1].item =>
                Len(written'[active']) = Frames - chan'[1].n
  PROVE  Linked'
<1> SUFFICES ASSUME NEW q \in 1..m PROVE Follows(q)'
  BY DEF Linked
<1>1. Linked /\ Len(chan) \in Nat
  BY LinkTypes DEF IInv
<1>2. q + d \in 1..Len(chan) /\ (q + d = 1 => q = 1)
  BY <1>1
<1>3. Follows(q + d) /\ chan'[q] = chan[q + d]
  BY <1>1, <1>2 DEF Linked
<1>4. q # 1 => chan'[q - 1] = chan[(q + d) - 1]
  <2> SUFFICES ASSUME q # 1 PROVE chan'[q - 1] = chan[(q + d) - 1]
    OBVIOUS
  <2>1. q - 1 \in 1..m /\ (q - 1) + d = (q + d) - 1
    OBVIOUS
  <2> QED
    BY <2>1
<1>5. Before(q)' \in {Before(q + d), None}
  <2>1. CASE q = 1
    BY <2>1
  <2>2. CASE q # 1
    BY <1>2, <1>4, <2>2 DEF Before
  <2> QED
    BY <2>1, <2>2
<1>6. ASSUME chan'[q].t = "begin"
      PROVE  \A p \in 1..Len(chan') :
               chan'[p].t = "begin" /\ chan'[p].item = chan'[q].item => p = q
  <2> SUFFICES ASSUME NEW p \in 1..m, chan'[p].t = "begin",
                      chan'[p].item = chan'[q].item
               PROVE  p = q
    OBVIOUS
  <2>1. p + d \in 1..Len(chan) /\ chan'[p] = chan[p + d]
    BY <1>1
  <2>2. p + d = q + d
    BY <1>3, <1>6, <2>1 DEF Follows
  <2> QED
    BY <2>2
<1>7. /\ chan'[q].t # "begin" => Before(q)' \in {chan'[q].item, None}
      /\ chan'[q].t = "begin" => Before(q)' = None
      /\ chan'[q].t = "data" => chan'[q].n >= 1
      /\ chan'[q].t = "end" => chan'[q].n = 0
  BY <1>3, <1>5 DEF Follows
<1>8. ASSUME q # 1, chan'[q].t \in {"data", "end"}
      PROVE  /\ chan'[q - 1].t = "data" /\ chan'[q - 1].item = chan'[q].item
             /\ chan'[q - 1].n = chan'[q].n + 1
  BY <1>2, <1>3, <1>4, <1>8 DEF Follows
<1> QED
  BY <1>6, <1>7, <1>8 DEF Follows

(* What the receiver takes off the channel is of the item it is at.        *)
LEMMA TakesNext ==
  ASSUME IInv, NEW i \in Items, Takes(i)
  PROVE  /\ Len(chan) \in Nat /\ Len(chan) >= 1 /\ chan[1].item = i
         /\ Len(chan') = Len(chan) - 1
         /\ \A q \in 1..Len(chan) - 1 : chan'[q] = chan[q + 1]
         /\ Follows(1) /\ (Len(chan) > 1 => Follows(2))
         /\ preparing = None /\ active = Before(1) /\ active \in {i, None}
         /\ TakeBegin(i) => chan[1].t = "begin" /\ active = None
         /\ TakeData(i) => chan[1].t = "data"
         /\ TakeDataFails(i) => chan[1].t = "data" /\ active = i
         /\ TakeEnd(i) => chan[1].t = "end"
         /\ TakeAbort(i) => chan[1].t = "abort"
<1>1. /\ chan # <<>> /\ chan' = Tail(chan) /\ Head(chan).item = i
      /\ preparing = None
      /\ TakeBegin(i) => Head(chan).t = "begin"
      /\ TakeData(i) => Head(chan).t = "data"
      /\ TakeDataFails(i) => Head(chan).t = "data" /\ active # None
      /\ TakeEnd(i) => Head(chan).t = "end"
      /\ TakeAbort(i) => Head(chan).t = "abort"
  BY DEF Takes, TakeBegin, TakeData, TakeDataFails, TakeEnd, TakeAbort, Take
<1>2. /\ Len(chan) \in Nat /\ Len(chan) >= 1 /\ Head(chan) = chan[1]
      /\ Len(chan') = Len(chan) - 1
      /\ \A q \in 1..Len(chan) - 1 : chan'[q] = chan[q + 1]
  BY <1>1, LinkTypes
<1>3. Follows(1) /\ (Len(chan) > 1 => Follows(2))
  BY <1>2 DEF IInv, Linked
<1>4. active = Before(1)
  BY <1>1 DEF Before
<1>5. active \in {i, None} /\ (TakeBegin(i) => active = None)
  <2>1. /\ chan[1].t = "begin" => Before(1) = None
        /\ chan[1].t # "begin" => Before(1) \in {chan[1].item, None}
    BY <1>3 DEF Follows
  <2> QED
    BY <1>1, <1>2, <1>4, <2>1
<1> QED
  BY <1>1, <1>2, <1>3, <1>4, <1>5

LEMMA LinkedTakes ==
  ASSUME IInv, NEW i \in Items, Takes(i)
  PROVE  Linked'
<1>1. PICK m \in Nat : m = Len(chan) - 1
  BY TakesNext
<1>2. /\ Len(chan) = m + 1 /\ chan[1].item = i /\ Len(chan') = m
      /\ \A q \in 1..m : chan'[q] = chan[q + 1]
      /\ Follows(1) /\ (m >= 1 => Follows(2))
      /\ preparing = None /\ active = Before(1) /\ active \in {i, None}
  BY <1>1, TakesNext
<1>3. ASSUME NEW q \in 1..m
      PROVE  /\ chan'[q].item \in Items
             /\ chan'[q].t = "begin" => sink[chan'[q].item] = "none"
             /\ chan'[q].t = "begin" /\ chan[1].t = "begin" => chan'[q].item # i
  <2>1. q + 1 \in 1..Len(chan) /\ 1 \in 1..Len(chan) /\ q + 1 # 1
    BY <1>2
  <2>2. Follows(q + 1) /\ chan'[q] = chan[q + 1]
    BY <1>2, <2>1 DEF IInv, Linked
  <2> QED
    BY <1>2, <2>1, <2>2, LinkTypes DEF Follows
<1>4. m >= 1 => /\ 1 \in 1..m /\ chan'[1] = chan[2]
                /\ Before(2) = IF chan[1].t \in {"begin", "data"} THEN i
                               ELSE None
                /\ chan[2].t \in {"data", "end"} =>
                     chan[1].t = "data" /\ chan[1].n = chan[2].n + 1
                /\ chan[2].item \in Items
  BY <1>2, <1>3 DEF Before, Follows
<1>5. /\ sink \in [Items -> {"none", "open", "closed", "aborted"}]
      /\ None \notin Items /\ (active # None => sink[active] = "open")
  BY LinkTypes DEF IInv, Downloads
<1> DEFINE A == \A q \in 1..m : chan'[q].t = "begin" =>
                  sink'[chan'[q].item] = "none" /\ preparing' # chan'[q].item
           B == Before(1)' \in {Before(2), None}
           C == m >= 1 /\ chan'[1].t \in {"data", "end"} =>
                  /\ preparing' = None
                  /\ active' = chan'[1].item =>
                       Len(written'[active']) = Frames - chan'[1].n
<1>6. CASE TakeBegin(i)
  <2>1. /\ chan[1].t = "begin" /\ active = None /\ preparing' \in {i, None}
        /\ UNCHANGED <<active, sink>>
    BY <1>6, TakesNext DEF TakeBegin
  <2>2. A
    BY <1>2, <1>3, <1>5, <2>1
  <2>3. B
    BY <1>2, <2>1 DEF Before
  <2>4. C
    BY <1>2, <1>4, <2>1
  <2> QED
    BY <1>2, <2>2, <2>3, <2>4, LinkedAdvances
<1>7. CASE TakeData(i)
  <2>1. /\ chan[1].t = "data" /\ UNCHANGED <<active, sink, preparing>>
    BY <1>7, TakesNext DEF TakeData
  <2>2. A
    BY <1>2, <1>3, <1>5, <2>1
  <2>3. B
    BY <1>2, <2>1 DEF Before
  <2>4. C
    <3> SUFFICES ASSUME m >= 1, chan[2].t \in {"data", "end"},
                        active = chan[2].item
                 PROVE  Len(written'[active]) = Frames - chan[2].n
      BY <1>2, <1>4, <2>1
    <3>1. active = i /\ chan[1].n = chan[2].n + 1
      BY <1>2, <1>4, <1>5
    <3>2. Len(written[i]) = Frames - chan[1].n
      BY <1>2, <2>1, <3>1 DEF Follows
    <3>3. \E frame : written' = [written EXCEPT ![i] = Append(@, frame)]
      BY <1>5, <1>7, <3>1 DEF TakeData
    <3>4. Len(written'[i]) = Len(written[i]) + 1
      BY <3>3, LinkTypes
    <3>5. chan[2].n \in 0..Frames
      <4>1. 2 \in 1..Len(chan)
        BY <1>2
      <4>2. chan[2] \in Messages
        BY <4>1, LinkTypes
      <4> QED
        BY <4>2 DEF Messages
    <3>6. \A n \in 0..Frames : (Frames - (n + 1)) + 1 = Frames - n
      BY LinkTypes
    <3> QED
      BY <3>1, <3>2, <3>4, <3>5, <3>6
  <2> QED
    BY <1>2, <2>2, <2>3, <2>4, LinkedAdvances
<1>8. CASE TakeDataFails(i) \/ TakeEnd(i) \/ TakeAbort(i)
  <2>1. /\ chan[1].t # "begin" /\ preparing' = preparing /\ active' = None
        /\ \A j \in Items : sink[j] = "none" => sink'[j] = "none"
    <3>1. chan[1].t # "begin" /\ preparing' = preparing
      BY <1>8, TakesNext DEF TakeDataFails, TakeEnd, TakeAbort
    <3>2. CASE active = i
      BY <1>5, <1>8, <3>1, <3>2 DEF TakeDataFails, TakeEnd, TakeAbort, Finish
    <3>3. CASE active = None
      BY <1>5, <1>8, <3>1, <3>3 DEF TakeDataFails, TakeEnd, TakeAbort
    <3> QED
      BY <1>2, <3>1, <3>2, <3>3
  <2>2. A
    BY <1>2, <1>3, <1>5, <2>1
  <2>3. B
    BY <1>2, <2>1 DEF Before
  <2>4. C
    BY <1>2, <1>4, <1>5, <2>1
  <2> QED
    BY <1>2, <2>2, <2>3, <2>4, LinkedAdvances
<1> QED
  BY <1>6, <1>7, <1>8 DEF Takes

LEMMA LinkedPrepares ==
  ASSUME IInv, NEW i \in Items, Prepared(i) \/ PrepareFails(i)
  PROVE  Linked'
<1>1. PICK m \in Nat : m = Len(chan)
  BY LinkTypes
<1>2. /\ Linked /\ preparing = i /\ active = None /\ i # None
      /\ preparing' = None /\ chan' = chan /\ active' \in {i, None}
      /\ Len(chan') = m /\ m + 0 <= Len(chan)
      /\ \A q \in 1..m : chan'[q] = chan[q + 0] /\ chan[q].item \in Items
      /\ \A j \in Items \ {i} : sink'[j] = sink[j]
  <2>1. preparing = i /\ preparing' = None /\ chan' = chan
    BY DEF Prepared, PrepareFails, wire
  <2>2. Linked /\ active = None /\ i # None
    BY <2>1, LinkTypes DEF IInv, Downloads
  <2>3. active' \in {i, None} /\ \A j \in Items \ {i} : sink'[j] = sink[j]
    BY <2>2, LinkTypes DEF Prepared, PrepareFails
  <2>4. /\ Len(chan') = m /\ m + 0 <= Len(chan)
        /\ \A q \in 1..m : chan'[q] = chan[q + 0] /\ chan[q].item \in Items
    BY <1>1, <2>1, LinkTypes
  <2> QED
    BY <2>1, <2>2, <2>3, <2>4
<1>3. \A q \in 1..m : chan'[q].t = "begin" =>
        sink'[chan'[q].item] = "none" /\ preparing' # chan'[q].item
  <2>1. \A q \in 1..m : Follows(q)
    BY <1>1, <1>2 DEF Linked
  <2>2. \A q \in 1..m : chan[q].t = "begin" =>
          sink[chan[q].item] = "none" /\ chan[q].item # i
    BY <1>2, <2>1 DEF Follows
  <2> QED
    BY <1>2, <2>2, LinkTypes
<1>4. Before(1)' \in {Before(0 + 1), None}
  BY <1>2 DEF Before
<1>5. ~(m >= 1 /\ chan'[1].t \in {"data", "end"})
  BY <1>1, <1>2 DEF Linked, Follows
<1> QED
  BY <1>2, <1>3, <1>4, <1>5, LinkedAdvances

LEMMA LinkedCloses ==
  ASSUME IInv, ReceiverLinkCloses
  PROVE  Linked'
<1>1. PICK m \in Nat :
        /\ Len(chan') = m /\ m + 0 <= Len(chan)
        /\ \A q \in 1..m : chan'[q] = chan[q + 0] /\ chan'[q] = chan[q]
  <2>1. CASE chan' = chan
    BY <2>1, LinkTypes
  <2>2. ASSUME NEW k \in 0..Len(chan), chan' = SubSeq(chan, 1, k)
        PROVE  \E m \in Nat :
                 /\ Len(chan') = m /\ m + 0 <= Len(chan)
                 /\ \A q \in 1..m : chan'[q] = chan[q + 0] /\ chan'[q] = chan[q]
    <3>1. /\ Len(chan') = k /\ k \in Nat /\ k + 0 <= Len(chan)
          /\ \A q \in 1..k : chan'[q] = chan[q + 0] /\ chan'[q] = chan[q]
      BY <2>2, LinkTypes
    <3> QED
      BY <3>1
  <2> QED
    BY <2>1, <2>2 DEF ReceiverLinkCloses
<1>2. /\ Linked /\ None \notin Items /\ preparing' = preparing /\ active' = None
      /\ active # None => preparing = None /\ sink[active] = "open"
      /\ \A j \in Items : sink[j] = "none" => sink'[j] = "none"
      /\ \A q \in 1..m : chan[q].item \in Items /\ q \in 1..Len(chan)
  <2>1. /\ active # None => preparing = None /\ sink[active] = "open"
        /\ sink \in [Items -> {"none", "open", "closed", "aborted"}]
    BY LinkTypes DEF IInv, Downloads
  <2>2. \A q \in 1..m : chan[q].item \in Items /\ q \in 1..Len(chan)
    BY <1>1, LinkTypes
  <2> QED
    BY <2>1, <2>2, LinkTypes DEF IInv, ReceiverLinkCloses, Finish
<1>3. \A q \in 1..m : chan'[q].t = "begin" =>
        sink'[chan'[q].item] = "none" /\ preparing' # chan'[q].item
  BY <1>1, <1>2 DEF Linked, Follows
<1>4. Before(1)' \in {Before(0 + 1), None}
  BY <1>2 DEF Before
<1>5. m >= 1 /\ chan'[1].t \in {"data", "end"} =>
        /\ preparing' = None
        /\ active' = chan'[1].item =>
             Len(written'[active']) = Frames - chan'[1].n
  <2> SUFFICES ASSUME m >= 1, chan'[1].t \in {"data", "end"}
               PROVE  preparing' = None /\ active' # chan'[1].item
    OBVIOUS
  <2>1. 1 \in 1..m /\ chan'[1] = chan[1] /\ Follows(1) /\ chan[1].item # None
    BY <1>1, <1>2 DEF Linked
  <2> QED
    BY <1>2, <2>1 DEF Follows
<1> QED
  BY <1>1, <1>2, <1>3, <1>4, <1>5, LinkedAdvances

(* The channel keeps its order.                                            *)
LEMMA LinkedStep ==
  ASSUME IInv, [Next]_vars
  PROVE  Linked'
<1>1. CASE UNCHANGED <<chan, preparing, active, sink, written, readies,
                       rDropped, overtaken>>
  BY <1>1 DEF IInv, Linked, Follows, Before
<1>2. ASSUME NEW i \in Items, Receives(i)
      PROVE  Linked'
  BY <1>2, LinkedTakes, LinkedPrepares DEF Receives, Takes
<1> QED
  BY <1>1, <1>2, LinkedPuts, LinkedCloses, ChannelMoves DEF ChannelMove
-----------------------------------------------------------------------------
(* The end of the download that is active.                                 *)
LEMMA FinishDownloads ==
  ASSUME IInv, NEW i \in Items, active = i,
         NEW how \in {"closed", "aborted"}, NEW state, Finish(i, how, state),
         how = "closed" => Len(written[i]) = Frames,
         UNCHANGED <<preparing, readies, overtaken>>
  PROVE  Downloads'
<1>1. /\ Downloads /\ None \notin Items /\ preparing = None
      /\ sink \in [Items -> {"none", "open", "closed", "aborted"}]
      /\ written \in [Items -> Seq(Items \X (1..Frames))]
      /\ sink[i] = "open"
  <2>1. Downloads /\ None \notin Items
    BY LinkTypes DEF IInv
  <2>2. preparing = None /\ sink[i] = "open"
    BY <2>1 DEF Downloads
  <2> QED
    BY <2>1, <2>2, LinkTypes
<1>2. /\ active' = None /\ preparing' = None /\ readies' = readies
      /\ overtaken' = overtaken /\ sink'[i] = how
      /\ \A j \in Items \ {i} : sink'[j] = sink[j] /\ written'[j] = written[j]
      /\ \/ how = "closed" /\ written'[i] = written[i]
         \/ how = "aborted" /\ written'[i] = <<>>
  BY <1>1 DEF Finish
<1>3. ASSUME NEW j \in Items
      PROVE  /\ \A k \in 1..Len(written'[j]) : written'[j][k] = <<j, k>>
             /\ sink'[j] = "closed" => Len(written'[j]) = Frames
             /\ sink'[j] = "open" => j \in overtaken'
  <2>1. /\ \A k \in 1..Len(written[j]) : written[j][k] = <<j, k>>
        /\ sink[j] = "closed" => Len(written[j]) = Frames
        /\ sink[j] = "open" => active = j \/ j \in overtaken
    BY <1>1 DEF Downloads, OwnFrames
  <2>2. CASE j = i
    <3>1. written'[i] \in {written[i], <<>>} /\ sink'[i] = how
      BY <1>2
    <3>2. \A k \in 1..Len(written'[i]) : written'[i][k] = <<i, k>>
      BY <2>1, <2>2, <3>1
    <3>3. how = "closed" => Len(written'[i]) = Frames
      BY <1>2
    <3> QED
      BY <2>2, <3>1, <3>2, <3>3
  <2>3. CASE j # i
    <3>1. written'[j] = written[j] /\ sink'[j] = sink[j]
      BY <1>2, <2>3
    <3> QED
      BY <1>2, <2>1, <2>3, <3>1
  <2> QED
    BY <2>2, <2>3
<1>4. \A j \in Items :
        sink'[j] = "none" => written'[j] = <<>> /\ j \notin readies'
  BY <1>1, <1>2 DEF Downloads
<1> QED
  BY <1>2, <1>3, <1>4 DEF Downloads, OwnFrames

LEMMA DownloadsTakes ==
  ASSUME IInv, NEW i \in Items, Takes(i)
  PROVE  Downloads'
<1>1. /\ Downloads /\ OwnFrames /\ None \notin Items
      /\ sink \in [Items -> {"none", "open", "closed", "aborted"}]
      /\ written \in [Items -> Seq(Items \X (1..Frames))]
  BY LinkTypes DEF IInv, Downloads
<1>2. /\ chan[1].item = i /\ Follows(1)
      /\ preparing = None /\ active \in {i, None}
      /\ UNCHANGED <<readies, overtaken>>
  BY TakesNext DEF Takes, TakeBegin, TakeData, TakeDataFails, TakeEnd,
                   TakeAbort, Take
<1>3. CASE TakeBegin(i)
  <2>1. /\ chan[1].t = "begin" /\ active = None /\ preparing' \in {i, None}
        /\ UNCHANGED <<active, sink, written>>
    BY <1>3, TakesNext DEF TakeBegin
  <2>2. sink[i] = "none"
    BY <1>2, <2>1 DEF Follows
  <2> QED
    BY <1>1, <1>2, <2>1, <2>2 DEF Downloads, OwnFrames
<1>4. CASE TakeData(i)
  <2>1. chan[1].t = "data" /\ UNCHANGED <<active, sink, preparing>>
    BY <1>4, TakesNext DEF TakeData
  <2>2. CASE active = None
    BY <1>1, <1>2, <1>4, <2>1, <2>2 DEF TakeData, Downloads, OwnFrames
  <2>3. CASE active = i
    <3>1. PICK l \in Nat : l = Len(written[i])
      BY <1>1
    <3>2. /\ l = Frames - chan[1].n /\ chan[1].n \in 0..Frames
          /\ Frames \in Nat /\ Head(chan) = chan[1]
      <4>1. 1 \in 1..Len(chan)
        BY <1>4, TakesNext
      <4>2. chan[1] \in Messages /\ Head(chan) = chan[1]
        BY <4>1, LinkTypes
      <4> QED
        BY <1>2, <2>1, <2>3, <3>1, <4>2, LinkTypes DEF Follows, Messages
    <3>3. written' = [written EXCEPT ![i] = Append(@, <<i, l + 1>>)]
      <4>1. written' = [written EXCEPT ![i] =
                          Append(@, <<i, Frames - Head(chan).n + 1>>)]
        BY <1>1, <1>4, <2>3 DEF TakeData
      <4>2. Frames - Head(chan).n + 1 = l + 1
        BY <3>2
      <4> QED
        BY <4>1, <4>2
    <3>4. sink[i] = "open"
      BY <1>1, <2>3 DEF Downloads
    <3>5. /\ \A j \in Items \ {i} : written'[j] = written[j]
          /\ \A k \in 1..Len(written'[i]) : written'[i][k] = <<i, k>>
      <4>1. /\ written'[i] = Append(written[i], <<i, l + 1>>)
            /\ \A j \in Items \ {i} : written'[j] = written[j]
        BY <1>1, <3>3
      <4>2. \A k \in 1..l : written[i][k] = <<i, k>>
        BY <1>1, <3>1 DEF OwnFrames
      <4>3. written[i] \in Seq(Items \X (1..Frames))
        BY <1>1
      <4> QED
        BY <3>1, <4>1, <4>2, <4>3
    <3>6. ASSUME NEW j \in Items
          PROVE  /\ \A k \in 1..Len(written'[j]) : written'[j][k] = <<j, k>>
                 /\ sink[j] = "closed" => Len(written'[j]) = Frames
                 /\ sink[j] = "none" => written'[j] = <<>>
      BY <1>1, <3>4, <3>5 DEF Downloads, OwnFrames
    <3> QED
      BY <1>1, <1>2, <2>1, <3>6 DEF Downloads, OwnFrames
  <2> QED
    BY <1>2, <2>2, <2>3
<1>5. CASE TakeEnd(i) \/ TakeAbort(i)
  <2>1. preparing' = preparing
    BY <1>5 DEF TakeEnd, TakeAbort
  <2>2. CASE active = i
    <3>1. TakeEnd(i) => Len(written[i]) = Frames
      <4>1. TakeEnd(i) => chan[1].t = "end"
        BY TakesNext
      <4> QED
        BY <1>2, <2>2, <4>1, LinkTypes DEF Follows
    <3>2. \/ TakeEnd(i) /\ Finish(i, "closed", "done")
          \/ TakeAbort(i) /\ Finish(i, "aborted", "failed")
      BY <1>5, <2>2 DEF TakeEnd, TakeAbort
    <3> QED
      BY <1>2, <2>1, <2>2, <3>1, <3>2, FinishDownloads
  <2>3. CASE active = None
    <3>1. UNCHANGED <<active, sink, written>>
      BY <1>1, <1>5, <2>3 DEF TakeEnd, TakeAbort
    <3> QED
      BY <1>1, <1>2, <2>1, <3>1 DEF Downloads, OwnFrames
  <2> QED
    BY <1>2, <2>2, <2>3
<1>6. CASE TakeDataFails(i)
  <2>1. active = i
    BY TakesNext, <1>6
  <2>2. Finish(i, "aborted", "failed") /\ preparing' = preparing
    BY <1>6, <2>1 DEF TakeDataFails
  <2> QED
    BY <1>2, <2>1, <2>2, FinishDownloads
<1> QED
  BY <1>3, <1>4, <1>5, <1>6 DEF Takes

LEMMA DownloadsStep ==
  ASSUME IInv, [Next]_vars
  PROVE  Downloads'
<1>1. /\ Downloads /\ OwnFrames /\ None \notin Items
      /\ sink \in [Items -> {"none", "open", "closed", "aborted"}]
      /\ written \in [Items -> Seq(Items \X (1..Frames))]
  BY LinkTypes DEF IInv, Downloads
<1>2. CASE UNCHANGED <<preparing, active, sink, written, readies, overtaken>>
  BY <1>1, <1>2 DEF Downloads, OwnFrames
<1>3. ASSUME NEW i \in Items, Prepared(i) \/ PrepareFails(i)
      PROVE  Downloads'
  <2>1. preparing = i /\ preparing' = None /\ written' = written
    BY <1>3 DEF Prepared, PrepareFails
  <2>2. active = None /\ sink[i] = "none" /\ written[i] = <<>>
    BY <1>1, <2>1 DEF Downloads
  <2>3. CASE PrepareFails(i)
    <3>1. UNCHANGED <<active, sink, readies, overtaken>>
      BY <2>3 DEF PrepareFails, wire
    <3> QED
      BY <1>1, <2>1, <3>1 DEF Downloads, OwnFrames
  <2>4. CASE Prepared(i)
    <3>1. /\ active' = i /\ sink' = [sink EXCEPT ![i] = "open"]
          /\ readies' \subseteq readies \cup {i}
          /\ overtaken \subseteq overtaken'
      BY <2>4 DEF Prepared
    <3> QED
      BY <1>1, <2>1, <2>2, <3>1 DEF Downloads, OwnFrames
  <2> QED
    BY <1>3, <2>3, <2>4
<1>4. CASE ReceiverLinkCloses
  <2>1. UNCHANGED <<preparing, readies, overtaken>>
    BY <1>4 DEF ReceiverLinkCloses
  <2>2. CASE active = None
    <3>1. UNCHANGED <<active, sink, written>>
      BY <1>4, <2>2 DEF ReceiverLinkCloses
    <3> QED
      BY <1>2, <2>1, <3>1
  <2>3. CASE active # None
    <3>1. PICK i \in Items : active = i
      BY <2>3, LinkTypes
    <3>2. Finish(i, "aborted", "failed")
      BY <1>4, <2>3, <3>1 DEF ReceiverLinkCloses
    <3> QED
      BY <2>1, <3>1, <3>2, FinishDownloads
  <2> QED
    BY <2>2, <2>3
<1>5. ASSUME NEW i \in Items, NEW kind, Puts(kind, i)
      PROVE  Downloads'
  BY <1>2, <1>5 DEF Puts
<1> QED
  BY <1>2, <1>3, <1>4, <1>5, DownloadsTakes, ChannelMoves
     DEF ChannelMove, Receives, Takes
-----------------------------------------------------------------------------
(* A channel that was lost stays lost.                                     *)
LEMMA JoinedMoves ==
  ASSUME IInv, [Next]_vars
  PROVE  Joined' => Joined
<1>1. rDropped => rDropped'
  <2>1. CASE ReceiverLinkCloses
    BY <2>1 DEF ReceiverLinkCloses
  <2>2. ASSUME NEW i \in Items, Receives(i) PROVE UNCHANGED rDropped
    BY <2>2 DEF Receives, TakeBegin, TakeData, TakeDataFails, TakeEnd,
                TakeAbort, Take, Prepared, PrepareFails, wire
  <2> QED
    BY <2>1, <2>2, ChannelMoves DEF ChannelMove, Puts
<1>2. sDropped => sDropped'
  <2> USE DEF wire
  <2>1. ASSUME NEW i \in Items, ItemNext(i) PROVE UNCHANGED sDropped
    BY <2>1 DEF ItemNext, Offer, HearOffer, Approve, Approved,
                ApproveFails, Decline, HearRequest, HearReject
  <2>2. ASSUME NEW i \in Items, DirectNext(i) PROVE UNCHANGED sDropped
    <3>1. CASE Receives(i)
      BY <3>1, ReceiverFrame
    <3> QED
      BY <2>2, <3>1 DEF DirectNext, Receives, Begin, HearReady, SendFrame,
                        EndSent, DirectFails
  <2>3. ASSUME NEW t \in Items, RelayNext(t) PROVE UNCHANGED sDropped
    BY <2>3 DEF RelayNext, BeginRelayed, RelayAnswers, HearSenderReady,
                Uploaded, UploadFails, HearReceiverReady, Keyed,
                DownloadStarted, DownloadFails, Pairing
  <2>4. CASE OpenChannel \/ UNCHANGED vars
    BY <2>4 DEF OpenChannel, vars
  <2>5. CASE ReceiverLinkCloses
    BY <2>5, ReceiverFrame
  <2>6. CASE SenderLinkCloses
    BY <2>6 DEF SenderLinkCloses
  <2> QED
    BY <2>1, <2>2, <2>3, <2>4, <2>5, <2>6 DEF Next
<1> QED
  BY <1>1, <1>2 DEF Joined

(* A sender that has the channel says what becomes of its item.            *)
LEMMA QuietSender ==
  ASSUME IInv, [Next]_vars, NEW i \in Items,
         \A kind \in {"begin", "data", "end", "abort"} : ~Puts(kind, i)
  PROVE  /\ sendAt[i] \in {"beginning", "streaming"} /\ ~sDropped' =>
              sendAt'[i] = sendAt[i] \/ HearReady(i)
         /\ sendAt'[i] # "over" => left'[i] = left[i]
<1>1. /\ sendAt \in [Items -> Places] /\ left \in [Items -> 0..Frames]
      /\ Turn(i)
  BY LinkTypes, Turns
<1>2. ~Begin(i) /\ ~SendFrame(i) /\ ~EndSent(i)
      /\ (DirectFails(i) => sDropped)
  BY SendPuts
<1> DEFINE Goal ==
      /\ sendAt[i] \in {"beginning", "streaming"} /\ ~sDropped' =>
           sendAt'[i] = sendAt[i] \/ HearReady(i)
      /\ sendAt'[i] # "over" => left'[i] = left[i]
<1>3. ASSUME NEW j \in Items, NEW state \in {"done", "failed"},
             SendEnds(j, state),
             j = i => sendAt[i] \notin {"beginning", "streaming"} \/ sDropped'
      PROVE  Goal
  <2>1. sendAt'[j] = "over" /\ left' = [left EXCEPT ![j] = 0]
    BY <1>3, SendEndsOver DEF SendEnds
  <2>2. CASE j = i
    BY <1>3, <2>1, <2>2
  <2>3. CASE j # i
    <3>1. sendAt[i] \in {"beginning", "streaming"} => sendAt'[i] = sendAt[i]
      <4>1. Pumped(queued, FALSE, [outgoing EXCEPT ![j] = state],
                   [sendAt EXCEPT ![j] = "over"])
        BY <1>3, SendEndsMoves
      <4>2. /\ outgoing \in [Items -> Outgoings]
            /\ \A k \in Items : outgoing[k] = "offered" => sendAt[k] = "idle"
        BY DEF IInv, TypeOK, Outgoings, Dispatch
      <4> QED
        BY <1>1, <2>3, <4>1, <4>2 DEF Pumped
    <3> QED
      BY <1>1, <2>1, <2>3, <3>1
  <2> QED
    BY <2>2, <2>3
<1>4. CASE UNCHANGED <<sendAt, left>>
  BY <1>4
<1>5. ASSUME NEW j \in Items, ItemNext(j) PROVE Goal
  <2>1. UNCHANGED left
    BY <1>5 DEF ItemNext, Offer, HearOffer, Approve, Approved, ApproveFails,
                Decline, HearRequest, HearReject, sender
  <2>2. sendAt[i] \in {"beginning", "streaming"} => sendAt'[i] = sendAt[i]
    <3>1. CASE HearRequest(j)
      <4>1. Pumped(Append(queued, j), busy, outgoing, sendAt)
        BY <3>1, RequestMoves
      <4>2. \A k \in Items : outgoing[k] = "offered" => sendAt[k] = "idle"
        BY DEF IInv, Dispatch
      <4> QED
        BY <1>1, <4>1, <4>2 DEF Pumped
    <3>2. CASE ~HearRequest(j)
      BY <1>5, <3>2 DEF ItemNext, Offer, HearOffer, Approve, Approved,
                        ApproveFails, Decline, HearReject, sender
    <3> QED
      BY <3>1, <3>2
  <2> QED
    BY <2>1, <2>2
<1>6. ASSUME NEW j \in Items, DirectNext(j) PROVE Goal
  <2>1. CASE Receives(j)
    BY <1>4, <2>1, ReceiverFrame
  <2>2. CASE Begin(j) \/ HearReady(j)
    <3>1. UNCHANGED left /\ \A k \in Items \ {j} : sendAt'[k] = sendAt[k]
      BY <1>1, <2>2 DEF Begin, HearReady, SendGoesOn
    <3> QED
      BY <1>2, <2>2, <3>1
  <2>3. CASE SendFrame(j)
    BY <1>1, <1>2, <2>3 DEF SendFrame
  <2>4. CASE EndSent(j)
    BY <1>2, <1>3, <2>4 DEF EndSent
  <2>5. CASE DirectFails(j)
    BY <1>2, <1>3, <2>5 DEF DirectFails
  <2> QED
    BY <1>6, <2>1, <2>2, <2>3, <2>4, <2>5 DEF DirectNext, Receives
<1>7. ASSUME NEW t \in Items, RelayNext(t) PROVE Goal
  <2>1. CASE Uploaded(t) \/ UploadFails(t)
    BY <1>3, <2>1 DEF Uploaded, UploadFails
  <2>2. CASE BeginRelayed(t) \/ HearSenderReady(t)
    <3>1. UNCHANGED left
      BY <2>2 DEF BeginRelayed, HearSenderReady
    <3>2. sendAt' = sendAt \/ \E j : \/ SendGoesOn(j, "opening", "relaying")
                                     \/ SendGoesOn(j, "relaying", "uploading")
      BY <2>2 DEF BeginRelayed, HearSenderReady
    <3> QED
      BY <1>1, <3>1, <3>2 DEF SendGoesOn
  <2>3. CASE ~(Uploaded(t) \/ UploadFails(t) \/ BeginRelayed(t)
               \/ HearSenderReady(t))
    BY <1>4, <1>7, <2>3 DEF RelayNext, RelayAnswers, HearReceiverReady, Keyed,
                            DownloadStarted, DownloadFails, Pairing, sender
  <2> QED
    BY <2>1, <2>2, <2>3
<1>8. CASE SenderLinkCloses
  <2>1. CASE UNCHANGED sender
    BY <1>4, <2>1 DEF sender
  <2>2. ASSUME NEW j \in Items, sendAt[j] = "beginning",
               SendEnds(j, "failed"), Abort(j)
        PROVE  Goal
    <3>1. j = i => sDropped'
      BY <1>8, <2>2, SendPuts
    <3> QED
      BY <1>3, <2>2, <3>1
  <2> QED
    BY <1>8, <2>1, <2>2 DEF SenderLinkCloses
<1>9. CASE OpenChannel \/ UNCHANGED vars
  BY <1>4, <1>9 DEF OpenChannel, vars, sender
<1>10. CASE ReceiverLinkCloses
  BY <1>4, <1>10, ReceiverFrame
<1> QED
  BY <1>5, <1>6, <1>7, <1>8, <1>9, <1>10 DEF Next

(* The parts of Streaming, for one item.                                   *)
Fresh(i) ==
  /\ sendAt[i] \in {"idle", "opening", "beginning"} => left[i] = Frames
  /\ sendAt[i] = "beginning" =>
       /\ written[i] = <<>>
       /\ \A q \in 1..Len(chan) : chan[q].item = i => chan[q].t = "begin"

Paced(i) ==
  /\ sendAt[i] = "beginning" /\ chan # <<>> =>
       chan[Len(chan)].t = "begin" /\ chan[Len(chan)].item = i
  /\ sendAt[i] = "streaming" =>
       IF chan = <<>>
       THEN /\ preparing = None
            /\ active = i => Len(written[i]) = Frames - left[i]
       ELSE /\ chan[Len(chan)].t = "data"
            /\ chan[Len(chan)].item = i
            /\ chan[Len(chan)].n = left[i] + 1

(* What is to come is of the item that is being sent.                      *)
Current ==
  Before(Len(chan) + 1) # None =>
    sendAt[Before(Len(chan) + 1)] \in {"beginning", "streaming"}

LEMMA StreamingParts ==
  Streaming <=> /\ \A i \in Items : Fresh(i)
                /\ Joined => Current /\ \A i \in Items : Paced(i)
BY DEF Streaming, Fresh, Paced, Current

LEMMA FreshStep ==
  ASSUME IInv, [Next]_vars, NEW i \in Items
  PROVE  Fresh(i)'
<1>1. /\ sendAt[i] \in {"idle", "opening", "beginning"} => left[i] = Frames
      /\ sendAt[i] = "beginning" =>
           /\ written[i] = <<>>
           /\ \A q \in 1..Len(chan) : chan[q].item = i => chan[q].t = "begin"
  BY DEF IInv, Streaming
<1>2. Turn(i)
  BY Turns
<1>3. sendAt'[i] \in {"idle", "opening", "beginning"} =>
        sendAt[i] \in {"idle", "opening", "beginning"}
  BY <1>2, LinkTypes
     DEF Turn, Begin, HearReady, BeginRelayed, SendGoesOn, Engaged
<1>4. sendAt[i] = "opening" =>
        /\ written[i] = <<>> /\ \A q \in 1..Len(chan) : chan[q].item # i
        /\ active # i
  <2>1. sendAt[i] = "opening" => Unseen(i)
    BY DEF IInv, Ways
  <2> QED
    BY <2>1 DEF Unseen, IInv, Downloads
<1>5. sendAt'[i] = "beginning" => sendAt[i] \in {"opening", "beginning"}
  BY <1>2, LinkTypes
     DEF Turn, Begin, HearReady, BeginRelayed, SendGoesOn, Engaged
<1>6. ASSUME sendAt'[i] \in {"idle", "opening", "beginning"}
      PROVE  left'[i] = Frames
  <2>1. CASE \E kind \in {"begin", "data", "end", "abort"} : Puts(kind, i)
    <3>1. Begin(i)
      BY <1>6, <2>1, PutsItem DEF Puts
    <3> QED
      BY <1>1, <1>3, <1>6, <3>1 DEF Begin
  <2>2. CASE \A kind \in {"begin", "data", "end", "abort"} : ~Puts(kind, i)
    BY <1>1, <1>3, <1>6, <2>2, QuietSender
  <2> QED
    BY <2>1, <2>2
<1>7. ASSUME sendAt'[i] = "beginning"
      PROVE  /\ written'[i] = <<>>
             /\ \A q \in 1..Len(chan') :
                  chan'[q].item = i => chan'[q].t = "begin"
  <2>1. /\ written[i] = <<>>
        /\ \A q \in 1..Len(chan) : chan[q].item = i => chan[q].t = "begin"
    BY <1>1, <1>4, <1>5, <1>7
  <2>2. CASE UNCHANGED <<chan, written>>
    BY <2>1, <2>2
  <2>3. ASSUME NEW j \in Items, NEW kind, Puts(kind, j)
        PROVE  /\ written'[i] = <<>>
               /\ \A q \in 1..Len(chan') :
                    chan'[q].item = i => chan'[q].t = "begin"
    <3> DEFINE m == Message(kind, j)
    <3>1. /\ written' = written
          /\ chan' = IF rDropped THEN chan ELSE Append(chan, m)
      BY <2>3 DEF Puts, Put
    <3>2. m.item = i => m.t = "begin"
      BY <1>7, <2>3, PutsItem DEF Puts, Message
    <3> HIDE DEF m
    <3> QED
      BY <2>1, <3>1, <3>2, LinkTypes
  <2>4. ASSUME NEW j \in Items, Receives(j)
        PROVE  /\ written'[i] = <<>>
               /\ \A q \in 1..Len(chan') :
                    chan'[q].item = i => chan'[q].t = "begin"
    <3>1. CASE Prepared(j) \/ PrepareFails(j)
      BY <2>2, <3>1 DEF Prepared, PrepareFails, wire
    <3>2. CASE Takes(j)
      <4>1. \A q \in 1..Len(chan') : chan'[q].item = i => chan'[q].t = "begin"
        BY <2>1, <3>2, TakesNext
      <4>2. TakeData(j) => j # i
        BY <2>1, <3>2, TakesNext
      <4>3. active \in {j, None} /\ None \notin Items
        BY <3>2, TakesNext, LinkTypes
      <4>4. CASE TakeData(j)
        BY <2>1, <4>1, <4>2, <4>3, <4>4, LinkTypes DEF TakeData
      <4>5. CASE TakeBegin(j) \/ TakeEnd(j) \/ TakeAbort(j)
        BY <2>1, <4>1, <4>5, LinkTypes DEF TakeBegin, TakeEnd, TakeAbort, Finish
      <4>6. CASE TakeDataFails(j)
        BY <2>1, <4>1, <4>6, LinkTypes DEF TakeDataFails, Finish
      <4> QED
        BY <3>2, <4>4, <4>5, <4>6 DEF Takes
    <3> QED
      BY <2>4, <3>1, <3>2 DEF Receives, Takes
  <2>5. CASE ReceiverLinkCloses
    <3>1. written'[i] = <<>>
      BY <2>1, <2>5, LinkTypes DEF ReceiverLinkCloses, Finish
    <3>2. chan' = chan \/ \E k \in 0..Len(chan) : chan' = SubSeq(chan, 1, k)
      BY <2>5 DEF ReceiverLinkCloses
    <3>3. ASSUME NEW k \in 0..Len(chan)
          PROVE  \A q \in 1..Len(SubSeq(chan, 1, k)) :
                   SubSeq(chan, 1, k)[q].item = i =>
                     SubSeq(chan, 1, k)[q].t = "begin"
      BY <2>1, LinkTypes
    <3> QED
      BY <2>1, <3>1, <3>2, <3>3
  <2> QED
    BY <2>2, <2>3, <2>4, <2>5, ChannelMoves DEF ChannelMove
<1> QED
  BY <1>6, <1>7 DEF Fresh

(* The item that the end of the channel is in the middle of.               *)
Tip ==
  IF chan = <<>> THEN IF preparing # None THEN preparing ELSE active
  ELSE IF chan[Len(chan)].t \in {"begin", "data"} THEN chan[Len(chan)].item
  ELSE None

LEMMA TipBefore ==
  /\ chan \in Seq(Messages) => Before(Len(chan) + 1) = Tip
  /\ chan' \in Seq(Messages) => Before(Len(chan) + 1)' = Tip'
<1>1. ASSUME chan \in Seq(Messages)
      PROVE  Before(Len(chan) + 1) = Tip
  <2>1. /\ Len(chan) \in Nat /\ (Len(chan) + 1 = 1 <=> chan = <<>>)
        /\ (Len(chan) + 1) - 1 = Len(chan)
    BY <1>1
  <2> QED
    BY <2>1 DEF Before, Tip
<1>2. ASSUME chan' \in Seq(Messages)
      PROVE  Before(Len(chan) + 1)' = Tip'
  <2>1. /\ Len(chan') \in Nat /\ (Len(chan') + 1 = 1 <=> chan' = <<>>)
        /\ (Len(chan') + 1) - 1 = Len(chan')
    BY <1>2
  <2> QED
    BY <2>1 DEF Before, Tip
<1> QED
  BY <1>1, <1>2

(* What the receiver does leaves the end of the channel as it is.          *)
LEMMA ReceiverTip ==
  ASSUME IInv, [Next]_vars, Joined',
         (\E i \in Items : Receives(i)) \/ ReceiverLinkCloses
  PROVE  /\ Tip' \in {Tip, None}
         /\ chan' # <<>> => chan # <<>> /\ chan'[Len(chan')] = chan[Len(chan)]
<1>1. ASSUME NEW i \in Items, Takes(i)
      PROVE  /\ Tip' \in {Tip, None}
             /\ chan' # <<>> =>
                  chan # <<>> /\ chan'[Len(chan')] = chan[Len(chan)]
  <2>1. /\ Len(chan) \in Nat /\ Len(chan) >= 1 /\ chan[1].item = i
        /\ Len(chan') = Len(chan) - 1
        /\ \A q \in 1..Len(chan) - 1 : chan'[q] = chan[q + 1]
        /\ preparing = None /\ active \in {i, None}
        /\ TakeBegin(i) => chan[1].t = "begin" /\ active = None
        /\ TakeData(i) => chan[1].t = "data"
    BY <1>1, TakesNext
  <2>2. chan' \in Seq(Messages)
    BY TypeStep DEF TypeOK, Messages
  <2>3. CASE Len(chan) = 1
    <3>1. chan' = <<>> /\ chan # <<>>
      BY <2>1, <2>2, <2>3
    <3>2. TakeBegin(i) => preparing' \in {i, None} /\ active' = None
      BY <2>1 DEF TakeBegin
    <3>3. TakeData(i) => preparing' = None /\ active' = active
      BY <2>1 DEF TakeData
    <3>4. TakeDataFails(i) \/ TakeEnd(i) \/ TakeAbort(i) =>
            preparing' = None /\ active' = None
      BY <2>1, LinkTypes DEF TakeDataFails, TakeEnd, TakeAbort, Finish
    <3> QED
      BY <1>1, <2>1, <2>3, <3>1, <3>2, <3>3, <3>4 DEF Tip, Takes
  <2>4. CASE Len(chan) # 1
    <3>1. /\ Len(chan) - 1 \in 1..Len(chan) - 1
          /\ (Len(chan) - 1) + 1 = Len(chan)
      BY <2>1, <2>4
    <3>2. chan'[Len(chan')] = chan[Len(chan)] /\ chan' # <<>> /\ chan # <<>>
      BY <2>1, <2>2, <2>4, <3>1
    <3> QED
      BY <3>2 DEF Tip
  <2> QED
    BY <2>3, <2>4
<1>2. ASSUME NEW i \in Items, Prepared(i) \/ PrepareFails(i)
      PROVE  /\ Tip' \in {Tip, None}
             /\ chan' # <<>> =>
                  chan # <<>> /\ chan'[Len(chan')] = chan[Len(chan)]
  <2>1. /\ chan' = chan /\ preparing = i /\ preparing' = None
        /\ active' \in {i, active}
    BY <1>2 DEF Prepared, PrepareFails, wire
  <2>2. active = None /\ i # None
    BY <2>1, LinkTypes DEF IInv, Downloads
  <2> QED
    BY <2>1, <2>2 DEF Tip
<1>3. CASE ReceiverLinkCloses
  <2>1. chan' = chan /\ preparing' = preparing /\ active' = None
    BY <1>3 DEF ReceiverLinkCloses, Joined, Finish, IInv, TypeOK
  <2>2. active # None => preparing = None
    BY DEF IInv, Downloads
  <2> QED
    BY <2>1, <2>2 DEF Tip
<1> QED
  BY <1>1, <1>2, <1>3 DEF Receives, Takes

LEMMA CurrentStep ==
  ASSUME IInv, [Next]_vars, Joined'
  PROVE  Current'
<1>1. /\ chan \in Seq(Messages) /\ chan' \in Seq(Messages)
      /\ Joined /\ sendAt \in [Items -> Places]
  BY TypeStep, LinkTypes, JoinedMoves DEF TypeOK, Messages
<1>2. Tip # None => sendAt[Tip] \in {"beginning", "streaming"}
  BY <1>1, TipBefore DEF IInv, Streaming
<1>3. Tip \in Items \cup {None} /\ None \notin Items
  <2>1. chan # <<>> => Len(chan) \in 1..Len(chan)
    BY <1>1
  <2> QED
    BY <2>1, LinkTypes DEF Tip
<1> SUFFICES Tip' # None => sendAt'[Tip'] \in {"beginning", "streaming"}
  BY <1>1, TipBefore DEF Current
<1>4. ASSUME NEW i \in Items, NEW kind, Puts(kind, i)
      PROVE  Tip' # None => sendAt'[Tip'] \in {"beginning", "streaming"}
  <2> DEFINE m == Message(kind, i)
  <2>1. m.t = kind /\ m.item = i
    BY DEF Message
  <2>2. chan' = Append(chan, m)
    BY <1>1, <1>4 DEF Puts, Put, Joined
  <2> HIDE DEF m
  <2>3. chan' # <<>> /\ chan'[Len(chan')] = m
    BY <1>1, <2>2
  <2>4. /\ kind = "begin" => sendAt'[i] = "beginning"
        /\ kind = "data" => sendAt'[i] = "streaming"
    BY <1>4, PutsItem
  <2> QED
    BY <2>1, <2>3, <2>4 DEF Tip
<1>5. CASE (\E i \in Items : Receives(i)) \/ ReceiverLinkCloses
  BY <1>2, <1>5, ReceiverTip, ReceiverFrame
<1>6. CASE /\ UNCHANGED <<chan, preparing, active>>
           /\ \A i \in Items, kind \in {"begin", "data", "end", "abort"} :
                ~Puts(kind, i)
  <2>1. Tip' = Tip
    BY <1>6 DEF Tip
  <2>2. ASSUME Tip # None PROVE sendAt'[Tip] \in {"beginning", "streaming"}
    <3>1. sendAt'[Tip] = sendAt[Tip] \/ HearReady(Tip)
      BY <1>2, <1>3, <1>6, <2>2, QuietSender DEF Joined
    <3> QED
      BY <1>1, <1>2, <1>3, <2>2, <3>1 DEF HearReady, SendGoesOn
  <2> QED
    BY <2>1, <2>2
<1> QED
  BY <1>4, <1>5, <1>6, ChannelMoves DEF ChannelMove

(* ready is heard when begin was taken, and with nothing after it.         *)
LEMMA ReadyAlone ==
  ASSUME IInv, Joined, NEW i \in Items, HearReady(i)
  PROVE  /\ chan = <<>> /\ preparing = None
         /\ written[i] = <<>> /\ left[i] = Frames
<1>1. i \in readies /\ sendAt[i] = "beginning"
  BY DEF HearReady, SendGoesOn
<1>2. sink[i] # "none"
  BY <1>1 DEF IInv, Downloads
<1>3. written[i] = <<>> /\ left[i] = Frames
  BY <1>1 DEF IInv, Streaming
<1>4. chan = <<>>
  <2> SUFFICES ASSUME chan # <<>> PROVE FALSE
    OBVIOUS
  <2>1. Len(chan) \in 1..Len(chan)
    BY LinkTypes
  <2>2. chan[Len(chan)].t = "begin" /\ chan[Len(chan)].item = i
    BY <1>1 DEF IInv, Streaming
  <2>3. Follows(Len(chan))
    BY <2>1 DEF IInv, Linked
  <2> QED
    BY <1>2, <2>2, <2>3 DEF Follows
<1>5. preparing = None
  <2> SUFFICES ASSUME preparing # None PROVE FALSE
    OBVIOUS
  <2>1. Tip = preparing
    BY <1>4 DEF Tip
  <2>2. sendAt[preparing] \in {"beginning", "streaming"}
    BY <2>1, TipBefore, LinkTypes DEF IInv, Streaming
  <2>3. preparing = i
    BY <1>1, <2>2, LinkTypes DEF IInv, Dispatch, Engaged
  <2> QED
    BY <1>2, <2>3 DEF IInv, Downloads
<1> QED
  BY <1>3, <1>4, <1>5

LEMMA PacedStep ==
  ASSUME IInv, [Next]_vars, Joined', NEW i \in Items
  PROVE  Paced(i)'
<1>1. /\ chan \in Seq(Messages) /\ chan' \in Seq(Messages)
      /\ Joined /\ sendAt \in [Items -> Places] /\ left \in [Items -> 0..Frames]
      /\ None \notin Items /\ Frames \in Nat
  BY TypeStep, LinkTypes, JoinedMoves DEF TypeOK, Messages
<1>2. Paced(i)
  BY <1>1 DEF IInv, Streaming, Paced
<1>3. ASSUME NEW j \in Items, NEW kind, Puts(kind, j)
      PROVE  Paced(i)'
  <2> DEFINE m == Message(kind, j)
  <2>1. m.t = kind /\ m.item = j /\ m.n = left[j]
    BY DEF Message
  <2>2. chan' = Append(chan, m)
    BY <1>1, <1>3 DEF Puts, Put, Joined
  <2> HIDE DEF m
  <2>3. chan' # <<>> /\ chan'[Len(chan')] = m
    BY <1>1, <2>2
  <2>4. CASE j # i
    <3>1. sendAt[i] \notin Engaged
      BY <1>3, <2>4, PutsItem
    <3>2. sendAt'[i] \notin {"beginning", "streaming"}
      BY <3>1, Turns DEF Turn, Begin, HearReady, BeginRelayed, SendGoesOn,
                         Engaged
    <3> QED
      BY <3>2 DEF Paced
  <2>5. CASE j = i
    <3>1. CASE kind = "begin"
      <4>1. sendAt'[i] = "beginning"
        BY <1>3, <2>5, <3>1, PutsItem
      <4> QED
        BY <2>1, <2>3, <2>5, <3>1, <4>1 DEF Paced
    <3>2. CASE kind = "data"
      <4>1. left'[i] = left[i] - 1
        BY <1>1, <1>3, <2>5, <3>2 DEF Puts, SendFrame
      <4>2. sendAt'[i] = "streaming" /\ m.n = left'[i] + 1
        BY <1>1, <1>3, <2>1, <2>5, <3>2, <4>1, PutsItem
      <4> QED
        BY <2>1, <2>3, <2>5, <3>2, <4>2 DEF Paced
    <3>3. CASE kind \in {"end", "abort"}
      <4>1. sendAt'[i] = "over"
        BY <1>3, <2>5, <3>3, PutsItem
      <4> QED
        BY <4>1 DEF Paced
    <3> QED
      BY <1>3, <3>1, <3>2, <3>3 DEF Puts
  <2> QED
    BY <2>4, <2>5
<1>4. CASE (\E j \in Items : Receives(j)) \/ ReceiverLinkCloses
  <2>1. /\ sendAt' = sendAt /\ left' = left
        /\ chan' # <<>> =>
             chan # <<>> /\ chan'[Len(chan')] = chan[Len(chan)]
    BY <1>4, ReceiverFrame, ReceiverTip
  <2>2. ASSUME sendAt[i] = "streaming", chan' = <<>>
        PROVE  preparing' = None /\
               (active' = i => Len(written'[i]) = Frames - left[i])
    <3>1. ASSUME NEW j \in Items, Prepared(j) \/ PrepareFails(j)
          PROVE  FALSE
      <4>1. chan' = chan /\ preparing # None
        BY <1>1, <3>1 DEF Prepared, PrepareFails, wire
      <4> QED
        BY <1>2, <2>2, <4>1 DEF Paced
    <3>2. CASE ReceiverLinkCloses
      <4>1. chan' = chan /\ preparing' = preparing /\ active' = None
        BY <3>2 DEF ReceiverLinkCloses, Joined, Finish, IInv, TypeOK
      <4> QED
        BY <1>1, <1>2, <2>2, <4>1 DEF Paced
    <3>3. ASSUME NEW j \in Items, Takes(j)
          PROVE  preparing' = None /\
                 (active' = i => Len(written'[i]) = Frames - left[i])
      <4>1. /\ Len(chan) \in Nat /\ Len(chan) >= 1 /\ chan[1].item = j
            /\ Len(chan') = Len(chan) - 1 /\ Follows(1) /\ preparing = None
            /\ TakeBegin(j) => chan[1].t = "begin"
            /\ TakeEnd(j) => chan[1].t = "end"
            /\ TakeAbort(j) => chan[1].t = "abort"
        BY <3>3, TakesNext
      <4>2. Len(chan) = 1 /\ chan # <<>>
        BY <1>1, <2>2, <4>1
      <4>3. chan[1].t = "data" /\ chan[1].item = i /\ chan[1].n = left[i] + 1
        BY <1>2, <2>2, <4>2 DEF Paced
      <4>4. \/ TakeData(i) /\ preparing' = preparing /\ active' = active
            \/ preparing' = preparing /\ active' = None
        BY <3>3, <4>1, <4>3 DEF Takes, TakeData, TakeDataFails, Finish
      <4>5. ASSUME active = i, TakeData(i)
            PROVE  Len(written'[i]) = Frames - left[i]
        <5>1. Len(written[i]) = Frames - chan[1].n
          BY <4>1, <4>3, <4>5 DEF Follows
        <5>2. \E frame : written' = [written EXCEPT ![i] = Append(@, frame)]
          BY <1>1, <4>5 DEF TakeData
        <5>3. Len(written'[i]) = Len(written[i]) + 1
          BY <5>2, LinkTypes
        <5> QED
          BY <1>1, <4>3, <5>1, <5>3
      <4> QED
        BY <1>1, <4>1, <4>4, <4>5
    <3> QED
      BY <1>4, <3>1, <3>2, <3>3 DEF Receives, Takes
  <2> QED
    BY <1>2, <2>1, <2>2 DEF Paced
<1>5. CASE /\ UNCHANGED <<chan, preparing, active, written>>
           /\ \A kind \in {"begin", "data", "end", "abort"} : ~Puts(kind, i)
  <2>1. sendAt'[i] # "over" => left'[i] = left[i]
    BY <1>5, QuietSender
  <2>2. ~Begin(i)
    BY <1>5, SendPuts
  <2>3. sendAt'[i] \in {"beginning", "streaming"} =>
          sendAt'[i] = sendAt[i] \/ HearReady(i)
    BY <1>1, <2>2, Turns DEF Turn, BeginRelayed, SendGoesOn, Engaged
  <2>4. CASE HearReady(i)
    <3>1. sendAt'[i] = "streaming"
      BY <1>1, <2>4 DEF HearReady, SendGoesOn
    <3>2. /\ chan = <<>> /\ preparing = None
          /\ written[i] = <<>> /\ left[i] = Frames
      BY <1>1, <2>4, ReadyAlone
    <3> QED
      BY <1>1, <1>5, <2>1, <3>1, <3>2 DEF Paced
  <2>5. CASE ~HearReady(i)
    BY <1>2, <1>5, <2>1, <2>3, <2>5 DEF Paced
  <2> QED
    BY <2>4, <2>5
<1> QED
  BY <1>3, <1>4, <1>5, ChannelMoves DEF ChannelMove

(* The sender goes on where the channel is.                                *)
LEMMA StreamingStep ==
  ASSUME IInv, [Next]_vars
  PROVE  Streaming'
<1>1. \A i \in Items : Fresh(i)'
  BY FreshStep
<1>2. Joined' => Current' /\ \A i \in Items : Paced(i)'
  BY CurrentStep, PacedStep
<1> QED
  BY <1>1, <1>2 DEF Streaming, Fresh, Paced, Current
-----------------------------------------------------------------------------
LEMMA TogetherStays ==
  ASSUME [Next]_vars, together
  PROVE  together'
<1> USE DEF answers
<1>1. ASSUME NEW i \in Items, ItemNext(i) PROVE together'
  BY <1>1 DEF ItemNext, Offer, HearOffer, Approve, Approved, ApproveFails,
              Decline, HearRequest, HearReject
<1>2. ASSUME NEW i \in Items, DirectNext(i) PROVE together'
  <2>1. CASE Receives(i)
    BY <2>1, ReceiverFrame
  <2> QED
    BY <1>2, <2>1 DEF DirectNext, Receives, Begin, HearReady, SendFrame,
                      EndSent, DirectFails
<1>3. ASSUME NEW t \in Items, RelayNext(t) PROVE together'
  BY <1>3 DEF RelayNext, BeginRelayed, RelayAnswers, HearSenderReady,
              Uploaded, UploadFails, HearReceiverReady, Keyed,
              DownloadStarted, DownloadFails, Pairing
<1>4. CASE OpenChannel \/ SenderLinkCloses \/ UNCHANGED vars
  BY <1>4 DEF OpenChannel, SenderLinkCloses, vars
<1>5. CASE ReceiverLinkCloses
  BY <1>5, ReceiverFrame
<1> QED
  BY <1>1, <1>2, <1>3, <1>4, <1>5 DEF Next

(* An item that is going to be sent was asked for.                         *)
LEMMA AwaitedMoves ==
  ASSUME IInv, [Next]_vars, NEW i \in Items, Awaited(i)'
  PROVE  Awaited(i) \/ Approved(i)
<1>1. Turn(i) /\ Answer(i) /\ Leg(i)
  BY Turns, AnswerMoves, Legs
<1>2. HearRequest(i) => requests[i] > 0
  BY DEF HearRequest
<1>3. CASE outgoing'[i] = "offered" /\ (requests'[i] > 0 \/ InQueue(i)')
  <2>1. CASE outgoing[i] = "offered"
    BY <1>1, <1>2, <1>3, <2>1 DEF Awaited, Turn, Answer
  <2>2. CASE Offer(i)
    <3>1. requests[i] = 0 /\ ~InQueue(i)
      BY <2>2 DEF Offer, IInv, Asking, Unasked
    <3>2. requests' = requests /\ (InQueue(i)' => InQueue(i))
      BY <2>2 DEF Offer, InQueue
    <3> QED
      BY <1>3, <3>1, <3>2
  <2> QED
    BY <1>1, <1>3, <2>1, <2>2 DEF Turn
<1>4. CASE sendAt'[i] = "opening"
  BY <1>1, <1>2, <1>4, LinkTypes
     DEF Awaited, Turn, Begin, HearReady, BeginRelayed, SendGoesOn
<1>5. CASE i \in begins' \cup receiverReady'
  BY <1>1, <1>5 DEF Awaited, Leg, BeginRelayed, SendGoesOn, RelayAnswers,
                    HearReceiverReady
<1> QED
  BY <1>3, <1>4, <1>5 DEF Awaited

(* The item that is asked for is the one that is approved.                 *)
LEMMA PairsStep ==
  ASSUME IInv, [Next]_vars
  PROVE  Pairs'
<1> SUFFICES ASSUME ~together'
             PROVE  /\ \A i, j \in Items :
                         incoming'[i] = "approved" /\ incoming'[j] = "approved"
                           => i = j
                    /\ \A i \in Items : Awaited(i)' => incoming'[i] = "approved"
                    /\ \A t \in Items : pairedWith'[t] \in {None, t}
  BY DEF Pairs
<1>1. ~together
  BY TogetherStays
<1>2. /\ \A i, j \in Items :
           incoming[i] = "approved" /\ incoming[j] = "approved" => i = j
      /\ \A i \in Items : Awaited(i) => incoming[i] = "approved"
      /\ \A t \in Items : pairedWith[t] \in {None, t}
  BY <1>1 DEF IInv, Pairs
<1>3. incoming \in [Items -> Incomings] /\ None \notin Items
  BY LinkTypes DEF IInv, TypeOK, Incomings
<1>4. ASSUME NEW i \in Items, Approved(i)
      PROVE  /\ incoming'[i] = "approved"
             /\ \A j \in Items \ {i} : incoming'[j] # "approved"
  BY <1>3, <1>4 DEF Approved
<1>5. ASSUME NEW i \in Items, NEW j \in Items,
             incoming'[i] = "approved", incoming'[j] = "approved"
      PROVE  i = j
  <2>1. CASE Approved(i) \/ Approved(j)
    BY <1>4, <1>5, <2>1
  <2>2. CASE ~Approved(i) /\ ~Approved(j)
    <3>1. incoming[i] = "approved" /\ incoming[j] = "approved"
      BY <1>3, <1>5, <2>2, Patches
         DEF Patch, HearOffer, ApproveFails, Decline
    <3> QED
      BY <1>2, <3>1
  <2> QED
    BY <2>1, <2>2
<1>6. ASSUME NEW i \in Items, Awaited(i)'
      PROVE  incoming'[i] = "approved"
  <2>1. CASE Approved(i)
    BY <1>4, <2>1
  <2>2. CASE Awaited(i) /\ ~Approved(i)
    <3>1. incoming[i] = "approved"
      BY <1>2, <2>2
    <3>2. ~HearOffer(i) /\ ~Decline(i)
      BY <3>1 DEF HearOffer, Decline, CanAnswer, IInv, Asking
    <3>3. ~ApproveFails(i)
      BY <3>1 DEF ApproveFails
    <3>4. sendAt[i] \in {"idle", "opening"} \/ i \in begins \cup receiverReady
      BY <2>2 DEF Awaited, IInv, Dispatch
    <3>5. preparing # i /\ active # i
      BY <3>4 DEF IInv, Ways, Unseen, Relayed
    <3>6. readyAt[i] = "idle"
      BY <3>4 DEF IInv, Ways, Relayed
    <3>7. \A t \in Items : pairedWith[t] = i => t = i
      BY <1>2, <1>3
    <3>8. Patch(i)
      BY Patches
    <3> QED
      BY <2>2, <3>1, <3>2, <3>3, <3>5, <3>6, <3>7, <3>8 DEF Patch
  <2> QED
    BY <1>6, <2>1, <2>2, AwaitedMoves
<1>7. ASSUME NEW t \in Items
      PROVE  pairedWith'[t] \in {None, t}
  <2>1. CASE pairedWith'[t] = pairedWith[t]
    BY <1>2, <2>1
  <2>2. CASE /\ HearReceiverReady(t) /\ pairedWith'[t] \in Items
             /\ incoming[pairedWith'[t]] = "approved"
    <3>1. incoming[t] = "approved"
      BY <1>2, <2>2 DEF HearReceiverReady, Awaited
    <3> QED
      BY <1>2, <2>2, <3>1
  <2> QED
    BY <2>1, <2>2, PairingMoves
<1> QED
  BY <1>5, <1>6, <1>7
-----------------------------------------------------------------------------
LEMMA InitInv == Init => IInv
<1> SUFFICES ASSUME Init PROVE IInv
  OBVIOUS
<1> USE DEF Init
<1>1. TypeOK
  <2>1. 0 \in 0..MaxClicks /\ Frames \in 0..Frames
    BY BoundsAssumption
  <2>2. SenderTypes
    <3>1. queued \in Seq(Items) /\ busy \in BOOLEAN
      <4>1. <<>> \in Seq(Items)
        BY EmptySeq
      <4>2. queued = <<>> /\ busy = FALSE
        OBVIOUS
      <4> QED
        BY <4>1, <4>2
    <3>2. outgoing \in [Items -> Outgoings] /\ sendAt \in [Items -> Places]
      BY DEF Outgoings, Places
    <3>3. left \in [Items -> 0..Frames]
      BY <2>1
    <3> QED
      BY <3>1, <3>2, <3>3 DEF SenderTypes
  <2>3. ReceiverTypes
    <3>1. <<>> \in Seq(Items \X (1..Frames)) /\ <<>> \in Seq(Messages)
      OBVIOUS
    <3>2. chan = <<>>
      OBVIOUS
    <3>3. OnChannel
      BY <3>1, <3>2 DEF OnChannel
    <3> QED
      BY <3>1, <3>3 DEF ReceiverTypes, Incomings
  <2>4. /\ arrived \in Seq(Items) /\ approving \in [Items -> 0..MaxClicks]
        /\ requests \in [Items -> 0..MaxClicks]
    BY <2>1
  <2> QED
    BY <2>2, <2>3, <2>4
       DEF TypeOK, SenderTypes, ReceiverTypes, OnChannel, Outgoings, Places,
           Incomings, Messages
<1>2. Len(chan) = 0 /\ Len(queued) = 0
  OBVIOUS
<1>3. None \notin Items
  BY BoundsAssumption DEF Items
<1>4. Dispatch /\ Asking /\ Ways
  BY <1>2, <1>3, BoundsAssumption
     DEF Dispatch, Engaged, Asking, Unasked, InQueue, Ways, Unseen, Relayed
<1>5. Linked /\ Downloads
  BY <1>2 DEF Linked, Downloads, OwnFrames
<1>6. Streaming
  BY <1>2 DEF Streaming, Before
<1>7. Pairs
  BY <1>2 DEF Pairs, Awaited, InQueue
<1> QED
  BY <1>1, <1>4, <1>5, <1>6, <1>7 DEF IInv

LEMMA NextInv == IInv /\ [Next]_vars => IInv'
BY TypeStep, DispatchStep, AskingStep, WaysStep, LinkedStep, DownloadsStep,
   StreamingStep, PairsStep DEF IInv

LEMMA Invariance == Spec => []IInv
BY InitInv, NextInv, PTL DEF Spec

(* The types of all variables: nothing is sent, queued or paired that is   *)
(* not an item, and no item is asked for more often than it was approved   *)
(* (useSession.ts).                                                        *)
THEOREM TypeCorrect == Spec => []TypeOK
<1>1. IInv => TypeOK
  BY DEF IInv
<1> QED
  BY <1>1, Invariance, PTL

(* A download over the channel is given the frames of its own item, each   *)
(* once and in order, and is saved as complete only with all of them,      *)
(* however the sends follow each other and wherever the channel drops      *)
(* (useSession.ts:666-826).                                                *)
THEOREM DownloadsGetOwnFrames == Spec => []OwnFrames
<1>1. IInv => OwnFrames
  BY DEF IInv, Downloads
<1> QED
  BY <1>1, Invariance, PTL

(* What the user declined before approving it is never sent, on neither    *)
(* way and for no other item's transfer (useSession.ts:605-607, 717-729).  *)
THEOREM DeclinesStand == Spec => []DeclineStands
<1>1. IInv => DeclineStands
  BY DEF IInv, Asking, Unasked, DeclineStands, TypeOK
<1> QED
  BY <1>1, Invariance, PTL

(* A relayed transfer is received for the item it was begun for, unless    *)
(* two approvals of a peer's items met, although the frame that announces  *)
(* it names no item (useSession.ts:605).                                   *)
THEOREM TransfersArePaired == Spec => []PairedRight
<1>1. IInv => PairedRight
  BY DEF IInv, Pairs, PairedRight
<1> QED
  BY <1>1, Invariance, PTL
=============================================================================
