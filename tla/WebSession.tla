----------------------------- MODULE WebSession -----------------------------
(***************************************************************************)
(* Files between two browsers (website/src/share/useSession.ts, with its   *)
(* use of transfer.ts, webrtc.ts and public/sw.js): one page offers, the   *)
(* other approves or declines, and the first sends one item at a time,     *)
(* over a direct channel if there is one and over the relay if not.        *)
(*                                                                         *)
(* One direction is modelled.  What a page does between two awaits is one  *)
(* step.  Envelopes and the relay's frames overtake each other, as each is *)
(* sealed and opened by a promise of its own; one that is lost, or refused *)
(* by the relay, is one that is never heard.  The channel is ordered, and  *)
(* it opens at most once: a link that dropped stays in the registry with   *)
(* its dead channel, and a peer that comes back is another peer.           *)
(***************************************************************************)
EXTENDS Naturals, Sequences

CONSTANTS
  MaxItems,   \* bound: items, in the order of outgoingRef
  Frames,     \* sealed frames of an item
  MaxWire,    \* bound: messages on the channel (HIGH_WATER)
  MaxClicks,  \* bound: calls of approve for an item that are under way
  None

ASSUME BoundsAssumption ==
  /\ MaxItems \in Nat /\ Frames \in Nat /\ MaxWire \in Nat /\ MaxClicks \in Nat
  /\ None \notin Nat

Items == 1..MaxItems

VARIABLES
  outgoing,   \* the sender's page: the state of each item,
  queued, busy,     \* what waits for the peer, and busyPeers,
  sendAt,     \* where startSend or handleTransferReady is with each,
  left,       \* and the frames it has to send
  incoming,   \* the receiver's page: the state of each item,
  arrived,    \* in which order they are in incomingRef,
  approving,  \* how many calls of approve wait for the service worker,
  preparing,  \* the begin that is being handled, and holds up the rest,
  active,     \* activeReceive,
  sink, written,    \* the downloads that the page feeds,
  pairedWith, readyAt,   \* and handleTransferReady, by relayed transfer
  offers, requests, rejects,   \* envelopes under way
  channel, chan, readies,      \* the channel: begins, data, ends and aborts
  sDropped, rDropped,          \* one way, readies the other
  begins, senderReady, receiverReady, fetched,   \* the relay
  refused,    \* history: declined while no approval of it was under way
  together,   \* history: two approvals at one time, of two items or of one
  overtaken   \* history: downloads prepared after the channel dropped

sender == <<outgoing, queued, busy, sendAt, left>>
answers == <<arrived, approving, refused, together>>
downloads == <<preparing, active, sink, written, overtaken>>
pairing == <<pairedWith, readyAt>>
envelopes == <<offers, requests, rejects>>
wire == <<channel, chan, readies, sDropped, rDropped>>
relay == <<begins, senderReady, receiverReady, fetched>>
vars == <<sender, incoming, answers, downloads, pairing, envelopes, wire,
          relay>>

Init ==
  /\ outgoing = [i \in Items |-> "new"] /\ queued = <<>> /\ busy = FALSE
  /\ sendAt = [i \in Items |-> "idle"] /\ left = [i \in Items |-> Frames]
  /\ incoming = [i \in Items |-> "unknown"] /\ arrived = <<>>
  /\ approving = [i \in Items |-> 0] /\ preparing = None /\ active = None
  /\ sink = [i \in Items |-> "none"] /\ written = [i \in Items |-> <<>>]
  /\ pairedWith = [t \in Items |-> None] /\ readyAt = [t \in Items |-> "idle"]
  /\ offers = {} /\ requests = [i \in Items |-> 0] /\ rejects = {}
  /\ channel = "connecting" /\ chan = <<>> /\ readies = {}
  /\ sDropped = FALSE /\ rDropped = FALSE
  /\ begins = {} /\ senderReady = {} /\ receiverReady = {}
  /\ fetched = {} /\ refused = {} /\ together = FALSE /\ overtaken = {}
-----------------------------------------------------------------------------
(* Offers and answers.                                                     *)

(* sendFiles, for one item.                                                *)
Offer(i) ==
  /\ outgoing[i] = "new" /\ \A j \in 1..i - 1 : outgoing[j] # "new"
  /\ \/ /\ outgoing' = [outgoing EXCEPT ![i] = "offered"]
        /\ offers' = offers \cup {i}
     \/ outgoing' = [outgoing EXCEPT ![i] = "failed"] /\ UNCHANGED offers
  /\ UNCHANGED <<queued, busy, sendAt, left, incoming, answers, downloads,
                 pairing, requests, rejects, wire, relay>>

HearOffer(i) ==
  /\ i \in offers /\ offers' = offers \ {i}
  /\ incoming' = [incoming EXCEPT ![i] = "pending"]
  /\ arrived' = Append(arrived, i)
  /\ UNCHANGED <<sender, approving, refused, together, downloads, pairing,
                 requests, rejects, wire, relay>>

(* The buttons of an item.                                                 *)
CanAnswerMutant(i) ==   \* a slip: they stay after a decline
  incoming[i] \in {"pending", "declined"}
CanAnswer(i) == incoming[i] = "pending"

(* approve, up to its first await.                                         *)
Approve(i) ==
  /\ CanAnswer(i) /\ approving[i] < MaxClicks
  /\ approving' = [approving EXCEPT ![i] = @ + 1]
  /\ UNCHANGED <<sender, incoming, arrived, refused, together, downloads,
                 pairing, envelopes, wire, relay>>

(* The rest of it: the item is patched whatever became of it meanwhile.  A *)
(* page without a worker, or with nobody to tell, patches it failed.       *)
Approved(i) ==
  /\ approving[i] > 0 /\ approving' = [approving EXCEPT ![i] = @ - 1]
  /\ incoming' = [incoming EXCEPT ![i] = "approved"]
  /\ requests' = [requests EXCEPT ![i] = @ + 1]
  /\ together' = (together \/ \E j \in Items \ {i} : incoming[j] = "approved")
  /\ UNCHANGED <<sender, arrived, refused, downloads, pairing, offers, rejects,
                 wire, relay>>

ApproveFails(i) ==
  /\ approving[i] > 0 /\ approving' = [approving EXCEPT ![i] = @ - 1]
  /\ incoming' = [incoming EXCEPT ![i] = "failed"]
  /\ together' = (together \/ incoming[i] = "approved")
  /\ UNCHANGED <<sender, arrived, refused, downloads, pairing, envelopes, wire,
                 relay>>

Decline(i) ==
  /\ CanAnswer(i)
  /\ incoming' = [incoming EXCEPT ![i] = "declined"]
  /\ rejects' = rejects \cup {i}
  /\ refused' = IF approving[i] = 0 THEN refused \cup {i} ELSE refused
  /\ UNCHANGED <<sender, arrived, approving, together, downloads, pairing,
                 offers, requests, wire, relay>>
-----------------------------------------------------------------------------
(* The queue.                                                              *)

(* SelectSeq by a set, written out so that it can be reasoned about.       *)
Only(queue, S) ==
  LET Upto[k \in 0..Len(queue)] ==
        IF k = 0 THEN <<>>
        ELSE IF queue[k] \in S THEN Append(Upto[k - 1], queue[k])
        ELSE Upto[k - 1]
  IN  Upto[Len(queue)]

(* pumpQueue, and startSend up to its first await.                         *)
Pump(queue, isBusy, states, places) ==
  LET waiting == Only(queue, {i \in Items : states[i] = "offered"})
  IN  IF isBusy \/ waiting = <<>>
      THEN /\ queued' = waiting /\ busy' = isBusy
           /\ outgoing' = states /\ sendAt' = places
      ELSE LET next == Head(waiting)
           IN  /\ queued' = Only(waiting, Items \ {next})
               /\ busy' = TRUE
               /\ outgoing' = [states EXCEPT ![next] = "sending"]
               /\ sendAt' = [places EXCEPT ![next] = "opening"]

HearRequest(i) ==
  /\ requests[i] > 0 /\ requests' = [requests EXCEPT ![i] = @ - 1]
  /\ Pump(Append(queued, i), busy, outgoing, sendAt)
  /\ UNCHANGED <<left, incoming, answers, downloads, pairing, offers, rejects,
                 wire, relay>>

HearReject(i) ==
  /\ i \in rejects /\ rejects' = rejects \ {i}
  /\ outgoing' = [outgoing EXCEPT ![i] = "declined"]
  /\ UNCHANGED <<queued, busy, sendAt, left, incoming, answers, downloads,
                 pairing, offers, requests, wire, relay>>

(* A send ends: the item is patched, and releasePeer pumps the queue.      *)
SendEndsMutant(i, state) ==   \* a slip: the queue is not pumped
  /\ outgoing' = [outgoing EXCEPT ![i] = state]
  /\ sendAt' = [sendAt EXCEPT ![i] = "over"]
  /\ left' = [left EXCEPT ![i] = 0] /\ busy' = FALSE /\ UNCHANGED queued
SendEnds(i, state) ==
  /\ Pump(queued, FALSE, [outgoing EXCEPT ![i] = state],
          [sendAt EXCEPT ![i] = "over"])
  /\ left' = [left EXCEPT ![i] = 0]

SendGoesOn(i, from, to) ==
  /\ sendAt[i] = from /\ sendAt' = [sendAt EXCEPT ![i] = to]
  /\ UNCHANGED <<outgoing, queued, busy>>
-----------------------------------------------------------------------------
(* The direct way.                                                         *)
Message(kind, i) == [t |-> kind, item |-> i, n |-> left[i]]

(* sendControl and sendData; what a peer's dead channel gets is lost.      *)
Put(m) == chan' = IF rDropped THEN chan ELSE Append(chan, m)

OpenChannel ==
  /\ channel = "connecting" /\ channel' = "open"
  /\ UNCHANGED <<sender, incoming, answers, downloads, pairing, envelopes,
                 chan, readies, sDropped, rDropped, relay>>

(* waitOpen says yes, the key is derived, and begin goes out.              *)
Begin(i) ==
  /\ channel = "open" /\ ~sDropped
  /\ SendGoesOn(i, "opening", "beginning")
  /\ Put(Message("begin", i))
  /\ UNCHANGED <<left, incoming, answers, downloads, pairing, envelopes,
                 channel, readies, sDropped, rDropped, relay>>

(* The sender's readyWaiters.                                              *)
HearReady(i) ==
  /\ i \in readies /\ SendGoesOn(i, "beginning", "streaming")
  /\ UNCHANGED <<left, incoming, answers, downloads, pairing, envelopes, wire,
                 relay>>

MoreToSendMutant(i) == left[i] >= 0   \* a slip: a frame too many
MoreToSend(i) == left[i] > 0

SendFrame(i) ==
  /\ sendAt[i] = "streaming" /\ MoreToSend(i) /\ ~sDropped
  /\ Len(chan) < MaxWire
  /\ Put(Message("data", i)) /\ left' = [left EXCEPT ![i] = @ - 1]
  /\ UNCHANGED <<outgoing, queued, busy, sendAt, incoming, answers, downloads,
                 pairing, envelopes, channel, readies, sDropped, rDropped,
                 relay>>

EndSent(i) ==
  /\ sendAt[i] = "streaming" /\ left[i] = 0 /\ ~sDropped
  /\ Put(Message("end", i))
  /\ SendEnds(i, "done")
  /\ UNCHANGED <<incoming, answers, downloads, pairing, envelopes,
                 channel, readies, sDropped, rDropped, relay>>

(* The abort gets out if it can.                                           *)
AbortMutant(i) == UNCHANGED chan   \* a slip: the receiver is not told
Abort(i) == IF sDropped' THEN UNCHANGED chan ELSE Put(Message("abort", i))

(* A key that cannot be had, five seconds without ready, a file that cannot*)
(* be read, a channel that dropped.                                        *)
DirectFails(i) ==
  /\ channel = "open" /\ sendAt[i] \in {"opening", "beginning", "streaming"}
  /\ UNCHANGED sDropped /\ Abort(i)
  /\ SendEnds(i, "failed")
  /\ UNCHANGED <<incoming, answers, downloads, pairing, envelopes,
                 channel, readies, rDropped, relay>>

(* handleLinkClosed on the sender's page.  A connection that is only       *)
(* "disconnected" says the same, and its channel may go on.                *)
SenderLinkCloses ==
  /\ channel = "open" /\ ~sDropped
  /\ sDropped' \in BOOLEAN
  /\ LET waiting == {i \in Items : sendAt[i] = "beginning"}
     IN  IF waiting = {} THEN UNCHANGED <<sender, chan>>
         ELSE \E i \in waiting : SendEnds(i, "failed") /\ Abort(i)
  /\ UNCHANGED <<incoming, answers, downloads, pairing, envelopes,
                 channel, readies, rDropped, relay>>
-----------------------------------------------------------------------------
(* The receiver's end of the channel: one message at a time.               *)
Take(kind, i) ==
  /\ preparing = None /\ chan # <<>>
  /\ Head(chan).t = kind /\ Head(chan).item = i
  /\ chan' = Tail(chan)
  /\ UNCHANGED <<sender, answers, pairing, envelopes, channel, sDropped,
                 rDropped, readies, relay, overtaken>>

(* An abort that answers begin is nothing the sender waits for.            *)
TakeBegin(i) ==
  /\ Take("begin", i)
  /\ preparing' = IF incoming[i] = "approved" THEN i ELSE None
  /\ UNCHANGED <<incoming, active, sink, written>>

(* startDirectDownload has the browser read, and ready goes out; on a dead *)
(* channel that fails, with the download open and active.                  *)
Prepared(i) ==
  /\ preparing = i /\ preparing' = None
  /\ sink' = [sink EXCEPT ![i] = "open"] /\ active' = i
  /\ incoming' = [incoming EXCEPT ![i] =
                   IF rDropped THEN "failed" ELSE "receiving"]
  /\ overtaken' = IF rDropped THEN overtaken \cup {i} ELSE overtaken
  /\ readies' = IF rDropped \/ sDropped THEN readies ELSE readies \cup {i}
  /\ UNCHANGED <<sender, answers, written, pairing, envelopes, channel, chan,
                 sDropped, rDropped, relay>>

PrepareFails(i) ==
  /\ preparing = i /\ preparing' = None
  /\ incoming' = [incoming EXCEPT ![i] = "failed"]
  /\ UNCHANGED <<sender, answers, active, sink, written, overtaken, pairing,
                 envelopes, wire, relay>>

(* handleChannelData goes by the peer, whichever item it is.               *)
TakeData(i) ==
  /\ Take("data", i)
  /\ written' = IF active = None THEN written
                ELSE [written EXCEPT ![active] =
                        Append(@, <<i, Frames - Head(chan).n + 1>>)]
  /\ UNCHANGED <<incoming, preparing, active, sink>>

(* A download ends as the page wants it; the browser discards one that is  *)
(* aborted.                                                                *)
FinishMutant(i, how, state) ==   \* a slip: activeReceive keeps it
  /\ sink' = [sink EXCEPT ![i] = how] /\ UNCHANGED active
  /\ written' = IF how = "closed" THEN written ELSE [written EXCEPT ![i] = <<>>]
  /\ incoming' = [incoming EXCEPT ![i] = state]
Finish(i, how, state) ==
  /\ sink' = [sink EXCEPT ![i] = how] /\ active' = None
  /\ written' = IF how = "closed" THEN written ELSE [written EXCEPT ![i] = <<>>]
  /\ incoming' = [incoming EXCEPT ![i] = state]

(* The browser has stopped taking the stream, which write reports.         *)
TakeDataFails(i) ==
  /\ Take("data", i) /\ active # None
  /\ Finish(active, "aborted", "failed")
  /\ UNCHANGED preparing

TakeEnd(i) ==
  /\ Take("end", i)
  /\ IF active = i THEN Finish(i, "closed", "done")
     ELSE UNCHANGED <<incoming, active, sink, written>>
  /\ UNCHANGED preparing

TakeAbort(i) ==
  /\ Take("abort", i)
  /\ IF active = i THEN Finish(i, "aborted", "failed")
     ELSE UNCHANGED <<incoming, active, sink, written>>
  /\ UNCHANGED preparing

(* handleLinkClosed on the receiver's page, once or more often; what had   *)
(* come in before the channel dropped is handled.                          *)
ReceiverLinkCloses ==
  /\ channel = "open" /\ rDropped' \in {rDropped, TRUE}
  /\ IF rDropped' # rDropped
     THEN \E k \in 0..Len(chan) : chan' = SubSeq(chan, 1, k)
     ELSE UNCHANGED chan
  /\ IF active = None THEN UNCHANGED <<incoming, active, sink, written>>
     ELSE Finish(active, "aborted", "failed")
  /\ UNCHANGED <<sender, answers, preparing, overtaken, pairing,
                 envelopes, channel, readies, sDropped, relay>>
-----------------------------------------------------------------------------
(* By way of the relay; a transfer goes by the item it was begun for.      *)

(* waitOpen says no.                                                       *)
BeginRelayed(i) ==
  /\ channel = "connecting" \/ sDropped
  /\ SendGoesOn(i, "opening", "relaying")
  /\ begins' = begins \cup {i}
  /\ UNCHANGED <<left, incoming, answers, downloads, pairing, envelopes, wire,
                 senderReady, receiverReady, fetched>>

RelayAnswers(t) ==
  /\ t \in begins /\ begins' = begins \ {t}
  /\ senderReady' = senderReady \cup {t}
  /\ receiverReady' = receiverReady \cup {t}
  /\ UNCHANGED <<sender, incoming, answers, downloads, pairing, envelopes,
                 wire, fetched>>

(* handleTransferReady on the sender's page uploads the item that is being *)
(* sent; one that was declined meanwhile is not found, and blocks the peer.*)
HearSenderReady(t) ==
  /\ t \in senderReady /\ senderReady' = senderReady \ {t}
  /\ LET found == {i \in Items : outgoing[i] = "sending"}
     IN  IF found = {} THEN UNCHANGED <<outgoing, queued, busy, sendAt>>
         ELSE \E i \in found : SendGoesOn(i, "relaying", "uploading")
  /\ UNCHANGED <<left, incoming, answers, downloads, pairing, envelopes, wire,
                 begins, receiverReady, fetched>>

Uploaded(i) ==
  /\ sendAt[i] = "uploading" /\ i \in fetched
  /\ SendEnds(i, "done")
  /\ UNCHANGED <<incoming, answers, downloads, pairing, envelopes, wire,
                 relay>>

UploadFails(i) ==
  /\ sendAt[i] = "uploading" /\ SendEnds(i, "failed")
  /\ UNCHANGED <<incoming, answers, downloads, pairing, envelopes, wire,
                 relay>>

(* handleTransferReady on the receiver's page takes the first item of this *)
(* peer that is approved.                                                  *)
ApprovedItemsMutant ==   \* a slip: all that have not ended
  Only(arrived, {i \in Items : incoming[i] \notin {"done", "failed"}})
ApprovedItems == Only(arrived, {i \in Items : incoming[i] = "approved"})

HearReceiverReady(t) ==
  /\ t \in receiverReady /\ receiverReady' = receiverReady \ {t}
  /\ IF ApprovedItems = <<>> THEN UNCHANGED pairing
     ELSE /\ pairedWith' = [pairedWith EXCEPT ![t] = Head(ApprovedItems)]
          /\ readyAt' = [readyAt EXCEPT ![t] = "keying"]
  /\ UNCHANGED <<sender, incoming, answers, downloads, envelopes, wire, begins,
                 senderReady, fetched>>

Pairing(t, from, to, state) ==
  /\ readyAt[t] = from /\ readyAt' = [readyAt EXCEPT ![t] = to]
  /\ incoming' = [incoming EXCEPT ![pairedWith[t]] = state]
  /\ UNCHANGED <<sender, answers, downloads, pairedWith, envelopes, wire,
                 begins, senderReady, receiverReady>>

Keyed(t) == Pairing(t, "keying", "starting", "receiving") /\ UNCHANGED fetched

(* The service worker has it, and may or may not come to fetch it.         *)
DownloadStarted(t) ==
  /\ Pairing(t, "starting", "over", "done")
  /\ fetched' \in {fetched, fetched \cup {t}}

DownloadFails(t) ==
  /\ \/ Pairing(t, "keying", "over", "failed")
     \/ Pairing(t, "starting", "over", "failed")
  /\ UNCHANGED fetched
-----------------------------------------------------------------------------
ItemNext(i) ==
  \/ Offer(i) \/ HearOffer(i)
  \/ Approve(i) \/ Approved(i) \/ ApproveFails(i) \/ Decline(i)
  \/ HearRequest(i) \/ HearReject(i)

DirectNext(i) ==
  \/ Begin(i) \/ HearReady(i) \/ SendFrame(i) \/ EndSent(i) \/ DirectFails(i)
  \/ TakeBegin(i) \/ Prepared(i) \/ PrepareFails(i)
  \/ TakeData(i) \/ TakeDataFails(i) \/ TakeEnd(i) \/ TakeAbort(i)

RelayNext(t) ==
  \/ BeginRelayed(t) \/ RelayAnswers(t)
  \/ HearSenderReady(t) \/ Uploaded(t) \/ UploadFails(t)
  \/ HearReceiverReady(t) \/ Keyed(t) \/ DownloadStarted(t) \/ DownloadFails(t)

Next ==
  \/ \E i \in Items : ItemNext(i) \/ DirectNext(i) \/ RelayNext(i)
  \/ OpenChannel \/ SenderLinkCloses \/ ReceiverLinkCloses

Spec == Init /\ [][Next]_vars

(* Promises settle: timers end the waits for the channel, for ready and for*)
(* the worker, the relay ends every upload, and each page hears of a       *)
(* channel that the other one lost.  No timer ends the wait of a write for *)
(* a paused download: that the receiver goes on assumes that the browser   *)
(* takes more of the stream or cancels it (transfer.ts:403-409).           *)
Sending ==
  \E i \in Items : \/ Begin(i) \/ HearReady(i) \/ SendFrame(i) \/ EndSent(i)
                  \/ DirectFails(i) \/ BeginRelayed(i) \/ Uploaded(i)
                  \/ UploadFails(i)

Receiving ==
  \E i \in Items : \/ TakeBegin(i) \/ Prepared(i) \/ PrepareFails(i)
                  \/ TakeData(i) \/ TakeDataFails(i) \/ TakeEnd(i)
                  \/ TakeAbort(i)

Downloading ==
  \E t \in Items : Keyed(t) \/ DownloadStarted(t) \/ DownloadFails(t)

Fairness ==
  /\ WF_vars(Sending) /\ WF_vars(Receiving) /\ WF_vars(Downloading)
  /\ WF_vars(sDropped /\ ReceiverLinkCloses /\ rDropped')

FairSpec == Spec /\ Fairness
-----------------------------------------------------------------------------
(* Typing: the types of all variables; a data message is on the channel    *)
(* only within the limit (webrtc.ts, HIGH_WATER), control messages may be  *)
(* past it.                                                                *)
TypeOK ==
  /\ outgoing \in [Items -> {"new", "offered", "sending", "done", "failed",
                             "declined"}]
  /\ queued \in Seq(Items) /\ busy \in BOOLEAN
  /\ sendAt \in [Items -> {"idle", "opening", "beginning", "streaming",
                           "relaying", "uploading", "over"}]
  /\ left \in [Items -> 0..Frames]
  /\ incoming \in [Items -> {"unknown", "pending", "approved", "receiving",
                             "done", "failed", "declined"}]
  /\ arrived \in Seq(Items) /\ approving \in [Items -> 0..MaxClicks]
  /\ preparing \in Items \cup {None} /\ active \in Items \cup {None}
  /\ sink \in [Items -> {"none", "open", "closed", "aborted"}]
  /\ written \in [Items -> Seq(Items \X (1..Frames))]
  /\ pairedWith \in [Items -> Items \cup {None}]
  /\ readyAt \in [Items -> {"idle", "keying", "starting", "over"}]
  /\ offers \subseteq Items /\ requests \in [Items -> 0..MaxClicks]
  /\ rejects \subseteq Items
  /\ channel \in {"connecting", "open"}
  /\ chan \in Seq([t : {"begin", "data", "end", "abort"}, item : Items,
                   n : 0..Frames])
  /\ \A k \in 1..Len(chan) : chan[k].t = "data" => k <= MaxWire
  /\ readies \subseteq Items /\ sDropped \in BOOLEAN /\ rDropped \in BOOLEAN
  /\ begins \subseteq Items /\ senderReady \subseteq Items
  /\ receiverReady \subseteq Items
  /\ fetched \subseteq Items /\ refused \subseteq Items
  /\ together \in BOOLEAN /\ overtaken \subseteq Items

(* A download over the channel is given the frames of its own item, each   *)
(* once and in order, and is saved as complete only with all of them; one  *)
(* that is open has somebody to end it, unless its begin was overtaken by  *)
(* the channel's end (useSession.ts:666-826).                              *)
OwnFrames ==
  \A i \in Items :
    /\ \A k \in 1..Len(written[i]) : written[i][k] = <<i, k>>
    /\ sink[i] = "closed" => Len(written[i]) = Frames
    /\ sink[i] = "open" => active = i \/ i \in overtaken

(* What the user declined before approving it is never sent, on neither    *)
(* way and for no other item's transfer (useSession.ts:605-607, 717-729).  *)
DeclineStands ==
  \A i \in refused :
    /\ incoming[i] = "declined" /\ sendAt[i] = "idle"
    /\ \A t \in Items : pairedWith[t] # i

(* The item that a relayed transfer is received for is the one it was begun*)
(* for, as long as no two items of a peer are approved at one time, and no *)
(* second approval of one fails after the first (useSession.ts:605).       *)
PairedRight == together \/ \A t \in Items : pairedWith[t] \in {None, t}

(* Everything that waits for the peer is sent or not, unless a begin is    *)
(* never answered or its item was declined meanwhile, which holds up the   *)
(* peer for good.                                                          *)
QueueDrains ==
  \/ []<>(~busy /\ queued = <<>>)
  \/ <>[](\E i \in Items : sendAt[i] = "relaying")

ReceivesEnd == []<>(\A i \in Items : incoming[i] # "receiving")

(* The queue drains and every receive ends, whenever the channel opens,    *)
(* drops or fails and whoever approves and declines what                   *)
(* (useSession.ts:306-329, 638-699).                                       *)
TransfersEnd == QueueDrains /\ ReceivesEnd
=============================================================================
