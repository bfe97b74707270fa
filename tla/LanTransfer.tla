---------------------------- MODULE LanTransfer ----------------------------
(***************************************************************************)
(* Files between two machines (internal/network/transfer.go): the sender   *)
(* offers, the receiver queues the offer, its user approves or rejects it, *)
(* the sender connects again with the payload, and the receiver confirms   *)
(* it on the same connection or, if that broke, on one of its own.         *)
(*                                                                         *)
(* Every envelope travels on a connection of its own and is handled by a   *)
(* goroutine of its own, so envelopes overtake each other, and any of them *)
(* may be lost: the connection breaks, the peer is down, or it refuses     *)
(* what it reads.  Commands run one at a time (the console's loop).  The   *)
(* receiver's queue is a DurableQueue.                                     *)
(*                                                                         *)
(* A send is one run of performApprovedFileTransfer together with the      *)
(* receiveFile that it meets.  Contents are not modelled: files says whose *)
(* bytes are at a path, and a send that read everything it was promised    *)
(* left the whole payload there, unless somebody else writes to that path. *)
(***************************************************************************)
EXTENDS Naturals, Sequences, FiniteSets

CONSTANTS
  Offers,         \* offers, by request id
  NameOf,         \* the base name of the offered file
  Sends,          \* payload connections; bound: requests answered with one
  Suffixes,       \* bound: the numbers UniquePath tries
  MaxCrashes, MaxDiskFails,   \* bounds on either machine's mishaps
  None

Names == {NameOf[o] : o \in Offers}

(* "a.txt", "a (1).txt", and so on: a name and the numbers added to it.    *)
Paths ==
  {<<n>> : n \in Names} \cup {<<n, i>> : n \in Names, i \in Suffixes}
    \cup {<<n, i, j>> : n \in Names, i \in Suffixes, j \in Suffixes}

(* There is always a number left, as the code goes on counting.            *)
ASSUME SuffixesAssumption ==
  /\ Suffixes \subseteq Nat /\ IsFiniteSet(Suffixes) /\ IsFiniteSet(Sends)
  /\ Cardinality(Suffixes) >= Cardinality(Sends)

ASSUME NoneAssumption ==
  None \notin Sends \cup Offers \cup Paths \cup {"ok", "error"}

ASSUME BoundsAssumption == MaxCrashes \in Nat /\ MaxDiskFails \in Nat

VARIABLES
  approvals,   \* outgoingApprovals
  saved,       \* outgoing.json
  offerAt,     \* where SendFile is with each offer
  sendAt,      \* the sending goroutine of each send
  offerOf,     \* the offer it is for
  target,      \* TargetPath of the request it answers
  ackSlot,     \* pendingAcks: whose channel each name leads to
  box,         \* what is in that channel
  queue, queueSaved, receiverUp,   \* the receiver's queue
  ui,          \* the approve or reject command in progress
  recvAt,      \* the receiving goroutine of each send
  path,        \* where it writes
  verdict,     \* the status it found for the payload
  files,       \* whose bytes are in the file at each path; none: no file
  sentAll,     \* sends whose payload was written to the connection
  inlineAcks,  \* sends with an acknowledgement on their connection
  offersOut, rejectsOut, acksOut,  \* envelopes on their way
  rejected,    \* history: offers the sender heard a rejection of
  raced,       \* history: two receives were choosing and creating at once
  crashes, diskFails

sender == <<approvals, saved, offerAt, sendAt, ackSlot, box>>
requests == <<offerOf, target>>
theQueue == <<queue, queueSaved, receiverUp>>
receiving == <<recvAt, path, verdict, files>>
wire == <<sentAll, inlineAcks, offersOut, rejectsOut, acksOut>>
history == <<rejected, raced, crashes, diskFails>>
vars == <<sender, requests, theQueue, ui, receiving, wire, history>>

Q == INSTANCE DurableQueue WITH
       Requests <- Offers, pending <- queue, kept <- queueSaved,
       up <- receiverUp

Idle == [verb |-> "idle", item |-> None, target |-> None]

Init ==
  /\ approvals = {} /\ saved = {} /\ offerAt = [o \in Offers |-> "new"]
  /\ sendAt = [s \in Sends |-> "idle"] /\ offerOf = [s \in Sends |-> None]
  /\ target = [s \in Sends |-> None]
  /\ ackSlot = [n \in Names |-> None] /\ box = [s \in Sends |-> None]
  /\ Q!Init /\ ui = Idle
  /\ recvAt = [s \in Sends |-> "idle"] /\ path = [s \in Sends |-> None]
  /\ verdict = [s \in Sends |-> None] /\ files = [p \in Paths |-> {}]
  /\ sentAll = {} /\ inlineAcks = {}
  /\ offersOut = {} /\ rejectsOut = {} /\ acksOut = {}
  /\ rejected = {} /\ raced = FALSE /\ crashes = 0 /\ diskFails = 0

NameFor(s) == NameOf[offerOf[s]]

(* The first of the path and its numbered variants that does not exist.    *)
UniquePath(p) ==
  IF files[p] = {} THEN p
  ELSE Append(p, CHOOSE i \in Suffixes :
                   /\ files[Append(p, i)] = {}
                   /\ \A j \in Suffixes : j < i => files[Append(p, j)] # {})

SetApprovalsMutant(a) ==   \* a slip: nothing is saved
  approvals' = a /\ UNCHANGED <<saved, diskFails>>

(* saveOutgoingApprovalsLocked: a failure is ignored.                      *)
SetApprovals(a) ==
  /\ approvals' = a
  /\ \/ saved' = a /\ UNCHANGED diskFails
     \/ /\ diskFails < MaxDiskFails /\ diskFails' = diskFails + 1
        /\ UNCHANGED saved
-----------------------------------------------------------------------------
(* The sender offers (SendFile).                                           *)
StoreOffer(o) ==
  /\ offerAt[o] = "new"
  /\ offerAt' = [offerAt EXCEPT ![o] = "stored"]
  /\ SetApprovals(approvals \cup {o})
  /\ UNCHANGED <<sendAt, ackSlot, box, requests, theQueue, ui, receiving,
                 wire, rejected, raced, crashes>>

DialOffer(o) ==
  /\ offerAt[o] = "stored"
  /\ offerAt' = [offerAt EXCEPT ![o] = "sent"]
  /\ offersOut' = offersOut \cup {o}
  /\ UNCHANGED <<approvals, saved, sendAt, ackSlot, box, requests, theQueue,
                 ui, receiving, sentAll, inlineAcks, rejectsOut, acksOut,
                 history>>

OfferFails(o) ==
  /\ offerAt[o] = "stored"
  /\ offerAt' = [offerAt EXCEPT ![o] = "failed"]
  /\ SetApprovals(approvals \ {o})
  /\ UNCHANGED <<sendAt, ackSlot, box, requests, theQueue, ui, receiving,
                 wire, rejected, raced, crashes>>

(* The receiver queues it (receiveFileOffer), or the envelope is lost.     *)
ReceiveOffer(o) ==
  /\ o \in offersOut /\ offersOut' = offersOut \ {o}
  /\ Q!Add(o)
  /\ IF queueSaved' = queue' THEN UNCHANGED diskFails
     ELSE diskFails < MaxDiskFails /\ diskFails' = diskFails + 1
  /\ UNCHANGED <<sender, requests, ui, receiving, sentAll, inlineAcks,
                 rejectsOut, acksOut, rejected, raced, crashes>>

LoseOffer(o) ==
  /\ o \in offersOut /\ offersOut' = offersOut \ {o}
  /\ UNCHANGED <<sender, requests, theQueue, ui, receiving, sentAll,
                 inlineAcks, rejectsOut, acksOut, history>>
-----------------------------------------------------------------------------
(* The receiver's user answers (approvePendingByID, rejectPendingByID):    *)
(* the envelope goes out first, then the item leaves the queue.            *)
Answer(verb, o) ==
  /\ receiverUp /\ ui = Idle /\ o \in queue
  /\ ui' = [verb |-> verb, item |-> o,
            target |-> IF verb = "approve" THEN UniquePath(<<NameOf[o]>>)
                       ELSE None]
  /\ UNCHANGED <<sender, requests, theQueue, receiving, wire, history>>

AnswerOut == ui' = [ui EXCEPT !.verb = "removing"]

RequestSent(s) ==
  /\ ui.verb = "approve" /\ AnswerOut
  /\ sendAt[s] = "idle" /\ sendAt' = [sendAt EXCEPT ![s] = "asked"]
  /\ offerOf' = [offerOf EXCEPT ![s] = ui.item]
  /\ target' = [target EXCEPT ![s] = ui.target]
  /\ UNCHANGED <<approvals, saved, offerAt, ackSlot, box, theQueue, receiving,
                 wire, history>>

RejectSent ==
  /\ ui.verb = "reject" /\ AnswerOut
  /\ rejectsOut' = rejectsOut \cup {ui.item}
  /\ UNCHANGED <<sender, requests, theQueue, receiving, sentAll, inlineAcks,
                 offersOut, acksOut, history>>

(* The sender cannot be reached; the item stays in the queue.              *)
AnswerFails ==
  /\ ui.verb \in {"approve", "reject"} /\ ui' = Idle
  /\ UNCHANGED <<sender, requests, theQueue, receiving, wire, history>>

RemoveAnsweredMutant ==   \* a slip: the item stays in the queue
  /\ ui.verb = "removing" /\ ui' = Idle
  /\ UNCHANGED <<sender, requests, theQueue, receiving, wire, history>>

RemoveAnswered ==
  /\ ui.verb = "removing" /\ ui' = Idle
  /\ Q!Remove(ui.item)
  /\ UNCHANGED <<sender, requests, receiving, wire, history>>

(* RemoveFile cannot save, and puts the item back.                         *)
RemoveFails ==
  /\ ui.verb = "removing" /\ ui' = Idle
  /\ diskFails < MaxDiskFails /\ diskFails' = diskFails + 1
  /\ Q!Forget \/ UNCHANGED theQueue
  /\ UNCHANGED <<sender, requests, receiving, wire, rejected, raced, crashes>>
-----------------------------------------------------------------------------
(* The sender hears the answer (handleTransferRejection, handleFileRequest).*)
HearRejection(o) ==
  /\ o \in rejectsOut /\ rejectsOut' = rejectsOut \ {o}
  /\ IF o \in approvals
     THEN SetApprovals(approvals \ {o}) /\ rejected' = rejected \cup {o}
     ELSE UNCHANGED <<approvals, saved, diskFails, rejected>>
  /\ UNCHANGED <<offerAt, sendAt, ackSlot, box, requests, theQueue, ui,
                 receiving, sentAll, inlineAcks, offersOut, acksOut, raced,
                 crashes>>

LoseRejection(o) ==
  /\ o \in rejectsOut /\ rejectsOut' = rejectsOut \ {o}
  /\ UNCHANGED <<sender, requests, theQueue, ui, receiving, sentAll,
                 inlineAcks, offersOut, acksOut, history>>

(* A step of the sending goroutine that touches nothing else of the sender.*)
SendStep(s, from, to) ==
  /\ sendAt[s] = from /\ sendAt' = [sendAt EXCEPT ![s] = to]
  /\ UNCHANGED <<approvals, saved, offerAt, requests, theQueue, ui, history>>

HearRequest(s) ==
  /\ offerOf[s] \in approvals
  /\ SendStep(s, "asked", "opening")
  /\ UNCHANGED <<ackSlot, box, receiving, wire>>

(* The request was lost, or nothing is known of the offer.                 *)
DropRequest(s) ==
  /\ SendStep(s, "asked", "failed")
  /\ UNCHANGED <<ackSlot, box, receiving, wire>>

(* openTransferFile, DialTimeout or writeEnvelope fails.                   *)
DialFails(s) ==
  /\ SendStep(s, "opening", "failed")
  /\ UNCHANGED <<ackSlot, box, receiving, wire>>

DialMutant(s) ==   \* a slip: the channel is found by the offer
  /\ receiverUp
  /\ SendStep(s, "opening", "sending")
  /\ ackSlot' = [ackSlot EXCEPT ![NameFor(s)] = offerOf[s]]
  /\ recvAt' = [recvAt EXCEPT ![s] = "choosing"]
  /\ UNCHANGED <<box, path, verdict, files, wire>>

(* The envelope is written and the channel registered; the receiver's      *)
(* goroutine takes the payload up or refuses it.                           *)
Dial(s) ==
  /\ receiverUp
  /\ SendStep(s, "opening", "sending")
  /\ ackSlot' = [ackSlot EXCEPT ![NameFor(s)] = s]
  /\ \E at \in {"choosing", "over"} : recvAt' = [recvAt EXCEPT ![s] = at]
  /\ UNCHANGED <<box, path, verdict, files, wire>>

SentAll(s) ==
  /\ SendStep(s, "sending", "awaiting")
  /\ sentAll' = sentAll \cup {s}
  /\ UNCHANGED <<ackSlot, box, receiving, inlineAcks, offersOut, rejectsOut,
                 acksOut>>

(* unregisterPendingAck goes by the key, whoever registered last.          *)
SendReturns(s, from, to) ==
  /\ SendStep(s, from, to)
  /\ ackSlot' = [ackSlot EXCEPT ![NameFor(s)] = None]
  /\ UNCHANGED <<box, receiving, wire>>

(* The connection breaks, the file cannot be read, the user cancels.       *)
CopyFails(s) == SendReturns(s, "sending", "failed")

ConfirmedMutant(s) ==   \* a slip: any acknowledgement will do
  s \in inlineAcks /\ SendReturns(s, "awaiting", "delivered")

Confirmed(s) ==
  /\ s \in inlineAcks /\ verdict[s] = "ok"
  /\ SendReturns(s, "awaiting", "delivered")

(* ackTimeout passes, the connection breaks, or the status is an error.    *)
InlineAckFails(s) ==
  /\ SendStep(s, "awaiting", "waiting")
  /\ UNCHANGED <<ackSlot, box, receiving, wire>>

ConfirmedOutOfBand(s) ==
  box[s] = "ok" /\ SendReturns(s, "waiting", "delivered")

NotConfirmedMutant(s) ==   \* a slip: no timeout
  box[s] = "error" /\ SendReturns(s, "waiting", "failed")

(* The channel holds an error, or two seconds pass with nothing in it.     *)
NotConfirmed(s) ==
  box[s] # "ok" /\ SendReturns(s, "waiting", "failed")

DeleteApproval(s) ==
  /\ sendAt[s] = "delivered" /\ sendAt' = [sendAt EXCEPT ![s] = "ok"]
  /\ SetApprovals(approvals \ {offerOf[s]})
  /\ UNCHANGED <<offerAt, ackSlot, box, requests, theQueue, ui, receiving,
                 wire, rejected, raced, crashes>>

(* notifyPendingAck.                                                       *)
HearAck(s) ==
  /\ s \in acksOut /\ acksOut' = acksOut \ {s}
  /\ LET t == ackSlot[NameFor(s)]
     IN  IF t # None /\ box[t] = None
         THEN box' = [box EXCEPT ![t] = verdict[s]]
         ELSE UNCHANGED box
  /\ UNCHANGED <<approvals, saved, offerAt, sendAt, ackSlot, requests,
                 theQueue, ui, receiving, sentAll, inlineAcks, offersOut,
                 rejectsOut, history>>

LoseAck(s) ==
  /\ s \in acksOut /\ acksOut' = acksOut \ {s}
  /\ UNCHANGED <<sender, requests, theQueue, ui, receiving, sentAll,
                 inlineAcks, offersOut, rejectsOut, history>>
-----------------------------------------------------------------------------
(* The receiver takes the payload (receiveFile).                           *)
RecvStep(s, from, to) ==
  /\ recvAt[s] = from /\ recvAt' = [recvAt EXCEPT ![s] = to]
  /\ UNCHANGED <<sender, requests, theQueue, ui, sentAll, offersOut,
                 rejectsOut, rejected, crashes, diskFails>>

ChoosePathMutant(s) ==   \* a slip: the path of the request is taken
  /\ RecvStep(s, "choosing", "creating")
  /\ raced' = (raced \/ \E t \in Sends : recvAt[t] = "creating")
  /\ path' = [path EXCEPT ![s] = target[s]]
  /\ UNCHANGED <<verdict, files, inlineAcks, acksOut>>

ChoosePath(s) ==
  /\ RecvStep(s, "choosing", "creating")
  /\ raced' = (raced \/ \E t \in Sends : recvAt[t] = "creating")
  /\ path' = [path EXCEPT ![s] = UniquePath(target[s])]
  /\ UNCHANGED <<verdict, files, inlineAcks, acksOut>>

(* os.Create empties a file that exists; whoever has it open writes on.    *)
CreateFile(s) ==
  /\ RecvStep(s, "creating", "reading")
  /\ files' = [files EXCEPT ![path[s]] =
                 {s} \cup {t \in @ : recvAt[t] = "reading"}]
  /\ UNCHANGED <<raced, path, verdict, inlineAcks, acksOut>>

CreateFails(s) ==
  /\ RecvStep(s, "creating", "over")
  /\ UNCHANGED <<raced, path, verdict, files, inlineAcks, acksOut>>

(* Everything declared was read, and the checksum decides.                 *)
ReadAll(s) ==
  /\ s \in sentAll
  /\ RecvStep(s, "reading", "acking")
  /\ \E v \in {"ok", "error"} : verdict' = [verdict EXCEPT ![s] = v]
  /\ UNCHANGED <<raced, path, files, inlineAcks, acksOut>>

ReadFailsMutant(s) ==   \* a slip: the end of the connection is no error
  /\ s \in sentAll
  /\ RecvStep(s, "reading", "removing")
  /\ UNCHANGED <<raced, path, verdict, files, inlineAcks, acksOut>>

(* The connection breaks, the service stops or the file cannot be written. *)
ReadFails(s) ==
  /\ RecvStep(s, "reading", "removing")
  /\ UNCHANGED <<raced, path, verdict, files, inlineAcks, acksOut>>

AfterAck(s) == IF verdict[s] = "ok" THEN "stored" ELSE "removing"

AckInline(s) ==
  /\ RecvStep(s, "acking", AfterAck(s))
  /\ inlineAcks' = inlineAcks \cup {s}
  /\ UNCHANGED <<raced, path, verdict, files, acksOut>>

AckInlineFails(s) ==
  /\ RecvStep(s, "acking", "acking out of band")
  /\ UNCHANGED <<raced, path, verdict, files, inlineAcks, acksOut>>

(* The acknowledgement on a connection of its own gets away or does not.   *)
AckOutOfBand(s) ==
  /\ RecvStep(s, "acking out of band", AfterAck(s))
  /\ acksOut' \in {acksOut, acksOut \cup {s}}
  /\ UNCHANGED <<raced, path, verdict, files, inlineAcks>>

RemoveFileMutant(s) ==   \* a slip: the file stays
  /\ RecvStep(s, "removing", "over")
  /\ UNCHANGED <<raced, path, verdict, files, inlineAcks, acksOut>>

(* os.Remove of the path, whoever's file is there by now.                  *)
RemoveFile(s) ==
  /\ RecvStep(s, "removing", "over")
  /\ files' = [files EXCEPT ![path[s]] = {}]
  /\ UNCHANGED <<raced, path, verdict, inlineAcks, acksOut>>
-----------------------------------------------------------------------------
Ended(s) == sendAt[s] \in {"idle", "ok", "failed"}

(* The sender's program stops anywhere and is started again.               *)
SenderRestart ==
  /\ crashes < MaxCrashes /\ crashes' = crashes + 1
  /\ approvals' = saved
  /\ offerAt' = [o \in Offers |-> IF offerAt[o] = "stored" THEN "failed"
                                  ELSE offerAt[o]]
  /\ sendAt' = [s \in Sends |-> IF Ended(s) THEN sendAt[s] ELSE "failed"]
  /\ ackSlot' = [n \in Names |-> None] /\ box' = [s \in Sends |-> None]
  /\ rejectsOut' = {} /\ acksOut' = {}
  /\ UNCHANGED <<saved, requests, theQueue, ui, receiving, sentAll,
                 inlineAcks, offersOut, rejected, raced, diskFails>>

(* The receiver's program stops: nobody cleans up.  It may lose the file   *)
(* of its queue, as PendingQueue shows.                                    *)
ReceiverCrash ==
  /\ receiverUp /\ crashes < MaxCrashes /\ crashes' = crashes + 1
  /\ Q!Crash /\ ui' = Idle
  /\ recvAt' = [s \in Sends |-> IF recvAt[s] \in {"idle", "stored"}
                                THEN recvAt[s] ELSE "over"]
  /\ offersOut' = {}
  /\ UNCHANGED <<sender, requests, path, verdict, files, sentAll, inlineAcks,
                 rejectsOut, acksOut, rejected, raced, diskFails>>

ReceiverStart ==
  /\ Q!Load
  /\ UNCHANGED <<sender, requests, ui, receiving, wire, history>>
-----------------------------------------------------------------------------
OfferNext(o) ==
  \/ StoreOffer(o) \/ DialOffer(o) \/ OfferFails(o)
  \/ ReceiveOffer(o) \/ LoseOffer(o)
  \/ Answer("approve", o) \/ Answer("reject", o)
  \/ HearRejection(o) \/ LoseRejection(o)

AnswerNext ==
  \/ \E s \in Sends : RequestSent(s)
  \/ RejectSent \/ AnswerFails \/ RemoveAnswered \/ RemoveFails

SendNext(s) ==
  \/ HearRequest(s) \/ DropRequest(s) \/ DialFails(s) \/ Dial(s)
  \/ SentAll(s) \/ CopyFails(s) \/ Confirmed(s) \/ InlineAckFails(s)
  \/ ConfirmedOutOfBand(s) \/ NotConfirmed(s) \/ DeleteApproval(s)
  \/ HearAck(s) \/ LoseAck(s)

RecvNext(s) ==
  \/ ChoosePath(s) \/ CreateFile(s) \/ CreateFails(s)
  \/ ReadAll(s) \/ ReadFails(s)
  \/ AckInline(s) \/ AckInlineFails(s) \/ AckOutOfBand(s) \/ RemoveFile(s)

Next ==
  \/ \E o \in Offers : OfferNext(o)
  \/ AnswerNext
  \/ \E s \in Sends : SendNext(s) \/ RecvNext(s)
  \/ SenderRestart \/ ReceiverCrash \/ ReceiverStart

Spec == Init /\ [][Next]_vars

(* The sending goroutine goes on; 12 and 2 seconds end its waiting for an  *)
(* acknowledgement.  No timer ends the writing of a payload: its fairness  *)
(* assumes that the receiver reads or the connection ends.                 *)
SenderFairness ==
  \A s \in Sends :
    /\ WF_vars(HearRequest(s) \/ DropRequest(s))
    /\ WF_vars(Dial(s) \/ DialFails(s))
    /\ WF_vars(SentAll(s) \/ CopyFails(s))
    /\ WF_vars(Confirmed(s) \/ InlineAckFails(s))
    /\ WF_vars(ConfirmedOutOfBand(s) \/ NotConfirmed(s))
    /\ WF_vars(DeleteApproval(s))

(* The receiving one goes on, and reads what was written or that the other *)
(* end of the connection is closed.                                        *)
ReceiverFairness ==
  \A s \in Sends :
    /\ WF_vars(ChoosePath(s))
    /\ WF_vars(CreateFile(s) \/ CreateFails(s))
    /\ WF_vars(ReadAll(s))
    /\ WF_vars(Ended(s) /\ ReadFails(s))
    /\ WF_vars(AckInline(s) \/ AckInlineFails(s))
    /\ WF_vars(AckOutOfBand(s))
    /\ WF_vars(RemoveFile(s))

LiveSpec == Spec /\ SenderFairness /\ ReceiverFairness
-----------------------------------------------------------------------------
(* Typing: the types of all variables.                                     *)
TypeOK ==
  /\ approvals \subseteq Offers /\ saved \subseteq Offers
  /\ offerAt \in [Offers -> {"new", "stored", "sent", "failed"}]
  /\ sendAt \in [Sends -> {"idle", "asked", "opening", "sending", "awaiting",
                           "waiting", "delivered", "ok", "failed"}]
  /\ offerOf \in [Sends -> Offers \cup {None}]
  /\ target \in [Sends -> Paths \cup {None}]
  /\ ackSlot \in [Names -> Sends \cup {None}]
  /\ box \in [Sends -> {"ok", "error", None}]
  /\ queue \subseteq Offers /\ queueSaved \subseteq Offers
  /\ receiverUp \in BOOLEAN
  /\ ui \in [verb : {"idle", "approve", "reject", "removing"},
             item : Offers \cup {None}, target : Paths \cup {None}]
  /\ recvAt \in [Sends -> {"idle", "choosing", "creating", "reading", "acking",
                           "acking out of band", "removing", "stored", "over"}]
  /\ path \in [Sends -> Paths \cup {None}]
  /\ verdict \in [Sends -> {"ok", "error", None}]
  /\ files \in [Paths -> SUBSET Sends]
  /\ sentAll \subseteq Sends /\ inlineAcks \subseteq Sends
  /\ offersOut \subseteq Offers /\ rejectsOut \subseteq Offers
  /\ acksOut \subseteq Sends /\ rejected \subseteq Offers /\ raced \in BOOLEAN
  /\ crashes \in 0..MaxCrashes /\ diskFails \in 0..MaxDiskFails

Sent(o) == \E s \in Sends : offerOf[s] = o /\ sendAt[s] = "ok"

(* An offer that the receiver can see, or could after a restart, can be    *)
(* fetched until it was sent or its rejection heard, through any number of *)
(* restarts of either program (queue_commands_test.go:144), as long as     *)
(* outgoing.json can be written.                                           *)
SeenIsFetchable ==
  diskFails = 0 =>
    \A o \in queue \cup queueSaved \cup offersOut :
      (o \in approvals /\ o \in saved) \/ Sent(o) \/ o \in rejected

(* When a send counts as delivered, so that its approval is dropped and it *)
(* goes into the history, the receiver stored whole a file of its name, and*)
(* so this one if no other of the name was asked for, whichever way and    *)
(* however late the confirmation came (transfer.go:929-944, 766-775).      *)
DeliveredIsTrue ==
  \A s \in Sends : sendAt[s] \in {"delivered", "ok"} =>
    \E t \in Sends : verdict[t] = "ok" /\ NameFor(t) = NameFor(s)

(* Unless the receiver's program stopped, or two receives chose and created *)
(* a path at once, a file that nobody is receiving any more is the whole   *)
(* payload of one verified send: a transfer that failed leaves nothing     *)
(* behind and spoils nothing that another received, whatever the names     *)
(* (transfer.go:1012-1100).                                                *)
WholeOrNothing ==
  ~raced /\ crashes = 0 =>
    \A p \in Paths :
      (\A s \in files[p] : recvAt[s] \in {"idle", "stored", "over"}) =>
        \A s \in files[p] : files[p] = {s} /\ verdict[s] = "ok"

(* What was acknowledged as received stays where it was put, through later *)
(* and concurrent receives of the same name, unless two of them chose and  *)
(* created a path at once.                                                 *)
ReceivedStays ==
  ~raced => \A s \in Sends : recvAt[s] = "stored" => files[path[s]] = {s}

Answers(o) ==
  Cardinality({s \in Sends : offerOf[s] = o})
    + (IF o \in rejected \cup rejectsOut THEN 1 ELSE 0)

(* An offer is answered once: a request for each of its sends and, unless  *)
(* it got lost, a rejection.  A program that stopped between the answer and*)
(* the removal, or a removal that could not be saved, lets the offer be    *)
(* answered again, once for each (queue_commands.go:252-300).              *)
AnsweredOnce == \A o \in Offers : Answers(o) <= 1 + crashes + diskFails

(* A request that was sent is followed by an end of its send, and the      *)
(* sender is told which, through lost messages, confirmations that never   *)
(* come and restarts of either program (transfer.go:909-944).              *)
SendEnds == \A s \in Sends : sendAt[s] = "asked" ~> Ended(s)

(* A receive ends, with the file stored or removed, while the sender runs  *)
(* (transfer.go:1012-1100).                                                *)
ReceiveEnds ==
  \A s \in Sends : recvAt[s] = "choosing" ~> recvAt[s] \in {"stored", "over"}
=============================================================================
