------------------------- MODULE LanTransferProofs --------------------------
(***************************************************************************)
(* Proofs about LanTransfer, for any offers with any names, any number of  *)
(* sends and any bounds that satisfy the module's assumptions: who may be  *)
(* answered, what a confirmation is worth, and whose bytes are at a path.  *)
(*                                                                         *)
(* The invariant has a part for each of the three, and two that they share:*)
(* how far a send is on both sides (Progress), and that a file's bytes are *)
(* of sends that write to its path (Written).                              *)
(***************************************************************************)
EXTENDS LanTransfer, FiniteSetTheorems, SequenceTheorems,
        WellFoundedInduction, TLAPS

(* What a target is: the path the receiver's user was promised.            *)
Targets == {<<n>> : n \in Names} \cup {<<n, i>> : n \in Names, i \in Suffixes}

(* The receives that have a file of their own.                             *)
HasFile == {"reading", "acking", "acking out of band", "removing", "stored"}

(* An offer that may be answered yet, once the command in progress is over.*)
Open(o) ==
  \/ offerAt[o] # "sent" \/ o \in offersOut
  \/ o \in queue \cup queueSaved /\ ~(ui.verb = "removing" /\ ui.item = o)

(* A send begins with a request, and a receive with the send's dial.       *)
Phases(s) ==
  /\ sendAt[s] # "idle" => offerOf[s] \in Offers /\ target[s] \in Targets
  /\ sendAt[s] \in {"idle", "asked", "opening"} => recvAt[s] = "idle"
  /\ recvAt[s] \in {"creating"} \cup HasFile => path[s] \in Paths
  /\ recvAt[s] \in {"idle", "choosing", "creating", "reading"} =>
       verdict[s] = None
  /\ recvAt[s] = "stored" => verdict[s] = "ok"
  /\ s \in acksOut => recvAt[s] # "idle"

Progress ==
  /\ \A s \in Sends : Phases(s)
  /\ ui.verb # "idle" => ui.item \in Offers
  /\ ui.verb = "approve" => ui.target \in Targets

(* Bytes are of sends that write to the path, or did before a crash.       *)
Written ==
  \A p \in Paths : \A s \in files[p] :
    /\ path[s] = p /\ recvAt[s] \in HasFile \cup {"over"}
    /\ recvAt[s] = "over" => raced \/ crashes > 0

(* Two receives never have one path unless they raced for it.              *)
Apart ==
  ~raced =>
    \A s \in Sends :
      /\ recvAt[s] = "creating" =>
           /\ files[path[s]] = {}
           /\ \A t \in Sends : recvAt[t] = "creating" => t = s
      /\ recvAt[s] \in HasFile => files[path[s]] = {s}

(* What was verified of a name.                                            *)
Verified(s) == \E t \in Sends : verdict[t] = "ok" /\ NameFor(t) = NameFor(s)

(* A channel is found by the name of its send, and holds what came of it.  *)
Confirmations ==
  /\ \A n \in Names :
       ackSlot[n] # None => /\ sendAt[ackSlot[n]] # "idle"
                            /\ NameFor(ackSlot[n]) = n
  /\ \A s \in Sends :
       /\ box[s] = "ok" => sendAt[s] # "idle" /\ Verified(s)
       /\ sendAt[s] \in {"delivered", "ok"} => Verified(s)

(* Only an offer that got away is seen, answered or sent.                  *)
Offered ==
  /\ \A o \in queue \cup queueSaved \cup offersOut \cup rejectsOut :
       offerAt[o] = "sent"
  /\ ui.verb # "idle" => offerAt[ui.item] = "sent"
  /\ \A s \in Sends : sendAt[s] # "idle" => offerAt[offerOf[s]] = "sent"

(* An offer is approved until it was sent or its rejection heard.          *)
Fetchable ==
  diskFails = 0 =>
    /\ saved = approvals
    /\ \A o \in Offers :
         /\ offerAt[o] = "stored" => o \in approvals
         /\ offerAt[o] = "sent" =>
              o \in approvals \/ Sent(o) \/ o \in rejected

(* An offer is answered while it is in the queue, and with each mishap it  *)
(* may be so once more.                                                    *)
Due(o) == Answers(o) + (IF Open(o) THEN 1 ELSE 0)

Answering ==
  /\ ui.verb # "idle" => receiverUp /\ ui.item \in queue
  /\ \A o \in offersOut : o \notin queue \cup queueSaved
  /\ \A o \in Offers : Due(o) <= 1 + crashes + diskFails

IInv ==
  /\ TypeOK /\ Progress /\ Written /\ Apart /\ Confirmations
  /\ Offered /\ Fetchable /\ Answering
-----------------------------------------------------------------------------
(* What a number makes of a path.                                          *)
LEMMA Appended ==
  ASSUME NEW n, NEW k, NEW i
  PROVE  Append(<<n>>, i) = <<n, i>> /\ Append(<<n, k>>, i) = <<n, k, i>>
<1> DEFINE S == {n, k, i}
           two == Append(<<n>>, i)
           three == Append(<<n, k>>, i)
<1>1. /\ <<n>> \in Seq(S) /\ <<n, i>> \in Seq(S)
      /\ <<n, k>> \in Seq(S) /\ <<n, k, i>> \in Seq(S)
  OBVIOUS
<1>2. two = <<n, i>>
  <2>1. two \in Seq(S) /\ Len(two) = 2 /\ two[1] = n /\ two[2] = i
    BY <1>1
  <2>2. \A j \in 1..Len(two) : two[j] = <<n, i>>[j]
    <3>1. \A j \in 1..2 : j = 1 \/ j = 2
      OBVIOUS
    <3> QED
      BY <2>1, <3>1
  <2> QED
    BY <1>1, <2>1, <2>2, SeqEqual
<1>3. three = <<n, k, i>>
  <2>1. /\ three \in Seq(S) /\ Len(three) = 3
        /\ three[1] = n /\ three[2] = k /\ three[3] = i
    BY <1>1
  <2>2. \A j \in 1..Len(three) : three[j] = <<n, k, i>>[j]
    <3>1. \A j \in 1..3 : j = 1 \/ j = 2 \/ j = 3
      OBVIOUS
    <3> QED
      BY <2>1, <3>1
  <2> QED
    BY <1>1, <2>1, <2>2, SeqEqual
<1> QED
  BY <1>2, <1>3

(* A number makes a path that is new, and differs from number to number.   *)
LEMMA Numbered ==
  ASSUME NEW p \in Targets
  PROVE  /\ p \in Paths
         /\ \A i \in Suffixes : Append(p, i) \in Paths /\ Append(p, i) # p
         /\ \A i, j \in Suffixes : Append(p, i) = Append(p, j) => i = j
<1>1. CASE \E n \in Names : p = <<n>>
  <2>1. PICK n \in Names : p = <<n>>
    BY <1>1
  <2>2. \A i \in Suffixes : Append(p, i) = <<n, i>>
    BY <2>1, Appended
  <2>3. \A i \in Suffixes : <<n, i>> # <<n>>
    OBVIOUS
  <2> QED
    BY <2>1, <2>2, <2>3 DEF Paths
<1>2. CASE \E n \in Names, k \in Suffixes : p = <<n, k>>
  <2>1. PICK n \in Names, k \in Suffixes : p = <<n, k>>
    BY <1>2
  <2>2. \A i \in Suffixes : Append(p, i) = <<n, k, i>>
    BY <2>1, Appended
  <2>3. \A i \in Suffixes : <<n, k, i>> # <<n, k>>
    OBVIOUS
  <2> QED
    BY <2>1, <2>2, <2>3 DEF Paths
<1> QED
  BY <1>1, <1>2 DEF Targets

(* There are not files enough to use up the numbers.                       *)
LEMMA NumberLeft ==
  ASSUME TypeOK, Written, NEW p \in Targets, files[p] # {}
  PROVE  \E i \in Suffixes : files[Append(p, i)] = {}
<1> SUFFICES ASSUME \A i \in Suffixes : files[Append(p, i)] # {}
             PROVE  FALSE
  OBVIOUS
<1>1. p \in Paths /\ \A i \in Suffixes : Append(p, i) \in Paths
  BY Numbered
<1>2. PICK s \in Sends : s \in files[p]
  BY <1>1 DEF TypeOK
<1> DEFINE others == Sends \ {s}
           owner == [i \in Suffixes |->
                       CHOOSE t \in Sends : t \in files[Append(p, i)]]
<1>3. \A i \in Suffixes :
        owner[i] \in Sends /\ owner[i] \in files[Append(p, i)]
  <2> SUFFICES ASSUME NEW i \in Suffixes
               PROVE  owner[i] \in Sends /\ owner[i] \in files[Append(p, i)]
    OBVIOUS
  <2>1. \E t \in Sends : t \in files[Append(p, i)]
    BY <1>1 DEF TypeOK
  <2> QED
    BY <2>1
<1>4. \A i \in Suffixes : path[owner[i]] = Append(p, i)
  BY <1>1, <1>3 DEF Written
<1>5. path[s] = p
  BY <1>1, <1>2 DEF Written
<1>6. owner \in [Suffixes -> others]
  BY <1>3, <1>4, <1>5, Numbered
<1>7. /\ IsFiniteSet(others)
      /\ Cardinality(others) = Cardinality(Sends) - 1
  BY FS_RemoveElement, SuffixesAssumption
<1>8. Cardinality(others) < Cardinality(Suffixes)
  BY <1>7, FS_CardinalityType, SuffixesAssumption
<1> HIDE DEF owner, others
<1>9. \E i, j \in Suffixes : i # j /\ owner[i] = owner[j]
  BY <1>6, <1>7, <1>8, FS_PigeonHole, SuffixesAssumption
<1> QED
  BY <1>4, <1>9, Numbered

(* UniquePath finds a path that no file has.                               *)
LEMMA FreePath ==
  ASSUME TypeOK, Written, NEW p \in Targets
  PROVE  /\ UniquePath(p) \in Paths /\ files[UniquePath(p)] = {}
         /\ \A n \in Names : p = <<n>> => UniquePath(p) \in Targets
<1>1. CASE files[p] = {}
  BY <1>1, Numbered DEF UniquePath
<1>2. CASE files[p] # {}
  <2> DEFINE free == {i \in Suffixes : files[Append(p, i)] = {}}
             First(i) == /\ files[Append(p, i)] = {}
                         /\ \A j \in Suffixes :
                              j < i => files[Append(p, j)] # {}
  <2>1. free # {} /\ free \subseteq Nat
    BY <1>2, NumberLeft, SuffixesAssumption
  <2>2. \E i \in free : \A j \in free : ~(<<j, i>> \in OpToRel(<, Nat))
    BY <2>1, NatLessThanWellFounded, WFMin
  <2>3. \E i \in Suffixes : First(i)
    BY <2>1, <2>2, SuffixesAssumption DEF OpToRel
  <2>4. PICK i \in Suffixes : First(i) /\ UniquePath(p) = Append(p, i)
    BY <1>2, <2>3 DEF UniquePath
  <2>5. \A n \in Names : p = <<n>> => Append(p, i) = <<n, i>>
    BY Appended
  <2> QED
    BY <2>4, <2>5, Numbered DEF Targets
<1> QED
  BY <1>1, <1>2
-----------------------------------------------------------------------------
(* What the four kinds of steps leave alone.                               *)
LEMMA OfferFrame ==
  ASSUME NEW o \in Offers, OfferNext(o)
  PROVE  UNCHANGED <<sendAt, ackSlot, box, offerOf, target, recvAt, path,
                     verdict, files, sentAll, inlineAcks, acksOut, raced,
                     crashes>>
<1> USE DEF sender, requests, theQueue, receiving, wire, history
<1>1. CASE StoreOffer(o) \/ DialOffer(o) \/ OfferFails(o)
  BY <1>1 DEF StoreOffer, DialOffer, OfferFails
<1>2. CASE ReceiveOffer(o) \/ LoseOffer(o)
  BY <1>2 DEF ReceiveOffer, LoseOffer
<1>3. CASE HearRejection(o) \/ LoseRejection(o)
  BY <1>3 DEF HearRejection, LoseRejection
<1>4. CASE Answer("approve", o) \/ Answer("reject", o)
  BY <1>4 DEF Answer
<1> QED
  BY <1>1, <1>2, <1>3, <1>4 DEF OfferNext

LEMMA AnswerFrame ==
  ASSUME AnswerNext
  PROVE  UNCHANGED <<approvals, saved, offerAt, ackSlot, box, recvAt, path,
                     verdict, files, sentAll, inlineAcks, offersOut, acksOut,
                     rejected, raced, crashes>>
<1> USE DEF sender, requests, theQueue, receiving, wire, history
<1>1. CASE \E s \in Sends : RequestSent(s)
  BY <1>1 DEF RequestSent
<1>2. CASE RejectSent \/ AnswerFails
  BY <1>2 DEF RejectSent, AnswerFails
<1>3. CASE RemoveAnswered \/ RemoveFails
  BY <1>3 DEF RemoveAnswered, RemoveFails
<1> QED
  BY <1>1, <1>2, <1>3 DEF AnswerNext

LEMMA SendFrame ==
  ASSUME NEW s \in Sends, SendNext(s)
  PROVE  /\ UNCHANGED <<offerAt, offerOf, target, queue, queueSaved,
                        receiverUp, ui, path, verdict, files, inlineAcks,
                        offersOut, rejectsOut, rejected, raced, crashes>>
         /\ Dial(s) \/ UNCHANGED recvAt
         /\ DeleteApproval(s) \/ UNCHANGED <<approvals, saved, diskFails>>
         /\ acksOut' \subseteq acksOut
<1> USE DEF sender, requests, theQueue, receiving, wire, history, SendStep
<1>1. CASE HearRequest(s) \/ DropRequest(s) \/ DialFails(s) \/ Dial(s)
  BY <1>1 DEF HearRequest, DropRequest, DialFails, Dial
<1>2. CASE SentAll(s) \/ InlineAckFails(s)
  BY <1>2 DEF SentAll, InlineAckFails
<1>3. CASE \/ CopyFails(s) \/ Confirmed(s) \/ ConfirmedOutOfBand(s)
           \/ NotConfirmed(s)
  BY <1>3 DEF CopyFails, Confirmed, ConfirmedOutOfBand, NotConfirmed,
              SendReturns
<1>4. CASE DeleteApproval(s)
  BY <1>4 DEF DeleteApproval
<1>5. CASE HearAck(s) \/ LoseAck(s)
  BY <1>5 DEF HearAck, LoseAck
<1> QED
  BY <1>1, <1>2, <1>3, <1>4, <1>5 DEF SendNext

LEMMA RecvFrame ==
  ASSUME NEW s \in Sends, RecvNext(s)
  PROVE  UNCHANGED <<approvals, saved, offerAt, sendAt, ackSlot, box, offerOf,
                     target, queue, queueSaved, receiverUp, ui, sentAll,
                     offersOut, rejectsOut, rejected, crashes, diskFails>>
<1>1. PICK from, to : RecvStep(s, from, to)
  BY DEF RecvNext, ChoosePath, CreateFile, CreateFails, ReadAll, ReadFails,
         AckInline, AckInlineFails, AckOutOfBand, RemoveFile
<1> QED
  BY <1>1 DEF RecvStep, sender, requests, theQueue

(* Nothing but a failing disk keeps outgoing.json from being written.      *)
LEMMA Approving ==
  ASSUME TypeOK, NEW a \in SUBSET Offers, SetApprovals(a)
  PROVE  /\ approvals' = a /\ saved' \subseteq Offers
         /\ diskFails' \in 0..MaxDiskFails /\ diskFails' >= diskFails
         /\ diskFails' = 0 => saved' = a
<1>1. /\ diskFails \in 0..MaxDiskFails /\ MaxDiskFails \in Nat
      /\ saved \subseteq Offers
  BY BoundsAssumption DEF TypeOK
<1> QED
  BY <1>1 DEF SetApprovals
-----------------------------------------------------------------------------
(* The initial states satisfy the invariant.                               *)
LEMMA InitInv == Init => IInv
<1> SUFFICES ASSUME Init PROVE IInv
  OBVIOUS
<1> USE NoneAssumption DEF Init, Idle, Q!Init
<1>1. TypeOK
  <2>1. ui \in [verb : {"idle", "approve", "reject", "removing"},
                item : Offers \cup {None}, target : Paths \cup {None}]
    OBVIOUS
  <2>2. crashes \in 0..MaxCrashes /\ diskFails \in 0..MaxDiskFails
    BY BoundsAssumption
  <2>3. files \in [Paths -> SUBSET Sends]
    OBVIOUS
  <2> QED
    BY <2>1, <2>2, <2>3 DEF TypeOK
<1>2. Progress /\ Written /\ Apart
  BY DEF Progress, Phases, Written, Apart, HasFile
<1>3. Confirmations /\ Offered /\ Fetchable
  BY DEF Confirmations, Offered, Fetchable
<1>4. Answering
  <2>1. \A o \in Offers : Answers(o) = 0
    <3>1. \A o \in Offers : {s \in Sends : offerOf[s] = o} = {}
      OBVIOUS
    <3> QED
      BY <3>1, FS_EmptySet DEF Answers
  <2> QED
    BY <2>1 DEF Answering, Due
<1> QED
  BY <1>1, <1>2, <1>3, <1>4 DEF IInv

-----------------------------------------------------------------------------
(* Every step preserves the typing.                                        *)
LEMMA OfferTypes ==
  ASSUME IInv, NEW o \in Offers, OfferNext(o)
  PROVE  TypeOK'
<1> USE BoundsAssumption DEF sender, requests, theQueue, receiving, wire,
                             history
<1>0. TypeOK /\ Written
  BY DEF IInv
<1>1. UNCHANGED <<sendAt, ackSlot, box, offerOf, target, recvAt, path,
                  verdict, files, sentAll, inlineAcks, acksOut, raced,
                  crashes>>
  BY OfferFrame
<1>2. /\ approvals' \subseteq Offers /\ saved' \subseteq Offers
      /\ diskFails' \in 0..MaxDiskFails
  <2>1. CASE StoreOffer(o) \/ OfferFails(o) \/ HearRejection(o)
    <3>1. \/ SetApprovals(approvals \cup {o}) \/ SetApprovals(approvals \ {o})
          \/ UNCHANGED <<approvals, saved, diskFails>>
      BY <2>1 DEF StoreOffer, OfferFails, HearRejection
    <3>2. /\ approvals \cup {o} \subseteq Offers
          /\ approvals \ {o} \subseteq Offers
      BY <1>0 DEF TypeOK
    <3>3. /\ approvals \subseteq Offers /\ saved \subseteq Offers
          /\ diskFails \in 0..MaxDiskFails
      BY <1>0 DEF TypeOK
    <3> QED
      BY <1>0, <3>1, <3>2, <3>3, Approving
  <2>2. CASE ReceiveOffer(o)
    <3>1. /\ diskFails \in 0..MaxDiskFails /\ MaxDiskFails \in Nat
          /\ approvals \subseteq Offers /\ saved \subseteq Offers
      BY <1>0, BoundsAssumption DEF TypeOK
    <3> QED
      BY <2>2, <3>1 DEF ReceiveOffer
  <2>3. CASE \/ DialOffer(o) \/ LoseOffer(o) \/ LoseRejection(o)
             \/ Answer("approve", o) \/ Answer("reject", o)
    BY <1>0, <2>3
       DEF DialOffer, LoseOffer, LoseRejection, Answer, TypeOK
  <2> QED
    BY <2>1, <2>2, <2>3 DEF OfferNext
<1>3. /\ offerAt' \in [Offers -> {"new", "stored", "sent", "failed"}]
      /\ offersOut' \subseteq Offers /\ rejectsOut' \subseteq Offers
      /\ rejected' \subseteq Offers
  <2>1. CASE StoreOffer(o) \/ DialOffer(o) \/ OfferFails(o)
    BY <1>0, <2>1 DEF StoreOffer, DialOffer, OfferFails, TypeOK
  <2>2. CASE ReceiveOffer(o) \/ LoseOffer(o)
    BY <1>0, <2>2 DEF ReceiveOffer, LoseOffer, TypeOK
  <2>3. CASE HearRejection(o) \/ LoseRejection(o)
    <3>1. /\ offerAt \in [Offers -> {"new", "stored", "sent", "failed"}]
          /\ offersOut \subseteq Offers /\ rejectsOut \subseteq Offers
          /\ rejected \subseteq Offers
      BY <1>0 DEF TypeOK
    <3> QED
      BY <2>3, <3>1 DEF HearRejection, LoseRejection
  <2>4. CASE Answer("approve", o) \/ Answer("reject", o)
    BY <1>0, <2>4 DEF Answer, TypeOK
  <2> QED
    BY <2>1, <2>2, <2>3, <2>4 DEF OfferNext
<1>4. /\ queue' \subseteq Offers /\ queueSaved' \subseteq Offers
      /\ receiverUp' \in BOOLEAN
      /\ ui' \in [verb : {"idle", "approve", "reject", "removing"},
                  item : Offers \cup {None}, target : Paths \cup {None}]
  <2>1. CASE \/ StoreOffer(o) \/ DialOffer(o) \/ OfferFails(o)
             \/ LoseOffer(o) \/ HearRejection(o) \/ LoseRejection(o)
    <3>1. UNCHANGED <<queue, queueSaved, receiverUp, ui>>
      BY <2>1 DEF StoreOffer, DialOffer, OfferFails, LoseOffer, HearRejection,
                  LoseRejection
    <3> QED
      BY <1>0, <3>1 DEF TypeOK
  <2>2. CASE ReceiveOffer(o)
    BY <1>0, <2>2 DEF ReceiveOffer, Q!Add, TypeOK
  <2>3. CASE Answer("approve", o) \/ Answer("reject", o)
    <3>1. <<NameOf[o]>> \in Targets
      BY DEF Targets, Names
    <3>2. UniquePath(<<NameOf[o]>>) \in Paths
      BY <1>0, <3>1, FreePath
    <3>3. /\ UNCHANGED <<queue, queueSaved, receiverUp>>
          /\ \E verb \in {"approve", "reject"},
                p \in {None, UniquePath(<<NameOf[o]>>)} :
               ui' = [verb |-> verb, item |-> o, target |-> p]
      BY <2>3 DEF Answer
    <3>4. /\ queue \subseteq Offers /\ queueSaved \subseteq Offers
          /\ receiverUp \in BOOLEAN
      BY <1>0 DEF TypeOK
    <3> QED
      BY <3>2, <3>3, <3>4
  <2> QED
    BY <2>1, <2>2, <2>3 DEF OfferNext
<1> QED
  BY <1>0, <1>1, <1>2, <1>3, <1>4 DEF TypeOK

LEMMA AnswerTypes ==
  ASSUME IInv, AnswerNext
  PROVE  TypeOK'
<1> USE DEF sender, requests, theQueue, receiving, wire, history
<1>0. TypeOK /\ Progress
  BY DEF IInv
<1>1. UNCHANGED <<approvals, saved, offerAt, ackSlot, box, recvAt, path,
                  verdict, files, sentAll, inlineAcks, offersOut, acksOut,
                  rejected, raced, crashes>>
  BY AnswerFrame
<1>2. ASSUME NEW s \in Sends, RequestSent(s) PROVE TypeOK'
  BY <1>0, <1>1, <1>2 DEF RequestSent, AnswerOut, TypeOK
<1>3. CASE RejectSent
  BY <1>0, <1>1, <1>3 DEF RejectSent, AnswerOut, TypeOK, Progress
<1>4. CASE AnswerFails
  BY <1>0, <1>1, <1>4 DEF AnswerFails, Idle, TypeOK
<1>5. CASE RemoveAnswered
  BY <1>0, <1>1, <1>5 DEF RemoveAnswered, Idle, Q!Remove, TypeOK
<1>6. CASE RemoveFails
  <2>1. diskFails' \in 0..MaxDiskFails
    <3>1. diskFails \in 0..MaxDiskFails /\ MaxDiskFails \in Nat
      BY <1>0, BoundsAssumption DEF TypeOK
    <3> QED
      BY <1>6, <3>1 DEF RemoveFails
  <2> QED
    BY <1>0, <1>1, <1>6, <2>1 DEF RemoveFails, Idle, Q!Forget, TypeOK
<1> QED
  BY <1>2, <1>3, <1>4, <1>5, <1>6 DEF AnswerNext

LEMMA SendTypes ==
  ASSUME IInv, NEW s \in Sends, SendNext(s)
  PROVE  TypeOK'
<1> USE DEF sender, requests, theQueue, receiving, wire, history
<1> DEFINE SendStates == {"idle", "asked", "opening", "sending", "awaiting",
                          "waiting", "delivered", "ok", "failed"}
<1>0. TypeOK /\ Progress
  BY DEF IInv
<1>1. UNCHANGED <<offerAt, offerOf, target, queue, queueSaved, receiverUp, ui,
                  path, verdict, files, inlineAcks, offersOut, rejectsOut,
                  rejected, raced, crashes>>
  BY SendFrame
<1>2. /\ approvals' \subseteq Offers /\ saved' \subseteq Offers
      /\ diskFails' \in 0..MaxDiskFails
  <2>1. CASE DeleteApproval(s)
    <3>1. approvals \ {offerOf[s]} \in SUBSET Offers
      BY <1>0 DEF TypeOK
    <3> QED
      BY <1>0, <2>1, <3>1, Approving DEF DeleteApproval
  <2>2. CASE UNCHANGED <<approvals, saved, diskFails>>
    BY <1>0, <2>2 DEF TypeOK
  <2> QED
    BY <2>1, <2>2, SendFrame
<1>3. /\ sendAt \in [Sends -> SendStates]
      /\ ackSlot \in [Names -> Sends \cup {None}]
      /\ box \in [Sends -> {"ok", "error", None}]
      /\ verdict \in [Sends -> {"ok", "error", None}]
      /\ sentAll \subseteq Sends
  BY <1>0 DEF TypeOK
<1>4. /\ sendAt' \in [Sends -> SendStates]
      /\ ackSlot' \in [Names -> Sends \cup {None}]
      /\ box' \in [Sends -> {"ok", "error", None}]
      /\ sentAll' \subseteq Sends
  <2>1. CASE \/ HearRequest(s) \/ DropRequest(s) \/ DialFails(s)
             \/ InlineAckFails(s)
    BY <1>3, <2>1 DEF HearRequest, DropRequest, DialFails, InlineAckFails,
                      SendStep
  <2>2. CASE Dial(s)
    BY <1>3, <2>2 DEF Dial, SendStep
  <2>3. CASE SentAll(s)
    BY <1>3, <2>3 DEF SentAll, SendStep
  <2>4. CASE \/ CopyFails(s) \/ Confirmed(s) \/ ConfirmedOutOfBand(s)
             \/ NotConfirmed(s)
    <3>1. \E from \in SendStates, to \in SendStates : SendReturns(s, from, to)
      BY <2>4 DEF CopyFails, Confirmed, ConfirmedOutOfBand, NotConfirmed
    <3>2. PICK from \in SendStates, to \in SendStates :
            /\ sendAt' = [sendAt EXCEPT ![s] = to]
            /\ ackSlot' = [ackSlot EXCEPT ![NameFor(s)] = None]
            /\ UNCHANGED <<box, verdict, sentAll>>
      BY <3>1 DEF SendReturns, SendStep
    <3> QED
      BY <1>3, <3>2
  <2>5. CASE DeleteApproval(s)
    BY <1>3, <2>5 DEF DeleteApproval
  <2>6. CASE HearAck(s)
    BY <1>3, <2>6 DEF HearAck
  <2>7. CASE LoseAck(s)
    BY <1>3, <2>7 DEF LoseAck
  <2> QED
    BY <2>1, <2>2, <2>3, <2>4, <2>5, <2>6, <2>7 DEF SendNext
<1>5. recvAt' \in [Sends -> {"idle", "choosing", "creating", "reading",
                             "acking", "acking out of band", "removing",
                             "stored", "over"}]
  <2>1. CASE Dial(s)
    BY <1>0, <2>1 DEF Dial, TypeOK
  <2> QED
    BY <1>0, <2>1, SendFrame DEF TypeOK
<1>6. acksOut' \subseteq Sends
  BY <1>0, SendFrame DEF TypeOK
<1> QED
  BY <1>0, <1>1, <1>2, <1>4, <1>5, <1>6 DEF TypeOK

LEMMA RecvTypes ==
  ASSUME IInv, NEW s \in Sends, RecvNext(s)
  PROVE  TypeOK'
<1>0. TypeOK /\ Progress /\ Written
  BY DEF IInv
<1>1. UNCHANGED <<approvals, saved, offerAt, sendAt, ackSlot, box, offerOf,
                  target, queue, queueSaved, receiverUp, ui, sentAll,
                  offersOut, rejectsOut, rejected, crashes, diskFails>>
  BY RecvFrame
<1>2. CASE ChoosePath(s)
  <2>1. UniquePath(target[s]) \in Paths
    BY <1>0, <1>2, FreePath DEF ChoosePath, RecvStep, Progress, Phases
  <2> QED
    BY <1>0, <1>1, <1>2, <2>1 DEF ChoosePath, RecvStep, TypeOK
<1>3. CASE CreateFile(s)
  BY <1>0, <1>1, <1>3 DEF CreateFile, RecvStep, TypeOK
<1>4. CASE RemoveFile(s)
  BY <1>0, <1>1, <1>4 DEF RemoveFile, RecvStep, TypeOK
<1>5. CASE CreateFails(s) \/ ReadFails(s) \/ AckInlineFails(s)
  <2>1. /\ UNCHANGED <<raced, path, verdict, files, inlineAcks, acksOut>>
        /\ \E to \in {"over", "removing", "acking out of band"} :
             recvAt' = [recvAt EXCEPT ![s] = to]
    BY <1>5 DEF CreateFails, ReadFails, AckInlineFails, RecvStep
  <2>2. recvAt' \in [Sends -> {"idle", "choosing", "creating", "reading",
                               "acking", "acking out of band", "removing",
                               "stored", "over"}]
    BY <1>0, <2>1 DEF TypeOK
  <2> QED
    BY <1>0, <1>1, <2>1, <2>2 DEF TypeOK
<1>6. CASE ReadAll(s)
  <2>1. /\ UNCHANGED <<raced, path, files, inlineAcks, acksOut>>
        /\ recvAt' = [recvAt EXCEPT ![s] = "acking"]
        /\ \E v \in {"ok", "error"} : verdict' = [verdict EXCEPT ![s] = v]
    BY <1>6 DEF ReadAll, RecvStep
  <2>2. verdict' \in [Sends -> {"ok", "error", None}]
    BY <1>0, <2>1 DEF TypeOK
  <2> QED
    BY <1>0, <1>1, <2>1, <2>2 DEF TypeOK
<1>7. CASE AckInline(s)
  BY <1>0, <1>1, <1>7 DEF AckInline, AfterAck, RecvStep, TypeOK
<1>8. CASE AckOutOfBand(s)
  BY <1>0, <1>1, <1>8 DEF AckOutOfBand, AfterAck, RecvStep, TypeOK
<1> QED
  BY <1>2, <1>3, <1>4, <1>5, <1>6, <1>7, <1>8 DEF RecvNext

LEMMA TypeStep == IInv /\ [Next]_vars => TypeOK'
<1> SUFFICES ASSUME IInv, [Next]_vars PROVE TypeOK'
  OBVIOUS
<1> USE DEF sender, requests, theQueue, receiving, wire, history
<1>0. TypeOK
  BY DEF IInv
<1>1. crashes \in 0..MaxCrashes /\ MaxCrashes \in Nat
  BY <1>0, BoundsAssumption DEF TypeOK
<1>2. CASE SenderRestart
  <2>1. crashes' \in 0..MaxCrashes
    BY <1>2, <1>1 DEF SenderRestart
  <2>2. offerAt' \in [Offers -> {"new", "stored", "sent", "failed"}]
    BY <1>0, <1>2 DEF SenderRestart, TypeOK
  <2>3. /\ sendAt' \in [Sends -> {"idle", "asked", "opening", "sending",
                                  "awaiting", "waiting", "delivered", "ok",
                                  "failed"}]
        /\ ackSlot' \in [Names -> Sends \cup {None}]
        /\ box' \in [Sends -> {"ok", "error", None}]
    BY <1>0, <1>2 DEF SenderRestart, TypeOK
  <2> QED
    BY <1>0, <1>2, <2>1, <2>2, <2>3 DEF SenderRestart, TypeOK
<1>3. CASE ReceiverCrash
  <2>1. crashes' \in 0..MaxCrashes
    BY <1>3, <1>1 DEF ReceiverCrash
  <2>2. recvAt' \in [Sends -> {"idle", "choosing", "creating", "reading",
                               "acking", "acking out of band", "removing",
                               "stored", "over"}]
    BY <1>0, <1>3 DEF ReceiverCrash, TypeOK
  <2> QED
    BY <1>0, <1>3, <2>1, <2>2 DEF ReceiverCrash, Idle, Q!Crash, TypeOK
<1>4. CASE ReceiverStart
  BY <1>0, <1>4 DEF ReceiverStart, Q!Load, TypeOK
<1>5. CASE UNCHANGED vars
  BY <1>0, <1>5 DEF vars, TypeOK
<1> QED
  BY <1>2, <1>3, <1>4, <1>5, OfferTypes, AnswerTypes, SendTypes, RecvTypes
     DEF Next
-----------------------------------------------------------------------------
(* How a send moves on.                                                    *)
LEMMA SendMoves ==
  ASSUME TypeOK, NEW s \in Sends, SendNext(s)
  PROVE  /\ \A t \in Sends \ {s} : /\ sendAt'[t] = sendAt[t]
                                   /\ recvAt'[t] = recvAt[t]
         /\ \/ sendAt'[s] = sendAt[s] /\ UNCHANGED recvAt
            \/ /\ sendAt[s] = "asked" /\ sendAt'[s] = "opening"
               /\ UNCHANGED recvAt
            \/ /\ sendAt[s] = "opening" /\ sendAt'[s] = "sending"
               /\ recvAt'[s] \in {"choosing", "over"}
            \/ /\ sendAt[s] \notin {"idle", "ok", "failed"}
               /\ sendAt'[s] \in {"awaiting", "waiting", "delivered", "ok",
                                  "failed"}
               /\ UNCHANGED recvAt
<1> DEFINE SendStates == {"idle", "asked", "opening", "sending", "awaiting",
                          "waiting", "delivered", "ok", "failed"}
<1> USE DEF receiving, SendStep
<1>0. sendAt \in [Sends -> SendStates] /\ DOMAIN recvAt = Sends
  BY DEF TypeOK
<1>1. CASE HearRequest(s)
  BY <1>0, <1>1 DEF HearRequest
<1>2. CASE DropRequest(s) \/ DialFails(s)
  BY <1>0, <1>2 DEF DropRequest, DialFails
<1>3. CASE Dial(s)
  BY <1>0, <1>3 DEF Dial
<1>4. CASE SentAll(s) \/ InlineAckFails(s)
  BY <1>0, <1>4 DEF SentAll, InlineAckFails
<1>5. CASE CopyFails(s) \/ Confirmed(s)
  BY <1>0, <1>5 DEF CopyFails, Confirmed, SendReturns
<1>6. CASE ConfirmedOutOfBand(s) \/ NotConfirmed(s)
  BY <1>0, <1>6 DEF ConfirmedOutOfBand, NotConfirmed, SendReturns
<1>7. CASE DeleteApproval(s)
  BY <1>0, <1>7 DEF DeleteApproval
<1>8. CASE HearAck(s) \/ LoseAck(s)
  BY <1>0, <1>8 DEF HearAck, LoseAck, sender
<1> QED
  BY <1>1, <1>2, <1>3, <1>4, <1>5, <1>6, <1>7, <1>8 DEF SendNext

(* A receive that moves on leaves the others alone.                        *)
LEMMA RecvMoves ==
  ASSUME TypeOK, NEW s \in Sends, RecvNext(s)
  PROVE  /\ \A t \in Sends \ {s} : /\ recvAt'[t] = recvAt[t]
                                   /\ path'[t] = path[t]
                                   /\ verdict'[t] = verdict[t]
                                   /\ t \in acksOut' => t \in acksOut
         /\ recvAt[s] # "idle"
<1>0. /\ DOMAIN recvAt = Sends /\ DOMAIN path = Sends
      /\ DOMAIN verdict = Sends
  BY DEF TypeOK
<1> USE <1>0 DEF RecvStep
<1>1. CASE ChoosePath(s)
  BY <1>1 DEF ChoosePath
<1>2. CASE CreateFile(s) \/ CreateFails(s) \/ RemoveFile(s) \/ ReadFails(s)
  BY <1>2 DEF CreateFile, CreateFails, RemoveFile, ReadFails
<1>3. CASE ReadAll(s)
  BY <1>3 DEF ReadAll
<1>4. CASE AckInline(s) \/ AckInlineFails(s) \/ AckOutOfBand(s)
  BY <1>4 DEF AckInline, AckInlineFails, AckOutOfBand
<1> QED
  BY <1>1, <1>2, <1>3, <1>4 DEF RecvNext

(* Every step keeps both sides of a send together.                         *)
LEMMA PhasesStep ==
  ASSUME IInv, [Next]_vars, NEW t \in Sends
  PROVE  Phases(t)'
<1>0. TypeOK /\ Progress /\ Written /\ Phases(t)
  BY DEF IInv, Progress
<1>1. ASSUME NEW o \in Offers, OfferNext(o) PROVE Phases(t)'
  BY <1>0, <1>1, OfferFrame DEF Phases
<1>2. CASE AnswerNext
  <2>0. UNCHANGED <<recvAt, path, verdict, acksOut>>
    BY <1>2, AnswerFrame
  <2>1. ASSUME NEW s \in Sends, RequestSent(s) PROVE Phases(t)'
    <3>1. CASE s = t
      <4>1. sendAt'[t] = "asked" /\ recvAt[t] = "idle"
        BY <1>0, <2>1, <3>1 DEF RequestSent, Phases, TypeOK
      <4>2. offerOf'[t] \in Offers /\ target'[t] \in Targets
        BY <1>0, <2>1, <3>1 DEF RequestSent, Progress, TypeOK
      <4> QED
        BY <1>0, <2>0, <4>1, <4>2 DEF Phases, HasFile
    <3>2. CASE s # t
      <4>1. /\ sendAt'[t] = sendAt[t] /\ offerOf'[t] = offerOf[t]
            /\ target'[t] = target[t]
        BY <1>0, <2>1, <3>2 DEF RequestSent, TypeOK
      <4> QED
        BY <1>0, <2>0, <4>1 DEF Phases
    <3> QED
      BY <3>1, <3>2
  <2>2. CASE RejectSent \/ AnswerFails \/ RemoveAnswered \/ RemoveFails
    <3>1. UNCHANGED <<sendAt, offerOf, target>>
      BY <2>2 DEF RejectSent, AnswerFails, RemoveAnswered, RemoveFails, sender,
                  requests
    <3> QED
      BY <1>0, <2>0, <3>1 DEF Phases
  <2> QED
    BY <1>2, <2>1, <2>2 DEF AnswerNext
<1>3. ASSUME NEW s \in Sends, SendNext(s) PROVE Phases(t)'
  <2>1. /\ UNCHANGED <<offerOf, target, path, verdict>>
        /\ acksOut' \subseteq acksOut
    BY <1>3, SendFrame
  <2>2. CASE s = t
    BY <1>0, <1>3, <2>1, <2>2, SendMoves DEF Phases, HasFile
  <2>3. CASE s # t
    <3>1. sendAt'[t] = sendAt[t] /\ recvAt'[t] = recvAt[t]
      BY <1>0, <1>3, <2>3, SendMoves
    <3> QED
      BY <1>0, <2>1, <3>1 DEF Phases
  <2> QED
    BY <2>2, <2>3
<1>4. ASSUME NEW s \in Sends, RecvNext(s) PROVE Phases(t)'
  <2>0. UNCHANGED <<sendAt, offerOf, target>>
    BY <1>4, RecvFrame
  <2>1. CASE s # t
    BY <1>0, <1>4, <2>0, <2>1, RecvMoves DEF Phases
  <2>2. CASE s = t
    <3>0. /\ recvAt[t] # "idle" /\ t \in Sends /\ DOMAIN recvAt = Sends
          /\ DOMAIN path = Sends /\ DOMAIN verdict = Sends
      BY <1>0, <1>4, <2>2, RecvMoves DEF TypeOK
    <3>1. CASE ChoosePath(t)
      <4>1. UniquePath(target[t]) \in Paths
        BY <1>0, <3>0, <3>1, FreePath DEF ChoosePath, RecvStep, Phases
      <4> QED
        BY <1>0, <2>0, <3>0, <3>1, <4>1
           DEF ChoosePath, RecvStep, Phases, HasFile
    <3>2. CASE CreateFile(t) \/ CreateFails(t)
      BY <1>0, <2>0, <3>0, <3>2
         DEF CreateFile, CreateFails, RecvStep, Phases, HasFile
    <3>3. CASE ReadAll(t)
      BY <1>0, <2>0, <3>0, <3>3 DEF ReadAll, RecvStep, Phases, HasFile
    <3>4. CASE ReadFails(t) \/ RemoveFile(t)
      BY <1>0, <2>0, <3>0, <3>4
         DEF ReadFails, RemoveFile, RecvStep, Phases, HasFile
    <3>5. CASE AckInline(t) \/ AckInlineFails(t)
      BY <1>0, <2>0, <3>0, <3>5
         DEF AckInline, AckInlineFails, AfterAck, RecvStep, Phases, HasFile
    <3>6. CASE AckOutOfBand(t)
      BY <1>0, <2>0, <3>0, <3>6
         DEF AckOutOfBand, AfterAck, RecvStep, Phases, HasFile
    <3> QED
      BY <1>4, <2>2, <3>1, <3>2, <3>3, <3>4, <3>5, <3>6 DEF RecvNext
  <2> QED
    BY <2>1, <2>2
<1>5. CASE SenderRestart
  <2>1. /\ \/ sendAt'[t] = sendAt[t]
           \/ sendAt[t] # "idle" /\ sendAt'[t] = "failed"
        /\ t \notin acksOut'
        /\ UNCHANGED <<offerOf, target, recvAt, path, verdict>>
    <3>1. UNCHANGED <<offerOf, target, recvAt, path, verdict>>
      BY <1>5 DEF SenderRestart, requests, receiving
    <3>2. /\ sendAt' = [s \in Sends |-> IF Ended(s) THEN sendAt[s]
                                        ELSE "failed"]
          /\ acksOut' = {}
      BY <1>5 DEF SenderRestart
    <3> QED
      BY <3>1, <3>2 DEF Ended
  <2> QED
    BY <1>0, <2>1 DEF Phases
<1>6. CASE ReceiverCrash
  <2>1. /\ \/ recvAt'[t] = recvAt[t]
           \/ recvAt[t] # "idle" /\ recvAt'[t] = "over"
        /\ UNCHANGED <<sendAt, offerOf, target, path, verdict, acksOut>>
    BY <1>6 DEF ReceiverCrash, sender, requests
  <2> QED
    BY <1>0, <2>1 DEF Phases, HasFile
<1>7. CASE ReceiverStart \/ UNCHANGED vars
  BY <1>0, <1>7 DEF ReceiverStart, vars, sender, requests, receiving, wire,
                    Phases
<1> QED
  BY <1>1, <1>2, <1>3, <1>4, <1>5, <1>6, <1>7 DEF Next

LEMMA ProgressStep == IInv /\ [Next]_vars => Progress'
<1> SUFFICES ASSUME IInv, [Next]_vars PROVE Progress'
  OBVIOUS
<1>0. TypeOK /\ Progress /\ Written
  BY DEF IInv
<1>1. /\ ui'.verb # "idle" => ui'.item \in Offers
      /\ ui'.verb = "approve" => ui'.target \in Targets
  <2>1. ASSUME NEW o \in Offers, NEW verb \in {"approve", "reject"},
               Answer(verb, o)
        PROVE  /\ ui'.item \in Offers
               /\ ui'.verb = "approve" => ui'.target \in Targets
    <3>1. NameOf[o] \in Names /\ <<NameOf[o]>> \in Targets
      BY DEF Targets, Names
    <3>2. UniquePath(<<NameOf[o]>>) \in Targets
      BY <1>0, <3>1, FreePath
    <3> QED
      BY <2>1, <3>2 DEF Answer
  <2>2. ASSUME NEW o \in Offers, OfferNext(o)
        PROVE  \/ UNCHANGED ui
               \/ \E verb \in {"approve", "reject"} : Answer(verb, o)
    BY <2>2 DEF OfferNext, StoreOffer, DialOffer, OfferFails, ReceiveOffer,
                LoseOffer, HearRejection, LoseRejection
  <2>3. CASE AnswerNext
    <3>1. /\ ui' = Idle \/ ui' = [ui EXCEPT !.verb = "removing"]
          /\ ui'.verb # "idle" => ui.verb # "idle"
      BY <1>0, <2>3 DEF AnswerNext, RequestSent, RejectSent, AnswerFails,
                        RemoveAnswered, RemoveFails, AnswerOut, Idle
    <3>2. ui'.verb # "idle" => ui'.item = ui.item /\ ui'.verb = "removing"
      <4>1. ui \in [verb : {"idle", "approve", "reject", "removing"},
                    item : Offers \cup {None}, target : Paths \cup {None}]
        BY <1>0 DEF TypeOK
      <4> QED
        BY <3>1, <4>1 DEF Idle
    <3> QED
      BY <1>0, <3>1, <3>2 DEF Progress
  <2>4. CASE SenderRestart \/ ReceiverStart \/ UNCHANGED vars
    BY <1>0, <2>4 DEF SenderRestart, ReceiverStart, vars, Progress
  <2>5. CASE ReceiverCrash
    BY <2>5 DEF ReceiverCrash, Idle
  <2>6. ASSUME NEW s \in Sends, SendNext(s) \/ RecvNext(s) PROVE UNCHANGED ui
    BY <2>6, SendFrame, RecvFrame
  <2> QED
    BY <1>0, <2>1, <2>2, <2>3, <2>4, <2>5, <2>6 DEF Next, Progress
<1> QED
  BY <1>1, PhasesStep DEF Progress
-----------------------------------------------------------------------------
(* The counters are numbers.                                               *)
LEMMA Counted == TypeOK => crashes \in Nat /\ diskFails \in Nat
<1>1. TypeOK => crashes \in 0..MaxCrashes /\ diskFails \in 0..MaxDiskFails
  BY DEF TypeOK
<1> QED
  BY <1>1, BoundsAssumption

(* What happened stays so: a race, a crash, a disk that failed.            *)
LEMMA Lasting ==
  ASSUME IInv, [Next]_vars
  PROVE  /\ ~raced' => ~raced
         /\ crashes' = 0 => crashes = 0
         /\ diskFails' = 0 => diskFails = 0
         /\ crashes' >= crashes /\ diskFails' >= diskFails
<1>0. /\ TypeOK /\ crashes \in Nat /\ diskFails \in Nat
      /\ approvals \subseteq Offers
  <2>1. TypeOK
    BY DEF IInv
  <2>2. approvals \subseteq Offers
    BY <2>1 DEF TypeOK
  <2> QED
    BY <2>1, <2>2, Counted
<1>1. ASSUME NEW o \in Offers, OfferNext(o)
      PROVE  UNCHANGED <<raced, crashes>> /\ diskFails' >= diskFails
  <2>1. CASE StoreOffer(o) \/ OfferFails(o) \/ HearRejection(o)
    <3>1. \/ SetApprovals(approvals \cup {o}) \/ SetApprovals(approvals \ {o})
          \/ UNCHANGED diskFails
      BY <2>1 DEF StoreOffer, OfferFails, HearRejection
    <3> QED
      BY <1>0, <1>1, <3>1, Approving, OfferFrame
  <2>2. CASE \/ DialOffer(o) \/ ReceiveOffer(o) \/ LoseOffer(o)
             \/ LoseRejection(o) \/ Answer("approve", o)
             \/ Answer("reject", o)
    BY <1>0, <1>1, <2>2, OfferFrame
       DEF DialOffer, ReceiveOffer, LoseOffer, LoseRejection, Answer, history
  <2> QED
    BY <1>1, <2>1, <2>2 DEF OfferNext
<1>2. ASSUME NEW s \in Sends, SendNext(s)
      PROVE  UNCHANGED <<raced, crashes>> /\ diskFails' >= diskFails
  <2>1. CASE DeleteApproval(s)
    BY <1>0, <1>2, <2>1, Approving, SendFrame DEF DeleteApproval
  <2> QED
    BY <1>0, <1>2, <2>1, SendFrame
<1>3. ASSUME NEW s \in Sends, RecvNext(s)
      PROVE  UNCHANGED <<crashes, diskFails>> /\ (raced => raced')
  <2>1. raced => raced'
    BY <1>3 DEF RecvNext, ChoosePath, CreateFile, CreateFails, ReadAll,
                ReadFails, AckInline, AckInlineFails, AckOutOfBand, RemoveFile
  <2> QED
    BY <1>3, <2>1, RecvFrame
<1>4. /\ crashes' = crashes \/ crashes' = crashes + 1
      /\ diskFails' = diskFails \/ diskFails' >= diskFails
      /\ raced => raced'
  <2>1. CASE AnswerNext
    <3>1. UNCHANGED diskFails \/ diskFails' = diskFails + 1
      BY <2>1 DEF AnswerNext, RequestSent, RejectSent, AnswerFails,
                  RemoveAnswered, RemoveFails, history
    <3> QED
      BY <1>0, <2>1, <3>1, AnswerFrame
  <2>2. CASE SenderRestart \/ ReceiverCrash
    BY <2>2 DEF SenderRestart, ReceiverCrash
  <2>3. CASE ReceiverStart \/ UNCHANGED vars
    BY <2>3 DEF ReceiverStart, vars, history
  <2> QED
    BY <1>1, <1>2, <1>3, <2>1, <2>2, <2>3 DEF Next
<1> QED
  BY <1>0, <1>4

(* The steps that do not touch a file or a receive.                        *)
LEMMA FilesFrame ==
  ASSUME IInv, [Next]_vars
  PROVE  \/ \E s \in Sends : RecvNext(s)
         \/ /\ UNCHANGED <<path, files>>
            /\ \A s \in Sends :
                 \/ recvAt'[s] = recvAt[s]
                 \/ recvAt[s] = "idle" /\ recvAt'[s] \in {"choosing", "over"}
                 \/ /\ crashes' > 0 /\ recvAt[s] \notin {"idle", "stored"}
                    /\ recvAt'[s] = "over"
<1>0. TypeOK /\ \A s \in Sends : Phases(s)
  BY DEF IInv, Progress
<1>1. ASSUME NEW o \in Offers, OfferNext(o)
      PROVE  UNCHANGED <<path, files, recvAt>>
  BY <1>1, OfferFrame
<1>2. CASE AnswerNext
  BY <1>2, AnswerFrame
<1>3. ASSUME NEW s \in Sends, SendNext(s)
      PROVE  /\ UNCHANGED <<path, files>>
             /\ \A t \in Sends :
                  \/ recvAt'[t] = recvAt[t]
                  \/ /\ recvAt[t] = "idle"
                     /\ recvAt'[t] \in {"choosing", "over"}
  <2>1. UNCHANGED <<path, files>>
    BY <1>3, SendFrame
  <2>2. /\ \A t \in Sends \ {s} : recvAt'[t] = recvAt[t]
        /\ \/ UNCHANGED recvAt
           \/ /\ sendAt[s] = "opening"
              /\ recvAt'[s] \in {"choosing", "over"}
    BY <1>0, <1>3, SendMoves
  <2>3. sendAt[s] = "opening" => recvAt[s] = "idle"
    BY <1>0 DEF Phases
  <2> QED
    BY <2>1, <2>2, <2>3
<1>4. CASE ReceiverCrash
  <2>1. crashes \in Nat
    BY <1>0, Counted
  <2> QED
    BY <1>4, <2>1 DEF ReceiverCrash
<1>5. CASE SenderRestart \/ ReceiverStart \/ UNCHANGED vars
  BY <1>5 DEF SenderRestart, ReceiverStart, vars, receiving
<1> QED
  BY <1>1, <1>2, <1>3, <1>4, <1>5 DEF Next

(* The receives that write nothing.                                        *)
Acknowledging(s) ==
  \/ ReadAll(s) \/ ReadFails(s)
  \/ AckInline(s) \/ AckInlineFails(s) \/ AckOutOfBand(s)

LEMMA AcknowledgingMoves ==
  ASSUME TypeOK, NEW s \in Sends, Acknowledging(s)
  PROVE  /\ UNCHANGED <<path, files, raced>>
         /\ recvAt[s] \in HasFile /\ recvAt'[s] \in HasFile
<1>0. DOMAIN recvAt = Sends
  BY DEF TypeOK
<1> QED
  BY <1>0 DEF Acknowledging, ReadAll, ReadFails, AckInline, AckInlineFails,
              AckOutOfBand, AfterAck, RecvStep, HasFile

(* Every step leaves the bytes at a path to those that write there.        *)
LEMMA WrittenStep == IInv /\ [Next]_vars => Written'
<1> SUFFICES ASSUME IInv, [Next]_vars, NEW p \in Paths, NEW t \in files'[p]
             PROVE  /\ path'[t] = p /\ recvAt'[t] \in HasFile \cup {"over"}
                    /\ recvAt'[t] = "over" => raced' \/ crashes' > 0
  BY DEF Written
<1>0. /\ TypeOK /\ Written /\ (\A s \in Sends : Phases(s))
      /\ files \in [Paths -> SUBSET Sends]
      /\ DOMAIN recvAt = Sends /\ DOMAIN path = Sends
  BY DEF IInv, Progress, TypeOK
<1>1. TypeOK' /\ t \in Sends
  <2>1. TypeOK'
    BY TypeStep
  <2> QED
    BY <2>1 DEF TypeOK
<1>2. raced \/ crashes > 0 => raced' \/ crashes' > 0
  <2>1. crashes' \in 0..MaxCrashes
    BY <1>1 DEF TypeOK
  <2> QED
    BY <1>0, <2>1, Counted, Lasting, BoundsAssumption
<1>3. t \in files[p] => /\ path[t] = p /\ recvAt[t] \in HasFile \cup {"over"}
                        /\ recvAt[t] = "over" => raced \/ crashes > 0
  BY <1>0 DEF Written
<1>4. ASSUME NEW s \in Sends, RecvNext(s)
      PROVE  /\ path'[t] = p /\ recvAt'[t] \in HasFile \cup {"over"}
             /\ recvAt'[t] = "over" => raced' \/ crashes' > 0
  <2>1. t # s => recvAt'[t] = recvAt[t] /\ path'[t] = path[t]
    BY <1>0, <1>1, <1>4, RecvMoves
  <2>2. CASE ChoosePath(s) \/ CreateFails(s)
    <3>1. UNCHANGED files /\ recvAt[s] \in {"choosing", "creating"}
      BY <2>2 DEF ChoosePath, CreateFails, RecvStep
    <3>2. t # s
      BY <1>3, <3>1 DEF HasFile
    <3> QED
      BY <1>2, <1>3, <2>1, <3>1, <3>2
  <2>3. CASE CreateFile(s)
    <3>1. /\ files' = [files EXCEPT ![path[s]] =
                         {s} \cup {r \in @ : recvAt[r] = "reading"}]
          /\ recvAt[s] = "creating" /\ UNCHANGED path
          /\ recvAt' = [recvAt EXCEPT ![s] = "reading"]
      BY <2>3 DEF CreateFile, RecvStep
    <3>2. path[s] \in Paths /\ recvAt'[s] \in HasFile /\ recvAt'[s] # "over"
      BY <1>0, <3>1 DEF Phases, HasFile
    <3>3. t \in files[p] \/ (t = s /\ p = path[s])
      BY <1>0, <3>1, <3>2
    <3> QED
      BY <1>2, <1>3, <2>1, <3>1, <3>2, <3>3
  <2>4. CASE RemoveFile(s)
    <3>1. /\ files' = [files EXCEPT ![path[s]] = {}] /\ UNCHANGED path
          /\ recvAt[s] = "removing"
      BY <2>4 DEF RemoveFile, RecvStep
    <3>2. path[s] # p /\ t \in files[p]
      BY <1>0, <3>1
    <3> QED
      BY <1>2, <1>3, <2>1, <3>2
  <2>5. CASE Acknowledging(s)
    <3>1. /\ UNCHANGED <<path, files, raced>>
          /\ recvAt'[s] \in HasFile /\ recvAt'[s] # "over"
      BY <1>0, <2>5, AcknowledgingMoves DEF HasFile
    <3> QED
      BY <1>2, <1>3, <2>1, <3>1
  <2> QED
    BY <1>4, <2>2, <2>3, <2>4, <2>5 DEF RecvNext, Acknowledging
<1>5. CASE /\ UNCHANGED <<path, files>>
           /\ \A s \in Sends :
                \/ recvAt'[s] = recvAt[s]
                \/ recvAt[s] = "idle" /\ recvAt'[s] \in {"choosing", "over"}
                \/ /\ crashes' > 0 /\ recvAt[s] \notin {"idle", "stored"}
                   /\ recvAt'[s] = "over"
  <2>1. t \in files[p] /\ path'[t] = path[t]
    BY <1>5
  <2>2. \/ recvAt'[t] = recvAt[t]
        \/ crashes' > 0 /\ recvAt'[t] = "over"
    BY <1>1, <1>3, <1>5, <2>1 DEF HasFile
  <2> QED
    BY <1>2, <1>3, <2>1, <2>2
<1> QED
  BY <1>4, <1>5, FilesFrame

(* Every step keeps two receives apart unless they race for a path.        *)
LEMMA ApartStep == IInv /\ [Next]_vars => Apart'
<1> SUFFICES ASSUME IInv, [Next]_vars, ~raced', NEW t \in Sends
             PROVE  /\ recvAt'[t] = "creating" =>
                         /\ files'[path'[t]] = {}
                         /\ \A r \in Sends : recvAt'[r] = "creating" => r = t
                    /\ recvAt'[t] \in HasFile => files'[path'[t]] = {t}
  BY DEF Apart
<1>0. /\ TypeOK /\ Written /\ (\A s \in Sends : Phases(s))
      /\ files \in [Paths -> SUBSET Sends]
      /\ DOMAIN recvAt = Sends /\ DOMAIN path = Sends
  BY DEF IInv, Progress, TypeOK
<1>1. \A s \in Sends :
        /\ recvAt[s] = "creating" =>
             /\ files[path[s]] = {}
             /\ \A r \in Sends : recvAt[r] = "creating" => r = s
        /\ recvAt[s] \in HasFile => files[path[s]] = {s}
  BY Lasting DEF IInv, Apart
<1>2. ASSUME NEW s \in Sends, RecvNext(s)
      PROVE  /\ recvAt'[t] = "creating" =>
                  /\ files'[path'[t]] = {}
                  /\ \A r \in Sends : recvAt'[r] = "creating" => r = t
             /\ recvAt'[t] \in HasFile => files'[path'[t]] = {t}
  <2>1. \A r \in Sends \ {s} : recvAt'[r] = recvAt[r] /\ path'[r] = path[r]
    BY <1>0, <1>2, RecvMoves
  <2>2. CASE ChoosePath(s)
    <3>1. /\ recvAt'[s] = "creating" /\ path'[s] = UniquePath(target[s])
          /\ UNCHANGED files /\ (\A r \in Sends : recvAt[r] # "creating")
      BY <1>0, <2>2 DEF ChoosePath, RecvStep
    <3>2. files[UniquePath(target[s])] = {}
      BY <1>0, <2>2, FreePath DEF ChoosePath, RecvStep, Phases
    <3> QED
      BY <1>1, <2>1, <3>1, <3>2 DEF HasFile
  <2>3. CASE CreateFile(s)
    <3>1. /\ files' = [files EXCEPT ![path[s]] =
                         {s} \cup {r \in @ : recvAt[r] = "reading"}]
          /\ recvAt[s] = "creating" /\ recvAt'[s] = "reading"
          /\ UNCHANGED path
      BY <1>0, <2>3 DEF CreateFile, RecvStep
    <3>2. path[s] \in Paths /\ files[path[s]] = {}
      BY <1>0, <1>1, <3>1 DEF Phases
    <3>3. files'[path[s]] = {s}
      BY <1>0, <3>1, <3>2
    <3>4. \A p \in Paths \ {path[s]} : files'[p] = files[p]
      BY <1>0, <3>1
    <3>5. CASE t = s
      BY <3>1, <3>3, <3>5
    <3>6. CASE t # s
      <4>1. recvAt'[t] = recvAt[t] /\ recvAt[t] # "creating"
        BY <1>1, <2>1, <3>1, <3>6
      <4>2. recvAt[t] \in HasFile => path[t] \in Paths \ {path[s]}
        BY <1>0, <1>1, <3>2 DEF Phases
      <4> QED
        BY <1>1, <3>1, <3>4, <4>1, <4>2
    <3> QED
      BY <3>5, <3>6
  <2>4. CASE RemoveFile(s)
    <3>1. /\ files' = [files EXCEPT ![path[s]] = {}] /\ UNCHANGED path
          /\ recvAt[s] = "removing" /\ recvAt'[s] = "over"
      BY <1>0, <2>4 DEF RemoveFile, RecvStep
    <3>2. files[path[s]] = {s} /\ path[s] \in Paths
      BY <1>0, <1>1, <3>1 DEF HasFile, Phases
    <3>3. t # s => recvAt'[t] = recvAt[t]
      BY <2>1
    <3>4. recvAt'[t] \in HasFile => t # s /\ path[t] # path[s]
      BY <1>1, <3>1, <3>2, <3>3 DEF HasFile
    <3>5. \A r \in Sends : recvAt'[r] = "creating" => recvAt[r] = "creating"
      BY <2>1, <3>1
    <3>6. \A p \in Paths : files'[p] = IF p = path[s] THEN {} ELSE files[p]
      BY <1>0, <3>1
    <3>7. recvAt[t] \in HasFile \cup {"creating"} => path[t] \in Paths
      BY <1>0 DEF Phases
    <3>8. path' = path
      BY <3>1
    <3>9. CASE recvAt'[t] = "creating"
      <4>1. recvAt[t] = "creating"
        BY <3>5, <3>9
      <4> QED
        BY <1>1, <3>5, <3>6, <3>7, <3>8, <3>9, <4>1 DEF HasFile
    <3>10. CASE recvAt'[t] \in HasFile
      <4>1. recvAt[t] \in HasFile /\ path[t] # path[s]
        BY <3>3, <3>4, <3>10
      <4> QED
        BY <1>1, <3>6, <3>7, <3>8, <3>10, <4>1 DEF HasFile
    <3> QED
      BY <3>9, <3>10
  <2>5. CASE CreateFails(s)
    <3>1. UNCHANGED <<path, files>> /\ recvAt'[s] = "over"
      BY <1>0, <2>5 DEF CreateFails, RecvStep
    <3>2. \A r \in Sends :
            recvAt'[r] \in HasFile \cup {"creating"} => recvAt[r] = recvAt'[r]
      BY <2>1, <3>1 DEF HasFile
    <3> QED
      BY <1>1, <3>1, <3>2
  <2>6. CASE Acknowledging(s)
    <3>1. /\ UNCHANGED <<path, files>>
          /\ recvAt[s] \in HasFile /\ recvAt'[s] \in HasFile
          /\ recvAt'[s] # "creating"
      BY <1>0, <2>6, AcknowledgingMoves DEF HasFile
    <3> QED
      BY <1>1, <2>1, <3>1
  <2> QED
    BY <1>2, <2>2, <2>3, <2>4, <2>5, <2>6 DEF RecvNext, Acknowledging
<1>3. CASE /\ UNCHANGED <<path, files>>
           /\ \A s \in Sends :
                \/ recvAt'[s] = recvAt[s]
                \/ recvAt[s] = "idle" /\ recvAt'[s] \in {"choosing", "over"}
                \/ /\ crashes' > 0 /\ recvAt[s] \notin {"idle", "stored"}
                   /\ recvAt'[s] = "over"
  BY <1>1, <1>3 DEF HasFile
<1> QED
  BY <1>2, <1>3, FilesFrame
-----------------------------------------------------------------------------
(* A request is not taken back, a send that was confirmed is not repeated  *)
(* and a verdict is not changed.                                           *)
LEMMA RequestStays ==
  ASSUME IInv, [Next]_vars, NEW t \in Sends
  PROVE  /\ sendAt[t] # "idle" => /\ sendAt'[t] # "idle"
                                  /\ offerOf'[t] = offerOf[t]
         /\ sendAt[t] = "ok" => sendAt'[t] = "ok"
         /\ verdict[t] # None => verdict'[t] = verdict[t] /\ sendAt[t] # "idle"
<1>0. TypeOK /\ \A s \in Sends : Phases(s)
  BY DEF IInv, Progress
<1>1. verdict[t] # None => sendAt[t] # "idle" /\ recvAt[t] # "reading"
  BY <1>0 DEF Phases
<1>2. ASSUME NEW o \in Offers, OfferNext(o)
      PROVE  UNCHANGED <<sendAt, offerOf, verdict>>
  BY <1>2, OfferFrame
<1>3. CASE AnswerNext
  <2>1. UNCHANGED verdict
    BY <1>3, AnswerFrame
  <2>2. sendAt[t] # "idle" => sendAt'[t] = sendAt[t] /\ offerOf'[t] = offerOf[t]
    BY <1>0, <1>3
       DEF AnswerNext, RequestSent, RejectSent, AnswerFails, RemoveAnswered,
           RemoveFails, sender, requests, TypeOK
  <2> QED
    BY <1>1, <2>1, <2>2
<1>4. ASSUME NEW s \in Sends, SendNext(s)
      PROVE  /\ UNCHANGED <<offerOf, verdict>>
             /\ \/ sendAt'[t] = sendAt[t]
                \/ sendAt[t] \notin {"idle", "ok"} /\ sendAt'[t] # "idle"
  <2>1. UNCHANGED <<offerOf, verdict>>
    BY <1>4, SendFrame
  <2>2. CASE s # t
    <3>1. sendAt'[t] = sendAt[t]
      BY <1>0, <1>4, <2>2, SendMoves
    <3> QED
      BY <2>1, <3>1
  <2>3. CASE s = t
    <3>1. \/ sendAt'[t] = sendAt[t]
          \/ sendAt[t] = "asked" /\ sendAt'[t] = "opening"
          \/ sendAt[t] = "opening" /\ sendAt'[t] = "sending"
          \/ /\ sendAt[t] \notin {"idle", "ok", "failed"}
             /\ sendAt'[t] \in {"awaiting", "waiting", "delivered", "ok",
                                "failed"}
      BY <1>0, <1>4, <2>3, SendMoves
    <3> QED
      BY <2>1, <3>1
  <2> QED
    BY <2>2, <2>3
<1>5. ASSUME NEW s \in Sends, RecvNext(s)
      PROVE  /\ UNCHANGED <<offerOf, sendAt>>
             /\ verdict[t] # None => verdict'[t] = verdict[t]
  <2>1. UNCHANGED <<offerOf, sendAt>>
    BY <1>5, RecvFrame
  <2>2. CASE s # t
    BY <1>0, <1>5, <2>1, <2>2, RecvMoves
  <2>3. CASE s = t /\ verdict[t] # None
    <3>1. ~ReadAll(s)
      BY <1>1, <2>3 DEF ReadAll, RecvStep
    <3>2. UNCHANGED verdict
      BY <1>5, <3>1 DEF RecvNext, ChoosePath, CreateFile, CreateFails,
                        ReadFails, AckInline, AckInlineFails, AckOutOfBand,
                        RemoveFile
    <3> QED
      BY <2>1, <3>2
  <2> QED
    BY <2>1, <2>2, <2>3
<1>6. CASE SenderRestart
  <2>1. /\ sendAt' = [s \in Sends |-> IF Ended(s) THEN sendAt[s]
                                      ELSE "failed"]
        /\ UNCHANGED <<offerOf, verdict>>
    BY <1>6 DEF SenderRestart, requests, receiving
  <2> QED
    BY <1>1, <2>1 DEF Ended
<1>7. CASE ReceiverCrash \/ ReceiverStart \/ UNCHANGED vars
  BY <1>1, <1>7 DEF ReceiverCrash, ReceiverStart, vars, sender, requests,
                    receiving
<1> QED
  BY <1>1, <1>2, <1>3, <1>4, <1>5, <1>6, <1>7 DEF Next

LEMMA VerifiedStays ==
  ASSUME IInv, [Next]_vars, NEW s \in Sends, sendAt[s] # "idle", Verified(s)
  PROVE  Verified(s)'
<1>1. PICK t \in Sends : verdict[t] = "ok" /\ NameFor(t) = NameFor(s)
  BY DEF Verified
<1>2. verdict'[t] = "ok" /\ offerOf'[t] = offerOf[t]
  BY <1>1, RequestStays, NoneAssumption
<1>3. offerOf'[s] = offerOf[s]
  BY RequestStays
<1> QED
  BY <1>1, <1>2, <1>3 DEF Verified, NameFor

(* A confirmation leads to a send of the name that was verified.           *)
LEMMA SlotsStep ==
  ASSUME IInv, [Next]_vars, NEW n \in Names,
         NEW t, t # None, ackSlot'[n] = t
  PROVE  t \in Sends /\ sendAt'[t] # "idle" /\ NameFor(t)' = n
<1>0. /\ TypeOK /\ Confirmations /\ (\A s \in Sends : Phases(s))
      /\ ackSlot \in [Names -> Sends \cup {None}] /\ DOMAIN sendAt = Sends
  BY DEF IInv, Progress, TypeOK
<1>1. ASSUME NEW s \in Sends, sendAt[s] # "idle", NameFor(s) = n
      PROVE  sendAt'[s] # "idle" /\ NameFor(s)' = n
  <2>1. sendAt'[s] # "idle" /\ offerOf'[s] = offerOf[s]
    BY <1>1, RequestStays
  <2> QED
    BY <1>1, <2>1 DEF NameFor
<1>2. CASE ackSlot[n] = t
  BY <1>0, <1>1, <1>2 DEF Confirmations
<1>3. ASSUME NEW s \in Sends, Dial(s)
      PROVE  \/ ackSlot[n] = t
             \/ t = s /\ sendAt[s] # "idle" /\ NameFor(s) = n
  <2>1. ackSlot' = [ackSlot EXCEPT ![NameFor(s)] = s] /\ sendAt[s] = "opening"
    BY <1>3 DEF Dial, SendStep
  <2> QED
    BY <1>0, <2>1
<1>4. ASSUME NEW s \in Sends, SendNext(s), ~Dial(s)
      PROVE  ackSlot[n] = t
  <2>1. \/ UNCHANGED ackSlot
        \/ \E m : ackSlot' = [ackSlot EXCEPT ![m] = None]
    BY <1>4 DEF SendNext, HearRequest, DropRequest, DialFails, SentAll,
                CopyFails, Confirmed, InlineAckFails, ConfirmedOutOfBand,
                NotConfirmed, SendReturns, DeleteApproval, HearAck, LoseAck,
                sender
  <2> QED
    BY <1>0, <2>1
<1>5. ASSUME NEW s \in Sends, RecvNext(s) PROVE UNCHANGED ackSlot
  BY <1>5, RecvFrame
<1>6. ASSUME NEW o \in Offers, OfferNext(o) PROVE UNCHANGED ackSlot
  BY <1>6, OfferFrame
<1>7. CASE AnswerNext
  BY <1>7, <1>2, AnswerFrame
<1>8. ~SenderRestart
  BY DEF SenderRestart
<1>9. CASE ReceiverCrash \/ ReceiverStart \/ UNCHANGED vars
  BY <1>9, <1>2 DEF ReceiverCrash, ReceiverStart, vars, sender
<1> QED
  BY <1>1, <1>3, <1>4, <1>5, <1>6, <1>7, <1>8, <1>9, <1>2 DEF Next

LEMMA BoxesStep ==
  ASSUME IInv, [Next]_vars, NEW t \in Sends, box'[t] = "ok"
  PROVE  sendAt'[t] # "idle" /\ Verified(t)'
<1>0. /\ TypeOK /\ Confirmations /\ (\A s \in Sends : Phases(s))
      /\ ackSlot \in [Names -> Sends \cup {None}] /\ DOMAIN box = Sends
  BY DEF IInv, Progress, TypeOK
<1>1. CASE box[t] = "ok"
  BY <1>0, <1>1, RequestStays, VerifiedStays DEF Confirmations
<1>2. ASSUME NEW s \in Sends, HearAck(s), box[t] # "ok"
      PROVE  sendAt'[t] # "idle" /\ Verified(t)'
  <2>1. /\ t = ackSlot[NameFor(s)] /\ verdict[s] = "ok"
        /\ t # None /\ s \in acksOut
    BY <1>0, <1>2, NoneAssumption DEF HearAck
  <2>2. NameFor(s) \in Names
    BY <1>0, <2>1 DEF Phases, NameFor, Names
  <2>3. sendAt[t] # "idle" /\ NameFor(t) = NameFor(s)
    BY <1>0, <2>1, <2>2 DEF Confirmations
  <2>4. Verified(t)
    BY <2>1, <2>3 DEF Verified
  <2> QED
    BY <2>3, <2>4, RequestStays, VerifiedStays
<1>3. ASSUME NEW s \in Sends, SendNext(s), ~HearAck(s) PROVE UNCHANGED box
  BY <1>3 DEF SendNext, HearRequest, DropRequest, DialFails, Dial, SentAll,
              CopyFails, Confirmed, InlineAckFails, ConfirmedOutOfBand,
              NotConfirmed, SendReturns, DeleteApproval, LoseAck, sender
<1>4. ASSUME NEW s \in Sends, RecvNext(s) PROVE UNCHANGED box
  BY <1>4, RecvFrame
<1>5. ASSUME NEW o \in Offers, OfferNext(o) PROVE UNCHANGED box
  BY <1>5, OfferFrame
<1>6. CASE AnswerNext
  BY <1>1, <1>6, AnswerFrame
<1>7. ~SenderRestart
  BY NoneAssumption DEF SenderRestart
<1>8. CASE ReceiverCrash \/ ReceiverStart \/ UNCHANGED vars
  BY <1>1, <1>8 DEF ReceiverCrash, ReceiverStart, vars, sender
<1> QED
  BY <1>1, <1>2, <1>3, <1>4, <1>5, <1>6, <1>7, <1>8 DEF Next

LEMMA DeliveriesStep ==
  ASSUME IInv, [Next]_vars, NEW t \in Sends,
         sendAt'[t] \in {"delivered", "ok"}
  PROVE  Verified(t)'
<1>0. /\ TypeOK /\ Confirmations /\ (\A s \in Sends : Phases(s))
      /\ DOMAIN sendAt = Sends
  BY DEF IInv, Progress, TypeOK
<1>1. CASE sendAt[t] \in {"delivered", "ok"}
  BY <1>0, <1>1, VerifiedStays DEF Confirmations
<1>2. ASSUME NEW s \in Sends, SendNext(s),
             sendAt[t] \notin {"delivered", "ok"}
      PROVE  Verified(t)'
  <2>1. s = t
    BY <1>0, <1>2, SendMoves
  <2>2. CASE Confirmed(t)
    <3>1. verdict[t] = "ok" /\ sendAt[t] # "idle"
      BY <2>2 DEF Confirmed, SendReturns, SendStep
    <3>2. Verified(t)
      BY <3>1 DEF Verified
    <3> QED
      BY <3>1, <3>2, VerifiedStays
  <2>3. CASE ConfirmedOutOfBand(t)
    <3>1. box[t] = "ok" /\ sendAt[t] # "idle"
      BY <2>3 DEF ConfirmedOutOfBand, SendReturns, SendStep
    <3> QED
      BY <1>0, <3>1, VerifiedStays DEF Confirmations
  <2>4. CASE \/ HearRequest(t) \/ DropRequest(t) \/ DialFails(t) \/ Dial(t)
             \/ SentAll(t) \/ InlineAckFails(t)
    BY <1>0, <2>4 DEF HearRequest, DropRequest, DialFails, Dial, SentAll,
                      InlineAckFails, SendStep
  <2>5. CASE CopyFails(t) \/ NotConfirmed(t)
    BY <1>0, <2>5 DEF CopyFails, NotConfirmed, SendReturns, SendStep
  <2>6. CASE DeleteApproval(t) \/ HearAck(t) \/ LoseAck(t)
    BY <1>2, <2>6 DEF DeleteApproval, HearAck, LoseAck, sender
  <2> QED
    BY <1>2, <2>1, <2>2, <2>3, <2>4, <2>5, <2>6 DEF SendNext
<1>3. ASSUME NEW s \in Sends, RecvNext(s) PROVE UNCHANGED sendAt
  BY <1>3, RecvFrame
<1>4. ASSUME NEW o \in Offers, OfferNext(o) PROVE UNCHANGED sendAt
  BY <1>4, OfferFrame
<1>5. CASE AnswerNext
  <2>1. sendAt'[t] = sendAt[t] \/ sendAt'[t] = "asked"
    BY <1>0, <1>5 DEF AnswerNext, RequestSent, RejectSent, AnswerFails,
                      RemoveAnswered, RemoveFails, sender
  <2> QED
    BY <1>1, <2>1
<1>6. CASE SenderRestart
  <2>1. sendAt' = [s \in Sends |-> IF Ended(s) THEN sendAt[s] ELSE "failed"]
    BY <1>6 DEF SenderRestart
  <2> QED
    BY <1>1, <2>1
<1>7. CASE ReceiverCrash \/ ReceiverStart \/ UNCHANGED vars
  BY <1>1, <1>7 DEF ReceiverCrash, ReceiverStart, vars, sender
<1> QED
  BY <1>1, <1>2, <1>3, <1>4, <1>5, <1>6, <1>7 DEF Next

LEMMA ConfirmationsStep == IInv /\ [Next]_vars => Confirmations'
<1> SUFFICES ASSUME IInv, [Next]_vars PROVE Confirmations'
  OBVIOUS
<1>1. \A n \in Names :
        ackSlot'[n] # None => /\ sendAt'[ackSlot'[n]] # "idle"
                              /\ NameOf[offerOf'[ackSlot'[n]]] = n
  BY SlotsStep DEF NameFor
<1>2. \A t \in Sends : /\ box'[t] = "ok" => sendAt'[t] # "idle" /\ Verified(t)'
                       /\ sendAt'[t] \in {"delivered", "ok"} => Verified(t)'
  BY BoxesStep, DeliveriesStep
<1> QED
  BY <1>1, <1>2 DEF Confirmations, NameFor
-----------------------------------------------------------------------------
(* How an offer moves on: it is not taken back once it was sent.           *)
LEMMA OfferMoves ==
  ASSUME IInv, [Next]_vars, NEW o \in Offers
  PROVE  /\ offerAt[o] = "sent" => offerAt'[o] = "sent"
         /\ \/ offerAt'[o] = offerAt[o]
            \/ StoreOffer(o) /\ offerAt'[o] = "stored"
            \/ DialOffer(o) /\ offerAt'[o] = "sent"
            \/ offerAt'[o] = "failed"
<1>0. DOMAIN offerAt = Offers
  BY DEF IInv, TypeOK
<1>1. ASSUME NEW p \in Offers, StoreOffer(p) \/ DialOffer(p) \/ OfferFails(p)
      PROVE  /\ offerAt[o] = "sent" => offerAt'[o] = "sent"
             /\ \/ offerAt'[o] = offerAt[o]
                \/ StoreOffer(o) /\ offerAt'[o] = "stored"
                \/ DialOffer(o) /\ offerAt'[o] = "sent"
                \/ offerAt'[o] = "failed"
  <2>1. CASE p = o
    <3>1. CASE StoreOffer(o)
      <4>1. offerAt[o] = "new" /\ offerAt'[o] = "stored"
        BY <1>0, <3>1 DEF StoreOffer
      <4> QED
        BY <3>1, <4>1
    <3>2. CASE DialOffer(o)
      <4>1. offerAt[o] = "stored" /\ offerAt'[o] = "sent"
        BY <1>0, <3>2 DEF DialOffer
      <4> QED
        BY <3>2, <4>1
    <3>3. CASE OfferFails(o)
      <4>1. offerAt[o] = "stored" /\ offerAt'[o] = "failed"
        BY <1>0, <3>3 DEF OfferFails
      <4> QED
        BY <4>1
    <3> QED
      BY <1>1, <2>1, <3>1, <3>2, <3>3
  <2>2. CASE p # o
    <3>1. offerAt'[o] = offerAt[o]
      BY <1>0, <1>1, <2>2 DEF StoreOffer, DialOffer, OfferFails
    <3> QED
      BY <3>1
  <2> QED
    BY <2>1, <2>2
<1>2. ASSUME NEW p \in Offers, OfferNext(p),
             ~(StoreOffer(p) \/ DialOffer(p) \/ OfferFails(p))
      PROVE  UNCHANGED offerAt
  BY <1>2 DEF OfferNext, ReceiveOffer, LoseOffer, Answer, HearRejection,
              LoseRejection, sender
<1>3. CASE AnswerNext
  BY <1>3, AnswerFrame
<1>4. ASSUME NEW s \in Sends, SendNext(s) \/ RecvNext(s)
      PROVE  UNCHANGED offerAt
  BY <1>4, SendFrame, RecvFrame
<1>5. CASE SenderRestart
  <2>1. offerAt' = [p \in Offers |-> IF offerAt[p] = "stored" THEN "failed"
                                    ELSE offerAt[p]]
    BY <1>5 DEF SenderRestart
  <2> QED
    BY <2>1
<1>6. CASE ReceiverCrash \/ ReceiverStart \/ UNCHANGED vars
  BY <1>6 DEF ReceiverCrash, ReceiverStart, vars, sender
<1> QED
  BY <1>1, <1>2, <1>3, <1>4, <1>5, <1>6 DEF Next

(* Where the offers come from that the receiver has, answers or answered.  *)
LEMMA QueueSources ==
  ASSUME IInv, [Next]_vars, NEW o \in Offers
  PROVE  /\ o \in offersOut' => o \in offersOut \/ offerAt'[o] = "sent"
         /\ o \in queue' \cup queueSaved' =>
              o \in queue \cup queueSaved \cup offersOut
         /\ o \in rejectsOut' =>
              o \in rejectsOut \/ (ui.verb # "idle" /\ o = ui.item)
<1>0. DOMAIN offerAt = Offers
  BY DEF IInv, TypeOK
<1>1. ASSUME NEW p \in Offers, ReceiveOffer(p)
      PROVE  /\ queue' \cup queueSaved' \subseteq queue \cup queueSaved \cup {p}
             /\ p \in offersOut /\ offersOut' \subseteq offersOut
             /\ UNCHANGED rejectsOut
  BY <1>1 DEF ReceiveOffer, Q!Add
<1>2. ASSUME NEW p \in Offers, OfferNext(p), ~ReceiveOffer(p)
      PROVE  /\ UNCHANGED <<queue, queueSaved>>
             /\ rejectsOut' \subseteq rejectsOut
             /\ \/ offersOut' \subseteq offersOut
                \/ /\ offersOut' = offersOut \cup {p}
                   /\ offerAt'[p] = "sent"
  <2>1. CASE DialOffer(p)
    BY <1>0, <2>1 DEF DialOffer, theQueue
  <2>2. CASE ~DialOffer(p)
    BY <1>2, <2>2 DEF OfferNext, StoreOffer, OfferFails, LoseOffer, Answer,
                      HearRejection, LoseRejection, theQueue, wire
  <2> QED
    BY <2>1, <2>2
<1>3. CASE AnswerNext
  <2>1. UNCHANGED offersOut
    BY <1>3, AnswerFrame
  <2>2. /\ queue' \subseteq queue
        /\ queueSaved' \subseteq queueSaved \cup queue
        /\ \/ rejectsOut' = rejectsOut
           \/ ui.verb = "reject" /\ rejectsOut' = rejectsOut \cup {ui.item}
    BY <1>3 DEF AnswerNext, RequestSent, RejectSent, AnswerFails,
                RemoveAnswered, RemoveFails, Q!Remove, Q!Forget, theQueue, wire
  <2> QED
    BY <2>1, <2>2
<1>4. ASSUME NEW s \in Sends, SendNext(s) \/ RecvNext(s)
      PROVE  UNCHANGED <<offersOut, queue, queueSaved, rejectsOut>>
  BY <1>4, SendFrame, RecvFrame
<1>5. CASE SenderRestart
  BY <1>5 DEF SenderRestart, theQueue
<1>6. CASE ReceiverCrash
  BY <1>6 DEF ReceiverCrash, Q!Crash
<1>7. CASE ReceiverStart
  BY <1>7 DEF ReceiverStart, Q!Load, wire
<1>8. CASE UNCHANGED vars
  BY <1>8 DEF vars, theQueue, wire
<1> QED
  BY <1>1, <1>2, <1>3, <1>4, <1>5, <1>6, <1>7, <1>8 DEF Next

LEMMA AnswerSources ==
  ASSUME IInv, [Next]_vars
  PROVE  /\ ui'.verb # "idle" =>
              \/ ui'.item \in queue
              \/ ui.verb # "idle" /\ ui'.item = ui.item
         /\ \A s \in Sends :
              sendAt'[s] # "idle" =>
                \/ sendAt[s] # "idle" /\ offerOf'[s] = offerOf[s]
                \/ ui.verb = "approve" /\ offerOf'[s] = ui.item
<1>0. /\ TypeOK /\ DOMAIN sendAt = Sends /\ DOMAIN offerOf = Sends
      /\ ui \in [verb : {"idle", "approve", "reject", "removing"},
                item : Offers \cup {None}, target : Paths \cup {None}]
  BY DEF IInv, TypeOK
<1>1. ASSUME NEW p \in Offers, OfferNext(p)
      PROVE  /\ UNCHANGED <<sendAt, offerOf>>
             /\ UNCHANGED ui \/ ui'.item \in queue
  <2>1. UNCHANGED ui \/ ui'.item \in queue
    BY <1>1 DEF OfferNext, StoreOffer, DialOffer, OfferFails, ReceiveOffer,
                LoseOffer, Answer, HearRejection, LoseRejection
  <2> QED
    BY <1>1, <2>1, OfferFrame
<1>2. ASSUME NEW s \in Sends, RequestSent(s)
      PROVE  /\ ui.verb = "approve" /\ ui'.item = ui.item
             /\ \A t \in Sends : \/ /\ sendAt'[t] = sendAt[t]
                                  /\ offerOf'[t] = offerOf[t]
                               \/ offerOf'[t] = ui.item
  BY <1>0, <1>2 DEF RequestSent, AnswerOut
<1>3. CASE RejectSent
  BY <1>0, <1>3 DEF RejectSent, AnswerOut, sender, requests
<1>4. CASE AnswerFails \/ RemoveAnswered \/ RemoveFails
  BY <1>4 DEF AnswerFails, RemoveAnswered, RemoveFails, Idle, sender, requests
<1>5. ASSUME NEW s \in Sends, SendNext(s)
      PROVE  /\ UNCHANGED <<ui, offerOf>>
             /\ \A t \in Sends : sendAt'[t] # "idle" => sendAt[t] # "idle"
  <2>1. UNCHANGED <<ui, offerOf>>
    BY <1>5, SendFrame
  <2>2. \A t \in Sends \ {s} : sendAt'[t] = sendAt[t]
    BY <1>0, <1>5, SendMoves
  <2>3. sendAt'[s] = sendAt[s] \/ sendAt[s] # "idle"
    BY <1>0, <1>5, SendMoves
  <2> QED
    BY <2>1, <2>2, <2>3
<1>6. ASSUME NEW s \in Sends, RecvNext(s)
      PROVE  UNCHANGED <<ui, offerOf, sendAt>>
  BY <1>6, RecvFrame
<1>7. CASE SenderRestart
  <2>1. /\ UNCHANGED <<ui, offerOf>>
        /\ sendAt' = [s \in Sends |-> IF Ended(s) THEN sendAt[s] ELSE "failed"]
    BY <1>7 DEF SenderRestart, requests
  <2> QED
    BY <2>1 DEF Ended
<1>8. CASE ReceiverCrash
  BY <1>8 DEF ReceiverCrash, Idle, sender, requests
<1>9. CASE ReceiverStart \/ UNCHANGED vars
  BY <1>9 DEF ReceiverStart, vars, sender, requests
<1> QED
  BY <1>1, <1>2, <1>3, <1>4, <1>5, <1>6, <1>7, <1>8, <1>9
     DEF Next, AnswerNext

(* Every step lets only offers that got away be seen or answered.          *)
LEMMA OfferedStep == IInv /\ [Next]_vars => Offered'
<1> SUFFICES ASSUME IInv, [Next]_vars PROVE Offered'
  OBVIOUS
<1>0. TypeOK /\ TypeOK' /\ Offered /\ Progress
  BY TypeStep DEF IInv
<1>1. \A o \in Offers : offerAt[o] = "sent" => offerAt'[o] = "sent"
  BY OfferMoves
<1>2. ASSUME NEW o \in queue' \cup queueSaved' \cup offersOut' \cup rejectsOut'
      PROVE  offerAt'[o] = "sent"
  <2>1. o \in Offers
    BY <1>0 DEF TypeOK
  <2>2. \/ o \in queue \cup queueSaved \cup offersOut \cup rejectsOut
        \/ ui.verb # "idle" /\ o = ui.item
        \/ offerAt'[o] = "sent"
    BY <2>1, QueueSources
  <2> QED
    BY <1>0, <1>1, <2>1, <2>2 DEF Offered
<1>3. ui'.verb # "idle" => offerAt'[ui'.item] = "sent"
  <2> SUFFICES ASSUME ui'.verb # "idle" PROVE offerAt'[ui'.item] = "sent"
    OBVIOUS
  <2>1. \/ ui'.item \in queue
        \/ ui.verb # "idle" /\ ui'.item = ui.item
    BY AnswerSources
  <2>2. ui'.item \in Offers /\ offerAt[ui'.item] = "sent"
    BY <1>0, <2>1 DEF Offered, Progress, TypeOK
  <2> QED
    BY <1>1, <2>2
<1>4. ASSUME NEW s \in Sends, sendAt'[s] # "idle"
      PROVE  offerAt'[offerOf'[s]] = "sent"
  <2>1. \/ sendAt[s] # "idle" /\ offerOf'[s] = offerOf[s]
        \/ ui.verb = "approve" /\ offerOf'[s] = ui.item
    BY <1>4, AnswerSources
  <2>2. offerOf'[s] \in Offers /\ offerAt[offerOf'[s]] = "sent"
    BY <1>0, <2>1 DEF Offered, Progress, Phases
  <2> QED
    BY <1>1, <2>2
<1> QED
  BY <1>2, <1>3, <1>4 DEF Offered
(* What becomes of an approval, while outgoing.json can be written.        *)
LEMMA ApprovalKept ==
  ASSUME IInv, [Next]_vars, diskFails' = 0, NEW o \in Offers
  PROVE  /\ saved' = approvals' /\ (o \in rejected => o \in rejected')
         /\ StoreOffer(o) => o \in approvals'
         /\ o \in approvals =>
              \/ o \in approvals' \/ offerAt'[o] = "failed"
              \/ offerAt[o] = "sent" /\ (o \in rejected' \/ Sent(o)')
<1>0. /\ TypeOK /\ Offered /\ saved = approvals /\ approvals \subseteq Offers
      /\ DOMAIN offerAt = Offers /\ DOMAIN sendAt = Sends
  BY Lasting DEF IInv, Fetchable, TypeOK
<1>1. ASSUME NEW p \in Offers, StoreOffer(p)
      PROVE  /\ saved' = approvals' /\ approvals' = approvals \cup {p}
             /\ UNCHANGED rejected
  BY <1>0, <1>1, Approving DEF StoreOffer
<1>2. ASSUME NEW p \in Offers, OfferFails(p)
      PROVE  /\ saved' = approvals' /\ approvals' = approvals \ {p}
             /\ UNCHANGED rejected /\ offerAt'[p] = "failed"
  BY <1>0, <1>2, Approving DEF OfferFails
<1>3. ASSUME NEW p \in Offers, HearRejection(p)
      PROVE  /\ saved' = approvals' /\ rejected \subseteq rejected'
             /\ offerAt[p] = "sent"
             /\ \/ UNCHANGED approvals
                \/ approvals' = approvals \ {p} /\ p \in rejected'
  <2>1. offerAt[p] = "sent"
    BY <1>0, <1>3 DEF HearRejection, Offered
  <2>2. CASE p \in approvals
    BY <1>0, <1>3, <2>1, <2>2, Approving DEF HearRejection
  <2>3. CASE p \notin approvals
    BY <1>0, <1>3, <2>1, <2>3 DEF HearRejection
  <2> QED
    BY <2>2, <2>3
<1>4. ASSUME NEW s \in Sends, DeleteApproval(s)
      PROVE  /\ saved' = approvals' /\ approvals' = approvals \ {offerOf[s]}
             /\ UNCHANGED rejected
             /\ offerAt[offerOf[s]] = "sent"
             /\ \E t \in Sends : offerOf'[t] = offerOf[s] /\ sendAt'[t] = "ok"
  <2>1. saved' = approvals' /\ approvals' = approvals \ {offerOf[s]}
    BY <1>0, <1>4, Approving DEF DeleteApproval
  <2>2. /\ UNCHANGED <<rejected, offerOf>>
        /\ sendAt[s] = "delivered" /\ sendAt'[s] = "ok"
    BY <1>0, <1>4 DEF DeleteApproval, requests
  <2>3. offerAt[offerOf[s]] = "sent"
    BY <1>0, <2>2 DEF Offered
  <2> QED
    BY <2>1, <2>2, <2>3
<1>7. \/ \E p \in Offers : StoreOffer(p) \/ OfferFails(p) \/ HearRejection(p)
      \/ \E s \in Sends : DeleteApproval(s)
      \/ SenderRestart
      \/ UNCHANGED <<approvals, saved, rejected>>
  <2>1. ASSUME NEW p \in Offers, OfferNext(p), ~StoreOffer(p), ~OfferFails(p),
               ~HearRejection(p)
        PROVE  UNCHANGED <<approvals, saved, rejected>>
    BY <2>1 DEF OfferNext, DialOffer, ReceiveOffer, LoseOffer, Answer,
                LoseRejection, sender, history
  <2>2. ASSUME NEW s \in Sends, SendNext(s), ~DeleteApproval(s)
        PROVE  UNCHANGED <<approvals, saved, rejected>>
    BY <2>2, SendFrame
  <2>3. ASSUME NEW s \in Sends, RecvNext(s)
        PROVE  UNCHANGED <<approvals, saved, rejected>>
    BY <2>3, RecvFrame
  <2>4. CASE AnswerNext
    BY <2>4, AnswerFrame
  <2>5. CASE ReceiverCrash \/ ReceiverStart \/ UNCHANGED vars
    BY <2>5 DEF ReceiverCrash, ReceiverStart, vars, sender, history
  <2> QED
    BY <2>1, <2>2, <2>3, <2>4, <2>5 DEF Next
<1>8. saved' = approvals' /\ (o \in rejected => o \in rejected')
  BY <1>0, <1>1, <1>2, <1>3, <1>4, <1>7 DEF SenderRestart
<1>9. StoreOffer(o) => o \in approvals'
  BY <1>1
<1>10. ASSUME o \in approvals
       PROVE  \/ o \in approvals' \/ offerAt'[o] = "failed"
              \/ offerAt[o] = "sent" /\ (o \in rejected' \/ Sent(o)')
  <2>1. CASE \E p \in Offers : StoreOffer(p)
    BY <1>1, <1>10, <2>1
  <2>2. CASE \E p \in Offers : OfferFails(p)
    <3>1. PICK p \in Offers : OfferFails(p)
      BY <2>2
    <3>2. approvals' = approvals \ {p} /\ offerAt'[p] = "failed"
      BY <1>2, <3>1
    <3> QED
      BY <1>10, <3>2
  <2>3. CASE \E p \in Offers : HearRejection(p)
    <3>1. PICK p \in Offers : HearRejection(p)
      BY <2>3
    <3>2. /\ offerAt[p] = "sent"
          /\ \/ UNCHANGED approvals
             \/ approvals' = approvals \ {p} /\ p \in rejected'
      BY <1>3, <3>1
    <3> QED
      BY <1>10, <3>2
  <2>4. CASE \E s \in Sends : DeleteApproval(s)
    <3>1. PICK s \in Sends : DeleteApproval(s)
      BY <2>4
    <3>2. /\ approvals' = approvals \ {offerOf[s]}
          /\ offerAt[offerOf[s]] = "sent"
          /\ \E t \in Sends : offerOf'[t] = offerOf[s] /\ sendAt'[t] = "ok"
      BY <1>4, <3>1
    <3> QED
      BY <1>10, <3>2 DEF Sent
  <2>5. CASE SenderRestart \/ UNCHANGED <<approvals, saved, rejected>>
    <3>1. approvals' = approvals
      BY <1>0, <2>5 DEF SenderRestart
    <3> QED
      BY <1>10, <3>1
  <2> QED
    BY <1>7, <2>1, <2>2, <2>3, <2>4, <2>5
<1> QED
  BY <1>8, <1>9, <1>10

(* Every step keeps an offer approved until it is over.                    *)
LEMMA FetchableStep == IInv /\ [Next]_vars => Fetchable'
<1> SUFFICES ASSUME IInv, [Next]_vars, diskFails' = 0
             PROVE  /\ saved' = approvals'
                    /\ \A o \in Offers :
                         /\ offerAt'[o] = "stored" => o \in approvals'
                         /\ offerAt'[o] = "sent" =>
                              o \in approvals' \/ Sent(o)' \/ o \in rejected'
  BY DEF Fetchable
<1>0. \A o \in Offers :
        /\ offerAt[o] = "stored" => o \in approvals
        /\ offerAt[o] = "sent" =>
             o \in approvals \/ Sent(o) \/ o \in rejected
  BY Lasting DEF IInv, Fetchable
<1>1. CASE Offers = {}
  <2>1. approvals = {} /\ approvals' = {} /\ saved' = {}
    BY <1>1, TypeStep DEF IInv, TypeOK
  <2> QED
    BY <1>1, <2>1
<1>2. CASE Offers # {}
  <2>1. saved' = approvals'
    BY <1>2, ApprovalKept
  <2> SUFFICES ASSUME NEW o \in Offers
               PROVE  /\ offerAt'[o] = "stored" => o \in approvals'
                      /\ offerAt'[o] = "sent" =>
                           o \in approvals' \/ Sent(o)' \/ o \in rejected'
    BY <2>1
  <2>2. Sent(o) => Sent(o)'
    BY RequestStays DEF Sent
  <2>3. /\ offerAt'[o] = "stored" => offerAt[o] = "stored" \/ StoreOffer(o)
        /\ offerAt'[o] = "sent" => offerAt[o] \in {"stored", "sent"}
    BY OfferMoves DEF DialOffer
  <2> QED
    BY <1>0, <2>2, <2>3, ApprovalKept
<1> QED
  BY <1>1, <1>2
-----------------------------------------------------------------------------
(* How the answers of an offer are counted: by the requests for its sends  *)
(* and by the rejection.                                                   *)
LEMMA AnswersCount ==
  ASSUME NEW o \in Offers
  PROVE  /\ Answers(o) \in Nat /\ Answers(o)' \in Nat
         /\ \A s \in Sends :
              (\A t \in Sends \ {s} : offerOf'[t] = o => offerOf[t] = o) =>
                /\ Answers(o)' <= Answers(o) + 2
                /\ rejected' \cup rejectsOut' \subseteq
                     rejected \cup rejectsOut => Answers(o)' <= Answers(o) + 1
         /\ (\A t \in Sends : offerOf'[t] = o => offerOf[t] = o) =>
              /\ Answers(o)' <= Answers(o) + 1
              /\ (o \in rejected' \cup rejectsOut' =>
                    o \in rejected \cup rejectsOut) =>
                   Answers(o)' <= Answers(o)
<1> DEFINE S == {t \in Sends : offerOf[t] = o}
           T == {t \in Sends : offerOf'[t] = o}
<1>1. /\ IsFiniteSet(S) /\ IsFiniteSet(T)
      /\ Cardinality(S) \in Nat /\ Cardinality(T) \in Nat
  <2>1. S \subseteq Sends /\ T \subseteq Sends /\ IsFiniteSet(Sends)
    BY SuffixesAssumption
  <2> HIDE DEF S, T
  <2> QED
    BY <2>1, FS_Subset, FS_CardinalityType
<1>2. ASSUME T \subseteq S PROVE Cardinality(T) <= Cardinality(S)
  <2> HIDE DEF S, T
  <2> QED
    BY <1>1, <1>2, FS_Subset
<1>3. ASSUME NEW s \in Sends, T \subseteq S \cup {s}
      PROVE  Cardinality(T) <= Cardinality(S) + 1
  <2> HIDE DEF S, T
  <2>1. /\ IsFiniteSet(S \cup {s})
        /\ Cardinality(S \cup {s}) \in {Cardinality(S), Cardinality(S) + 1}
    BY <1>1, FS_AddElement
  <2>2. Cardinality(T) <= Cardinality(S \cup {s})
    BY <1>3, <2>1, FS_Subset
  <2> QED
    BY <1>1, <2>1, <2>2
<1> DEFINE b == IF o \in rejected \cup rejectsOut THEN 1 ELSE 0
           c == IF o \in rejected' \cup rejectsOut' THEN 1 ELSE 0
<1>4. Answers(o) = Cardinality(S) + b /\ Answers(o)' = Cardinality(T) + c
  BY DEF Answers
<1>5. /\ b \in {0, 1} /\ c \in {0, 1}
      /\ (o \in rejected' \cup rejectsOut' => o \in rejected \cup rejectsOut)
           => c <= b
  OBVIOUS
<1>6. /\ \A s \in Sends :
           (\A t \in Sends \ {s} : offerOf'[t] = o => offerOf[t] = o) =>
             T \subseteq S \cup {s}
      /\ (\A t \in Sends : offerOf'[t] = o => offerOf[t] = o) => T \subseteq S
  OBVIOUS
<1> HIDE DEF S, T, b, c
<1> QED
  BY <1>1, <1>2, <1>3, <1>4, <1>5, <1>6

(* What a step does with an offer: nothing, or it is answered, or a mishap *)
(* lets it be answered again.                                              *)
Quiet(o) == Answers(o)' <= Answers(o) /\ (Open(o)' => Open(o))

Answered(o) == Answers(o)' <= Answers(o) + 1 /\ Open(o) /\ ~Open(o)'

Mishap(o) ==
  /\ Answers(o)' <= Answers(o)
  /\ crashes' > crashes \/ diskFails' > diskFails

(* The steps of an offer answer nothing.                                   *)
LEMMA AnswersOffer ==
  ASSUME IInv, [Next]_vars, NEW p \in Offers, OfferNext(p), NEW o \in Offers
  PROVE  Quiet(o)
<1>1. /\ UNCHANGED offerOf
      /\ rejected' \cup rejectsOut' \subseteq rejected \cup rejectsOut
  <2>1. rejected' \cup rejectsOut' \subseteq rejected \cup rejectsOut
    BY DEF OfferNext, StoreOffer, DialOffer, OfferFails, ReceiveOffer,
           LoseOffer, Answer, HearRejection, LoseRejection, wire, history
  <2> QED
    BY <2>1, OfferFrame
<1>2. Answers(o)' <= Answers(o)
  BY <1>1, AnswersCount
<1>3. offerAt'[o] # "sent" => offerAt[o] # "sent"
  BY OfferMoves
<1>4. /\ queue' \cup queueSaved' \subseteq queue \cup queueSaved \cup offersOut
      /\ offersOut' \subseteq
           offersOut \cup {q \in Offers : offerAt[q] # "sent"}
      /\ \/ UNCHANGED ui
         \/ ui.verb # "removing" /\ ui'.verb # "removing"
  <2>1. CASE StoreOffer(p) \/ OfferFails(p)
    BY <2>1 DEF StoreOffer, OfferFails, theQueue, wire
  <2>2. CASE DialOffer(p)
    BY <2>2 DEF DialOffer, theQueue
  <2>3. CASE ReceiveOffer(p)
    BY <2>3 DEF ReceiveOffer, Q!Add
  <2>4. CASE LoseOffer(p) \/ HearRejection(p) \/ LoseRejection(p)
    BY <2>4 DEF LoseOffer, HearRejection, LoseRejection, theQueue
  <2>5. CASE Answer("approve", p) \/ Answer("reject", p)
    BY <2>5 DEF Answer, Idle, theQueue, wire
  <2> QED
    BY <2>1, <2>2, <2>3, <2>4, <2>5 DEF OfferNext
<1> QED
  BY <1>2, <1>3, <1>4 DEF Quiet, Open

(* An answer takes an offer from the queue, and only that offer.           *)
LEMMA AnswersAnswer ==
  ASSUME IInv, [Next]_vars, AnswerNext, NEW o \in Offers
  PROVE  Quiet(o) \/ Answered(o) \/ Mishap(o)
<1>0. /\ DOMAIN offerOf = Sends /\ DOMAIN ui = {"verb", "item", "target"}
      /\ Offered /\ Answering /\ TypeOK
  <2>1. TypeOK
    BY DEF IInv
  <2> QED
    BY <2>1 DEF IInv, TypeOK
<1>1. UNCHANGED <<offersOut, offerAt, rejected, crashes>>
  BY AnswerFrame
<1>2. ASSUME ui.verb \in {"approve", "reject"}, ui'.verb = "removing",
             ui'.item = ui.item, UNCHANGED <<queue, queueSaved>>
      PROVE  /\ Open(o)' => Open(o)
             /\ o = ui.item => Open(o) /\ ~Open(o)'
  <2>1. ui.item \in queue /\ offerAt[ui.item] = "sent"
    BY <1>0, <1>2 DEF Answering, Offered
  <2>2. ui.item \notin offersOut
    BY <1>0, <2>1 DEF Answering
  <2> QED
    BY <1>1, <1>2, <2>1, <2>2 DEF Open
<1>3. CASE \E s \in Sends : RequestSent(s)
  <2>1. PICK s \in Sends : RequestSent(s)
    BY <1>3
  <2>2. /\ ui.verb = "approve" /\ ui'.verb = "removing" /\ ui'.item = ui.item
        /\ offerOf' = [offerOf EXCEPT ![s] = ui.item]
        /\ UNCHANGED <<queue, queueSaved, rejectsOut>>
    BY <1>0, <2>1 DEF RequestSent, AnswerOut, theQueue, wire
  <2>3. \A t \in Sends : offerOf'[t] = IF t = s THEN ui.item ELSE offerOf[t]
    BY <1>0, <2>2
  <2>4. CASE o = ui.item
    <3>1. Answers(o)' <= Answers(o) + 1
      BY <1>1, <2>2, <2>3, AnswersCount
    <3> QED
      BY <1>2, <2>2, <2>4, <3>1 DEF Answered
  <2>5. CASE o # ui.item
    <3>1. Answers(o)' <= Answers(o)
      BY <1>1, <2>2, <2>3, <2>5, AnswersCount
    <3> QED
      BY <1>2, <2>2, <3>1 DEF Quiet
  <2> QED
    BY <2>4, <2>5
<1>4. CASE RejectSent
  <2>1. /\ ui.verb = "reject" /\ ui'.verb = "removing" /\ ui'.item = ui.item
        /\ rejectsOut' = rejectsOut \cup {ui.item}
        /\ UNCHANGED <<queue, queueSaved, offerOf>>
    BY <1>0, <1>4 DEF RejectSent, AnswerOut, theQueue, requests
  <2>2. CASE o = ui.item
    <3>1. Answers(o)' <= Answers(o) + 1
      BY <2>1, AnswersCount
    <3> QED
      BY <1>2, <2>1, <2>2, <3>1 DEF Answered
  <2>3. CASE o # ui.item
    <3>1. Answers(o)' <= Answers(o)
      BY <1>1, <2>1, <2>3, AnswersCount
    <3> QED
      BY <1>2, <2>1, <3>1 DEF Quiet
  <2> QED
    BY <2>2, <2>3
<1>5. ASSUME AnswerFails \/ RemoveAnswered \/ RemoveFails
      PROVE  Answers(o)' <= Answers(o)
  <2>1. UNCHANGED <<offerOf, rejectsOut>>
    BY <1>5 DEF AnswerFails, RemoveAnswered, RemoveFails, requests, wire
  <2> QED
    BY <1>1, <2>1, AnswersCount
<1>6. CASE AnswerFails
  <2>1. /\ ui.verb # "removing" /\ ui'.verb # "removing"
        /\ UNCHANGED <<queue, queueSaved>>
    BY <1>6 DEF AnswerFails, Idle, theQueue
  <2> QED
    BY <1>1, <1>5, <1>6, <2>1 DEF Quiet, Open
<1>7. CASE RemoveAnswered
  <2>1. /\ queue' \cup queueSaved' = queue \ {ui.item}
    BY <1>7 DEF RemoveAnswered, Q!Remove
  <2> QED
    BY <1>1, <1>5, <1>7, <2>1 DEF Quiet, Open
<1>8. CASE RemoveFails
  <2>1. /\ diskFails' = diskFails + 1
        /\ crashes \in Nat /\ diskFails \in Nat
    BY <1>0, <1>8, Counted DEF RemoveFails
  <2> QED
    BY <1>1, <1>5, <1>8, <2>1 DEF Mishap
<1> QED
  BY <1>3, <1>4, <1>6, <1>7, <1>8 DEF AnswerNext

(* And every other step leaves the answers as they are, or is a mishap.    *)
LEMMA AnswersMove ==
  ASSUME IInv, [Next]_vars, NEW o \in Offers
  PROVE  Quiet(o) \/ Answered(o) \/ Mishap(o)
<1>1. CASE \E p \in Offers : OfferNext(p)
  BY <1>1, AnswersOffer
<1>2. CASE AnswerNext
  BY <1>2, AnswersAnswer
<1>3. CASE \/ \E s \in Sends : SendNext(s) \/ RecvNext(s)
           \/ UNCHANGED vars
  <2>1. UNCHANGED <<offerAt, offerOf, queue, queueSaved, ui, rejectsOut,
                    rejected, offersOut>>
    <3>1. CASE \E s \in Sends : SendNext(s) \/ RecvNext(s)
      BY <3>1, SendFrame, RecvFrame
    <3>2. CASE UNCHANGED vars
      BY <3>2 DEF vars, sender, requests, theQueue, wire, history
    <3> QED
      BY <1>3, <3>1, <3>2
  <2>2. Answers(o)' <= Answers(o)
    BY <2>1, AnswersCount
  <2> QED
    BY <2>1, <2>2 DEF Quiet, Open
<1>4. CASE SenderRestart \/ ReceiverCrash
  <2>1. /\ UNCHANGED <<offerOf, rejected, diskFails>>
        /\ rejectsOut' \subseteq rejectsOut
        /\ crashes' = crashes + 1
    BY <1>4 DEF SenderRestart, ReceiverCrash, requests
  <2>2. crashes \in Nat /\ diskFails \in Nat
    BY Counted DEF IInv
  <2>3. Answers(o)' <= Answers(o)
    BY <2>1, AnswersCount
  <2> QED
    BY <2>1, <2>2, <2>3 DEF Mishap
<1>5. CASE ReceiverStart
  <2>1. /\ queue' = queueSaved /\ queueSaved' = queueSaved
        /\ UNCHANGED <<offerAt, offerOf, ui, offersOut, rejectsOut, rejected>>
    BY <1>5 DEF ReceiverStart, Q!Load, sender, requests, wire, history
  <2>2. Answers(o)' <= Answers(o)
    BY <2>1, AnswersCount
  <2> QED
    BY <2>1, <2>2 DEF Quiet, Open
<1> QED
  BY <1>1, <1>2, <1>3, <1>4, <1>5 DEF Next

(* The command in progress is about an offer in the queue.                 *)
LEMMA CommandStep ==
  ASSUME IInv, [Next]_vars, ui'.verb # "idle"
  PROVE  receiverUp' /\ ui'.item \in queue'
<1>0. /\ DOMAIN ui = {"verb", "item", "target"}
      /\ ui.verb # "idle" => receiverUp /\ ui.item \in queue
  BY DEF IInv, TypeOK, Answering
<1>1. ASSUME NEW p \in Offers, OfferNext(p)
      PROVE  receiverUp' /\ ui'.item \in queue'
  <2>1. CASE ReceiveOffer(p)
    BY <1>0, <2>1 DEF ReceiveOffer, Q!Add
  <2>2. CASE Answer("approve", p) \/ Answer("reject", p)
    BY <2>2 DEF Answer, theQueue
  <2>3. CASE ~(\/ ReceiveOffer(p) \/ Answer("approve", p)
               \/ Answer("reject", p))
    BY <1>0, <1>1, <2>3 DEF OfferNext, StoreOffer, DialOffer, OfferFails,
       LoseOffer, HearRejection, LoseRejection, theQueue
  <2> QED
    BY <2>1, <2>2, <2>3
<1>2. CASE AnswerNext
  BY <1>0, <1>2 DEF AnswerNext, RequestSent, RejectSent, AnswerFails,
                    RemoveAnswered, RemoveFails, AnswerOut, Idle, theQueue
<1>3. CASE \E s \in Sends : SendNext(s) \/ RecvNext(s)
  BY <1>0, <1>3, SendFrame, RecvFrame
<1>4. CASE SenderRestart \/ ReceiverCrash \/ ReceiverStart \/ UNCHANGED vars
  BY <1>0, <1>4 DEF SenderRestart, ReceiverCrash, ReceiverStart, Q!Load, vars,
                    Idle, theQueue
<1> QED
  BY <1>1, <1>2, <1>3, <1>4 DEF Next

(* Every step keeps the answers in order.                                  *)
LEMMA AnsweringStep == IInv /\ [Next]_vars => Answering'
<1> SUFFICES ASSUME IInv, [Next]_vars PROVE Answering'
  OBVIOUS
<1>0. Answering /\ Offered /\ TypeOK /\ TypeOK'
  BY TypeStep DEF IInv
<1>1. ASSUME NEW o \in offersOut'
      PROVE  o \notin queue' \cup queueSaved'
  <2>1. o \in Offers
    BY <1>0 DEF TypeOK
  <2>2. CASE \E p \in Offers : DialOffer(p)
    <3>1. PICK p \in Offers : DialOffer(p)
      BY <2>2
    <3>2. /\ UNCHANGED <<queue, queueSaved>> /\ offersOut' = offersOut \cup {p}
          /\ offerAt[p] = "stored"
      BY <3>1 DEF DialOffer, theQueue
    <3> QED
      BY <1>0, <3>2 DEF Answering, Offered
  <2>3. CASE \E p \in Offers : ReceiveOffer(p)
    <3>1. PICK p \in Offers : ReceiveOffer(p)
      BY <2>3
    <3>2. /\ offersOut' = offersOut \ {p}
          /\ queue' \cup queueSaved' \subseteq queue \cup queueSaved \cup {p}
      BY <3>1 DEF ReceiveOffer, Q!Add
    <3> QED
      BY <1>0, <3>2 DEF Answering
  <2>4. CASE ~\E p \in Offers : DialOffer(p) \/ ReceiveOffer(p)
    <3>1. /\ offersOut' \subseteq offersOut
          /\ queue' \cup queueSaved' \subseteq queue \cup queueSaved
      <4>1. ASSUME NEW p \in Offers, OfferNext(p)
            PROVE  /\ offersOut' \subseteq offersOut
                   /\ UNCHANGED <<queue, queueSaved>>
        BY <2>4, <4>1 DEF OfferNext, StoreOffer, OfferFails, LoseOffer, Answer,
                          HearRejection, LoseRejection, theQueue, wire
      <4>2. CASE AnswerNext
        <5>1. UNCHANGED offersOut
          BY <4>2, AnswerFrame
        <5>2. /\ queue' \subseteq queue
              /\ queueSaved' \subseteq queueSaved \cup queue
          BY <4>2 DEF AnswerNext, RequestSent, RejectSent, AnswerFails,
             RemoveAnswered, RemoveFails, Q!Remove, Q!Forget, theQueue
        <5> QED
          BY <5>1, <5>2
      <4>3. CASE \E s \in Sends : SendNext(s) \/ RecvNext(s)
        BY <4>3, SendFrame, RecvFrame
      <4>4. CASE SenderRestart \/ UNCHANGED vars
        BY <4>4 DEF SenderRestart, vars, theQueue, wire
      <4>5. CASE ReceiverCrash
        BY <4>5 DEF ReceiverCrash, Q!Crash
      <4>6. CASE ReceiverStart
        BY <4>6 DEF ReceiverStart, Q!Load, wire
      <4> QED
        BY <4>1, <4>2, <4>3, <4>4, <4>5, <4>6 DEF Next
    <3> QED
      BY <1>0, <3>1 DEF Answering
  <2> QED
    BY <2>2, <2>3, <2>4
<1>2. ASSUME NEW o \in Offers
      PROVE  Due(o)' <= 1 + crashes' + diskFails'
  <2>1. /\ crashes \in Nat /\ diskFails \in Nat
        /\ crashes' \in Nat /\ diskFails' \in Nat
        /\ crashes' >= crashes /\ diskFails' >= diskFails
    <3>1. crashes' \in 0..MaxCrashes /\ diskFails' \in 0..MaxDiskFails
      BY <1>0 DEF TypeOK
    <3> QED
      BY <1>0, <3>1, Counted, Lasting, BoundsAssumption
  <2>2. /\ Answers(o) \in Nat /\ Answers(o)' \in Nat
        /\ Due(o) <= 1 + crashes + diskFails
    BY <1>0, AnswersCount DEF Answering
  <2>3. /\ Due(o) = Answers(o) + (IF Open(o) THEN 1 ELSE 0)
        /\ Due(o)' = Answers(o)' + (IF Open(o)' THEN 1 ELSE 0)
    BY DEF Due
  <2>4. Quiet(o) \/ Answered(o) \/ Mishap(o)
    BY AnswersMove
  <2>5. CASE Quiet(o)
    BY <2>1, <2>2, <2>3, <2>5 DEF Quiet
  <2>6. CASE Answered(o)
    BY <2>1, <2>2, <2>3, <2>6 DEF Answered
  <2>7. CASE Mishap(o)
    <3>1. /\ Answers(o)' <= Answers(o)
          /\ crashes' >= crashes + 1 \/ diskFails' >= diskFails + 1
      BY <2>1, <2>7 DEF Mishap
    <3> QED
      BY <2>1, <2>2, <2>3, <3>1
  <2> QED
    BY <2>4, <2>5, <2>6, <2>7
<1> QED
  BY <1>1, <1>2, CommandStep DEF Answering
-----------------------------------------------------------------------------
(* The invariant holds in every reachable state.                           *)
LEMMA Invariance == Spec => []IInv
<1>1. IInv /\ [Next]_vars => IInv'
  BY TypeStep, ProgressStep, WrittenStep, ApartStep, ConfirmationsStep,
     OfferedStep, FetchableStep, AnsweringStep DEF IInv
<1> QED
  BY <1>1, InitInv, PTL DEF Spec

(* The variables keep their types.                                         *)
THEOREM TypeCorrect == Spec => []TypeOK
<1>1. IInv => TypeOK
  BY DEF IInv
<1> QED
  BY <1>1, Invariance, PTL

(* No offer is answered oftener than once and once for each program that   *)
(* stopped and each removal that was not saved: it leaves the queue with   *)
(* its answer, before another command runs, and only a mishap in between   *)
(* brings it back (queue_commands.go:252-300).                             *)
THEOREM OffersAnsweredOnce == Spec => []AnsweredOnce
<1>1. IInv => AnsweredOnce
  <2> SUFFICES ASSUME IInv, NEW o \in Offers
               PROVE  Answers(o) <= 1 + crashes + diskFails
    BY DEF AnsweredOnce
  <2>1. /\ crashes \in Nat /\ diskFails \in Nat /\ Answers(o) \in Nat
        /\ Due(o) <= 1 + crashes + diskFails
    BY Counted, AnswersCount DEF IInv, Answering
  <2>2. Due(o) >= Answers(o)
    BY <2>1 DEF Due
  <2>3. Due(o) \in Nat
    BY <2>1 DEF Due
  <2> QED
    BY <2>1, <2>2, <2>3
<1> QED
  BY <1>1, Invariance, PTL

(* A send is taken for delivered only when a payload of its name was stored*)
(* whole, though the confirmations that come out of band are told apart by *)
(* the name alone (transfer.go:766-775, 929-944).                          *)
THEOREM DeliveriesAreTrue == Spec => []DeliveredIsTrue
<1>1. IInv => DeliveredIsTrue
  BY DEF IInv, Confirmations, Verified, DeliveredIsTrue
<1> QED
  BY <1>1, Invariance, PTL

(* What the receiver can see can be fetched, while outgoing.json can be    *)
(* written: the sender approves before it offers, and drops the approval   *)
(* only when the offer is over (transfer.go:1887-1985).                      *)
THEOREM SeenCanBeFetched == Spec => []SeenIsFetchable
<1>1. IInv => SeenIsFetchable
  <2> SUFFICES ASSUME IInv, diskFails = 0,
                      NEW o \in queue \cup queueSaved \cup offersOut
               PROVE  \/ o \in approvals /\ o \in saved
                      \/ Sent(o) \/ o \in rejected
    BY DEF SeenIsFetchable
  <2>1. o \in Offers
    BY DEF IInv, TypeOK
  <2> QED
    BY <2>1 DEF IInv, Offered, Fetchable
<1> QED
  BY <1>1, Invariance, PTL

(* A file that nobody receives any more is one payload, whole and verified,*)
(* unless two receives raced for a path or a program stopped: a failed     *)
(* receive removes its own file and no other (transfer.go:1012-1100).      *)
THEOREM FilesAreWhole == Spec => []WholeOrNothing
<1>1. IInv => WholeOrNothing
  <2> SUFFICES ASSUME IInv, ~raced, crashes = 0, NEW p \in Paths,
                      \A s \in files[p] : recvAt[s] \in {"idle", "stored",
                                                         "over"},
                      NEW s \in files[p]
               PROVE  files[p] = {s} /\ verdict[s] = "ok"
    BY DEF WholeOrNothing
  <2>1. s \in Sends /\ crashes \in Nat
    BY Counted DEF IInv, TypeOK
  <2>2. /\ path[s] = p /\ recvAt[s] \in HasFile \cup {"over"}
        /\ recvAt[s] = "over" => crashes > 0
    BY DEF IInv, Written
  <2>3. path[s] = p /\ recvAt[s] = "stored"
    <3>1. ~(crashes > 0)
      BY <2>1
    <3>2. recvAt[s] \in {"idle", "stored", "over"}
      OBVIOUS
    <3> QED
      BY <2>2, <3>1, <3>2 DEF HasFile
  <2> QED
    BY <2>1, <2>3 DEF IInv, Apart, HasFile, Progress, Phases
<1> QED
  BY <1>1, Invariance, PTL

(* What was acknowledged stays at its path, alone, through every other     *)
(* receive that did not race for it: a new path is one without a file, and *)
(* there is always one left (transfer.go:1050, queue.go:381-396).    *)
THEOREM ReceivedFilesStay == Spec => []ReceivedStays
<1>1. IInv => ReceivedStays
  BY DEF IInv, Apart, HasFile, ReceivedStays
<1> QED
  BY <1>1, Invariance, PTL
=============================================================================
