----------------------------- MODULE LanFolders -----------------------------
(***************************************************************************)
(* Folders between two machines (internal/network/transfer.go, archive.go).*)
(* The sender packs the folder when it offers it and keeps the archive in  *)
(* the temporary directory until the offer is answered; the receiver       *)
(* downloads an archive of its own and unpacks it where the user asked.    *)
(*                                                                         *)
(* What folders share with files is in LanTransfer: how envelopes get      *)
(* lost, how a delivery is confirmed, the queue on disk.  Here it is       *)
(* abstract: Delivered and NotDelivered are the ends of sendEnvelope, and  *)
(* the queue is a set; that a free name is asked for and taken in two      *)
(* steps is there for files, and here for the directories only: the        *)
(* receiver's copy of the archive has a name of its own from the start.    *)
(* What folders have of their own is whole: who owns which archive, and    *)
(* what is in which directory.  A packed folder is the sequence of its     *)
(* entries, in the order of the archive.                                   *)
(***************************************************************************)
EXTENDS Naturals, Sequences, FiniteSets

CONSTANTS
  Offers,         \* offers, by request id
  NameOf,         \* the base name of the offered folder
  ContentOf,      \* its entries
  Sends,          \* bound: requests answered with a payload
  Suffixes,       \* bound: the numbers UniquePath tries
  MaxMishaps,     \* bound: sender restarts and failed saves of the queue
  None

Names == {NameOf[o] : o \in Offers}
Entries == UNION {{ContentOf[o][i] : i \in DOMAIN ContentOf[o]} : o \in Offers}

(* "photos", "photos (1)", and so on.                                      *)
Paths ==
  {<<n>> : n \in Names} \cup {<<n, i>> : n \in Names, i \in Suffixes}
    \cup {<<n, i, j>> : n \in Names, i \in Suffixes, j \in Suffixes}

(* There is always a number left, as the code goes on counting: whoever is *)
(* looking for a directory has none yet.                                   *)
ASSUME SuffixesAssumption ==
  /\ Suffixes \subseteq Nat /\ IsFiniteSet(Suffixes) /\ IsFiniteSet(Sends)
  /\ Cardinality(Sends) <= Cardinality(Suffixes) + 1

ASSUME OffersAssumption ==
  Offers \cap Sends = {} /\ ContentOf \in [Offers -> Seq(Entries)]

ASSUME NoneAssumption ==
  None \notin Sends \cup Offers \cup Paths \cup [Entries -> Sends \cup {None}]

ASSUME BoundsAssumption == MaxMishaps \in Nat

VARIABLES
  approvals,   \* outgoingApprovals of folders
  offerAt,     \* where SendFolder is with each offer
  archives,    \* archives in the sender's temporary directory: an offer's,
               \* made by SendFolder, or a send's, made once more
  sendAt,      \* performApprovedFolderTransfer
  using,       \* its archivePath
  queue,       \* the receiver's pending folders
  offerOf, target,    \* the request a send answers: its offer, its TargetPath
  rejects,     \* rejections on their way
  recvAt,      \* receiveFolder of each send
  raws,        \* receives whose downloaded archive is on disk
  dest,        \* destDir
  unpacked,    \* how many entries it has written
  folders,     \* directories: who wrote each entry; None: no such directory
  shared,      \* history: a receive chose the directory of one in progress
  crashes, fails

sender == <<approvals, offerAt, archives, sendAt, using>>
asking == <<queue, offerOf, target, rejects>>
receiving == <<recvAt, raws, dest, unpacked, folders, shared>>
vars == <<sender, asking, receiving, crashes, fails>>

Empty == [e \in Entries |-> None]

Init ==
  /\ approvals = {} /\ offerAt = [o \in Offers |-> "new"] /\ archives = {}
  /\ sendAt = [s \in Sends |-> "idle"] /\ using = [s \in Sends |-> None]
  /\ queue = {} /\ offerOf = [s \in Sends |-> None]
  /\ target = [s \in Sends |-> None] /\ rejects = {}
  /\ recvAt = [s \in Sends |-> "idle"]
  /\ raws = {} /\ dest = [s \in Sends |-> None]
  /\ unpacked = [s \in Sends |-> 0] /\ folders = [p \in Paths |-> None]
  /\ shared = FALSE /\ crashes = 0 /\ fails = 0

NameFor(s) == NameOf[offerOf[s]]
Content(s) == ContentOf[offerOf[s]]

UniquePathMutant(p) ==   \* a slip: the numbers begin with none
  IF folders[p] = None THEN p ELSE Append(p, 0)

(* The first of the path and its numbered variants that does not exist.    *)
UniquePath(p) ==
  IF folders[p] = None THEN p
  ELSE Append(p, CHOOSE i \in Suffixes :
                   /\ folders[Append(p, i)] = None
                   /\ \A j \in Suffixes :
                        j < i => folders[Append(p, j)] # None)
-----------------------------------------------------------------------------
(* The sender offers (SendFolder): it measures and packs the folder, and   *)
(* nothing of it stays when that fails.                                    *)
Pack(o) ==
  /\ offerAt[o] = "new"
  /\ \/ /\ offerAt' = [offerAt EXCEPT ![o] = "packed"]
        /\ archives' = archives \cup {o}
     \/ offerAt' = [offerAt EXCEPT ![o] = "failed"] /\ UNCHANGED archives
  /\ UNCHANGED <<approvals, sendAt, using, asking, receiving, crashes, fails>>

StoreOffer(o) ==
  /\ offerAt[o] = "packed"
  /\ offerAt' = [offerAt EXCEPT ![o] = "stored"]
  /\ approvals' = approvals \cup {o}
  /\ UNCHANGED <<archives, sendAt, using, asking, receiving, crashes, fails>>

(* The archive cannot be read back.                                        *)
PackUnreadable(o) ==
  /\ offerAt[o] = "packed"
  /\ offerAt' = [offerAt EXCEPT ![o] = "failed"]
  /\ archives' = archives \ {o}
  /\ UNCHANGED <<approvals, sendAt, using, asking, receiving, crashes, fails>>

(* The envelope arrives and receiveFolderOffer queues it, or refuses it.   *)
Offer(o) ==
  /\ offerAt[o] = "stored"
  /\ offerAt' = [offerAt EXCEPT ![o] = "sent"]
  /\ queue' \in {queue, queue \cup {o}}
  /\ UNCHANGED <<approvals, archives, sendAt, using, offerOf, target, rejects,
                 receiving, crashes, fails>>

(* The receiver cannot be reached.                                         *)
OfferFails(o) ==
  /\ offerAt[o] = "stored"
  /\ offerAt' = [offerAt EXCEPT ![o] = "failed"]
  /\ approvals' = approvals \ {o}
  /\ archives' = archives \ {o}
  /\ UNCHANGED <<sendAt, using, asking, receiving, crashes, fails>>
-----------------------------------------------------------------------------
(* The receiver answers (approvePendingByID, rejectPendingByID): once the  *)
(* envelope is out RemoveFolder takes the item off, or fails to.           *)
TakeOff(o) ==
  \/ queue' = queue \ {o} /\ UNCHANGED fails
  \/ crashes + fails < MaxMishaps /\ fails' = fails + 1 /\ UNCHANGED queue

Approve(o, s) ==
  /\ o \in queue /\ TakeOff(o)
  /\ sendAt[s] = "idle" /\ sendAt' = [sendAt EXCEPT ![s] = "asked"]
  /\ offerOf' = [offerOf EXCEPT ![s] = o]
  /\ target' = [target EXCEPT ![s] = UniquePath(<<NameOf[o]>>)]
  /\ UNCHANGED <<approvals, offerAt, archives, using, rejects, receiving,
                 crashes>>

Reject(o) ==
  /\ o \in queue /\ TakeOff(o)
  /\ rejects' = rejects \cup {o}
  /\ UNCHANGED <<sender, offerOf, target, receiving, crashes>>

(* handleTransferRejection.                                                *)
HearRejection(o) ==
  /\ o \in rejects /\ rejects' = rejects \ {o}
  /\ approvals' = approvals \ {o}
  /\ archives' = IF o \in approvals THEN archives \ {o} ELSE archives
  /\ UNCHANGED <<offerAt, sendAt, using, queue, offerOf, target, receiving,
                 crashes, fails>>

LoseRejection(o) ==
  /\ o \in rejects /\ rejects' = rejects \ {o}
  /\ UNCHANGED <<sender, queue, offerOf, target, receiving, crashes, fails>>
-----------------------------------------------------------------------------
(* The sender answers the request (handleFolderRequest,                    *)
(* performApprovedFolderTransfer).                                         *)
SendStep(s, from, to) ==
  /\ sendAt[s] = from /\ sendAt' = [sendAt EXCEPT ![s] = to]
  /\ UNCHANGED <<offerAt, asking, crashes, fails>>

HearRequest(s) ==
  /\ offerOf[s] \in approvals
  /\ SendStep(s, "asked", "choosing")
  /\ UNCHANGED <<approvals, archives, using, receiving>>

(* Lost, nothing known of the offer, or its receiver not to be found.      *)
DropRequest(s) ==
  /\ SendStep(s, "asked", "failed")
  /\ UNCHANGED <<approvals, archives, using, receiving>>

(* The archive the offer was made with, if it is still there.              *)
UseArchive(s) ==
  /\ offerOf[s] \in archives
  /\ SendStep(s, "choosing", "opening")
  /\ using' = [using EXCEPT ![s] = offerOf[s]]
  /\ UNCHANGED <<approvals, archives, receiving>>

(* Otherwise the folder is packed once more.                               *)
PackAgain(s) ==
  /\ offerOf[s] \notin archives
  /\ SendStep(s, "choosing", "opening")
  /\ using' = [using EXCEPT ![s] = s]
  /\ archives' = archives \cup {s}
  /\ UNCHANGED <<approvals, receiving>>

PackAgainFails(s) ==
  /\ offerOf[s] \notin archives
  /\ SendStep(s, "choosing", "failed")
  /\ UNCHANGED <<approvals, archives, using, receiving>>

(* openTransferFile and the connection; the receiver takes the payload up  *)
(* or refuses it.  What is open can be read though its name is removed.    *)
Dial(s) ==
  /\ using[s] \in archives
  /\ SendStep(s, "opening", "sending")
  /\ \E at \in {"starting", "over"} : recvAt' = [recvAt EXCEPT ![s] = at]
  /\ UNCHANGED <<approvals, archives, using, raws, dest, unpacked,
                 folders, shared>>

(* The archive is gone, nobody answers, the connection breaks, the user    *)
(* cancels, or no confirmation comes.                                      *)
NotDelivered(s) ==
  /\ \E from \in {"opening", "sending"} : SendStep(s, from, "failing")
  /\ UNCHANGED <<approvals, archives, using, receiving>>

(* Confirmed; a late confirmation is found by the name (LanTransfer).      *)
Delivered(s) ==
  /\ SendStep(s, "sending", "delivered")
  /\ \E t \in Sends : recvAt[t] = "stored" /\ NameFor(t) = NameFor(s)
  /\ approvals' = approvals \ {offerOf[s]}
  /\ UNCHANGED <<archives, using, receiving>>

RemoveArchiveMutant(s) ==   \* a slip: only what was packed for this send
  /\ \/ SendStep(s, "failing", "failed") \/ SendStep(s, "delivered", "ok")
  /\ archives' = archives \ {s}
  /\ UNCHANGED <<approvals, using, receiving>>

(* The deferred os.Remove, however it ended.                               *)
RemoveArchive(s) ==
  /\ \/ SendStep(s, "failing", "failed") \/ SendStep(s, "delivered", "ok")
  /\ archives' = archives \ {using[s]}
  /\ UNCHANGED <<approvals, using, receiving>>
-----------------------------------------------------------------------------
(* The receiver takes the payload (receiveFolder).                         *)
RecvStep(s, from, to) ==
  /\ recvAt[s] = from /\ recvAt' = [recvAt EXCEPT ![s] = to]
  /\ UNCHANGED <<sender, asking, crashes, fails>>

Receiving(s) == recvAt[s] \in {"reading", "unpacking"}
Received(s) == recvAt[s] \in {"confirming", "stored"}

StartMutant(s) ==   \* a slip: the directory of the request is taken
  /\ RecvStep(s, "starting", "reading")
  /\ raws' = raws \cup {s}
  /\ dest' = [dest EXCEPT ![s] = target[s]]
  /\ shared' = (shared \/ \E t \in Sends : Receiving(t) /\ dest[t] = target[s])
  /\ UNCHANGED <<unpacked, folders>>

(* A fresh file for the archive, and the directory it is going to.         *)
Start(s) ==
  /\ RecvStep(s, "starting", "reading")
  /\ raws' = raws \cup {s}
  /\ LET p == UniquePath(target[s])
     IN  /\ dest' = [dest EXCEPT ![s] = p]
         /\ shared' = (shared \/ \E t \in Sends : Receiving(t) /\ dest[t] = p)
  /\ UNCHANGED <<unpacked, folders>>

(* Everything arrived as sent; MkdirAll of the directory.                  *)
MakeDir(s) ==
  /\ RecvStep(s, "reading", "unpacking")
  /\ folders' = [folders EXCEPT ![dest[s]] = IF @ = None THEN Empty ELSE @]
  /\ UNCHANGED <<raws, dest, unpacked, shared>>

(* The connection breaks, the disk is full, the checksum is wrong or the   *)
(* directory cannot be made.                                               *)
ReadFails(s) ==
  /\ RecvStep(s, "reading", "over")
  /\ raws' = raws \ {s}
  /\ UNCHANGED <<dest, unpacked, folders, shared>>

(* unzip: the next entry, its directory made again if need be.             *)
UnpackOne(s) ==
  /\ RecvStep(s, "unpacking", "unpacking") /\ unpacked[s] < Len(Content(s))
  /\ unpacked' = [unpacked EXCEPT ![s] = @ + 1]
  /\ LET there == IF folders[dest[s]] = None THEN Empty ELSE folders[dest[s]]
     IN  folders' = [folders EXCEPT ![dest[s]] =
                       [there EXCEPT ![Content(s)[unpacked[s] + 1]] = s]]
  /\ UNCHANGED <<raws, dest, shared>>

UnpackEnds(s) ==
  /\ RecvStep(s, "unpacking", "confirming") /\ unpacked[s] = Len(Content(s))
  /\ UNCHANGED <<raws, dest, unpacked, folders, shared>>

(* An entry cannot be written: os.RemoveAll of the directory.              *)
UnpackFails(s) ==
  /\ RecvStep(s, "unpacking", "refusing")
  /\ folders' = [folders EXCEPT ![dest[s]] = None]
  /\ UNCHANGED <<raws, dest, unpacked, shared>>

(* The status goes out (or is lost) and the deferred os.Remove is done.    *)
Report(s) ==
  /\ RecvStep(s, "confirming", "stored") \/ RecvStep(s, "refusing", "over")
  /\ raws' = raws \ {s}
  /\ UNCHANGED <<dest, unpacked, folders, shared>>
-----------------------------------------------------------------------------
(* The temporary directory is cleaned by the system.                       *)
TmpCleaned(a) ==
  /\ a \in archives /\ archives' = archives \ {a}
  /\ UNCHANGED <<approvals, offerAt, sendAt, using, asking, receiving,
                 crashes, fails>>

Running(s) == sendAt[s] \in {"choosing", "opening", "sending", "failing",
                             "delivered"}

(* The sender's program stops anywhere and is started again, with the      *)
(* approvals it saved (that every save succeeds is assumed here).          *)
SenderRestart ==
  /\ crashes + fails < MaxMishaps /\ crashes' = crashes + 1
  /\ offerAt' = [o \in Offers |-> IF offerAt[o] \in {"packed", "stored"}
                                  THEN "failed" ELSE offerAt[o]]
  /\ sendAt' = [s \in Sends |-> IF Running(s) THEN "failed" ELSE sendAt[s]]
  /\ rejects' = {}
  /\ UNCHANGED <<approvals, archives, using, queue, offerOf, target,
                 receiving, fails>>
-----------------------------------------------------------------------------
OfferNext(o) ==
  \/ Pack(o) \/ StoreOffer(o) \/ PackUnreadable(o) \/ Offer(o) \/ OfferFails(o)
  \/ Reject(o) \/ HearRejection(o) \/ LoseRejection(o)
  \/ \E s \in Sends : Approve(o, s)

SendNext(s) ==
  \/ HearRequest(s) \/ DropRequest(s) \/ UseArchive(s) \/ PackAgain(s)
  \/ PackAgainFails(s) \/ Dial(s) \/ NotDelivered(s) \/ Delivered(s)
  \/ RemoveArchive(s)

RecvNext(s) ==
  \/ Start(s) \/ MakeDir(s) \/ ReadFails(s) \/ UnpackOne(s) \/ UnpackEnds(s)
  \/ UnpackFails(s) \/ Report(s)

Next ==
  \/ \E o \in Offers : OfferNext(o)
  \/ \E s \in Sends : SendNext(s) \/ RecvNext(s)
  \/ \E a \in Offers \cup Sends : TmpCleaned(a)
  \/ SenderRestart

Spec == Init /\ [][Next]_vars
-----------------------------------------------------------------------------
(* Typing: the types of all variables.                                     *)
TypeOK ==
  /\ approvals \subseteq Offers /\ archives \subseteq Offers \cup Sends
  /\ offerAt \in [Offers -> {"new", "packed", "stored", "sent", "failed"}]
  /\ sendAt \in [Sends -> {"idle", "asked", "choosing", "opening", "sending",
                           "failing", "delivered", "ok", "failed"}]
  /\ using \in [Sends -> Offers \cup Sends \cup {None}]
  /\ queue \subseteq Offers /\ rejects \subseteq Offers
  /\ offerOf \in [Sends -> Offers \cup {None}]
  /\ target \in [Sends -> Paths \cup {None}]
  /\ recvAt \in [Sends -> {"idle", "starting", "reading", "unpacking",
                           "confirming", "refusing", "stored", "over"}]
  /\ raws \subseteq Sends /\ dest \in [Sends -> Paths \cup {None}]
  /\ unpacked \in [Sends -> Nat]
  /\ folders \in [Paths -> [Entries -> Sends \cup {None}] \cup {None}]
  /\ shared \in BOOLEAN /\ crashes \in 0..MaxMishaps /\ fails \in 0..MaxMishaps

(* The directory holds what s unpacked, and nothing else.                  *)
Whole(s) ==
  folders[dest[s]] =
    [e \in Entries |-> IF \E i \in DOMAIN Content(s) : Content(s)[i] = e
                       THEN s ELSE None]

(* Unless a receive chose the directory another one in progress had chosen,*)
(* a folder reported as received is there with every entry and no entry of *)
(* another, through later receives and failures of the same name, and a    *)
(* receive that failed left nothing behind (transfer.go:1131-1183).        *)
FoldersStay ==
  ~shared => \A s \in Sends :
    /\ Received(s) => Whole(s)
    /\ recvAt[s] = "over" =>
         \A p \in Paths : folders[p] # None =>
           \A e \in Entries : folders[p][e] # s

(* Unless the sender's program stopped, every archive in the temporary     *)
(* directory belongs to an offer that can still be approved or to somebody *)
(* at work on it who will remove it: no refused, failed, rejected, resent  *)
(* or delivered folder leaves a copy there (transfer.go:424-428, 694-699). *)
ArchivesOwned ==
  crashes = 0 => \A a \in archives :
    \/ a \in approvals
    \/ a \in Offers /\ offerAt[a] = "packed"
    \/ \E s \in Sends : using[s] = a /\ Running(s)
=============================================================================
