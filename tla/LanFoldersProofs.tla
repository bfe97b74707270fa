-------------------------- MODULE LanFoldersProofs --------------------------
(***************************************************************************)
(* Proofs about LanFolders, for any number of offers and requests, any     *)
(* names and contents: the typing, that received folders stay whole, and   *)
(* that every archive has an owner.                                        *)
(*                                                                         *)
(* FoldersStay rests on who writes where: a directory's entries are of     *)
(* receives that were given that directory (Written), and, unless two of   *)
(* them were given the same, each has its own, which holds what it has     *)
(* unpacked so far and nothing else (Apart).  ArchivesOwned rests on the   *)
(* archive that a send has chosen (Chosen): the offer's, or one of its own *)
(* made when the offer's was gone, and the offer's is never made again.    *)
(***************************************************************************)
EXTENDS LanFolders, FiniteSetTheorems, SequenceTheorems, NaturalsInduction,
        WellFoundedInduction, TLAPS

(* What an approval asks for: a name, with a number if that is taken.      *)
Targets ==
  {<<n>> : n \in Names} \cup {<<n, i>> : n \in Names, i \in Suffixes}

HasDir == {"unpacking", "confirming", "stored"}

(* How far a request is on both sides.                                     *)
Begun(s) ==
  /\ sendAt[s] # "idle" => /\ offerOf[s] \in Offers /\ target[s] \in Targets
                           /\ offerAt[offerOf[s]] = "sent"
  /\ sendAt[s] \in {"idle", "asked", "choosing", "opening"} =>
       recvAt[s] = "idle"
  /\ sendAt[s] \in {"idle", "asked", "choosing"} => using[s] = None
  /\ recvAt[s] \in {"idle", "starting"} => dest[s] = None
  /\ recvAt[s] \in HasDir \cup {"reading", "refusing"} => dest[s] \in Paths
  /\ recvAt[s] \in {"idle", "starting", "reading"} => unpacked[s] = 0

Progress ==
  /\ \A o \in queue : offerAt[o] = "sent"
  /\ \A s \in Sends : Begun(s)

(* A directory was given to a receive, and its entries are of such.        *)
Written ==
  \A p \in Paths : folders[p] # None =>
    /\ \E t \in Sends : dest[t] = p
    /\ \A e \in Entries, s \in Sends :
         folders[p][e] = s => dest[s] = p /\ recvAt[s] \in HasDir

(* The directory holds the first k entries of what s receives, no more.    *)
Holds(s, k) ==
  folders[dest[s]] =
    [e \in Entries |-> IF \E i \in 1..k : Content(s)[i] = e THEN s ELSE None]

Own(s) ==
  /\ recvAt[s] = "reading" => folders[dest[s]] = None
  /\ recvAt[s] = "unpacking" =>
       unpacked[s] <= Len(Content(s)) /\ Holds(s, unpacked[s])
  /\ Received(s) => Holds(s, Len(Content(s)))

AtDir == HasDir \cup {"reading"}

Apart ==
  ~shared =>
    /\ \A s, t \in Sends :
         s # t /\ recvAt[s] \in AtDir /\ recvAt[t] \in AtDir =>
           dest[s] # dest[t]
    /\ \A s \in Sends : Own(s)

(* The archive a send has in hand, once it has chosen.                     *)
Chosen ==
  \A s \in Sends :
    sendAt[s] \in {"opening", "sending", "failing", "delivered"} =>
      \/ using[s] = offerOf[s]
      \/ using[s] = s /\ offerOf[s] \notin archives

IInv == TypeOK /\ Progress /\ Written /\ Apart /\ Chosen /\ ArchivesOwned
-----------------------------------------------------------------------------
(* What a number makes of a path.                                          *)
LEMMA Appended ==
  ASSUME NEW n, NEW k, NEW i
  PROVE  Append(<<n>>, i) = <<n, i>> /\ Append(<<n, k>>, i) = <<n, k, i>>
<1> DEFINE S == {n, k, i}
           two == Append(<<n>>, i)
           three == Append(<<n, k>>, i)
<1>1. /\ <<n>> \in Seq(S) /\ <<n, i>> \in Seq(S)
      /\ <<n, k>> \in Seq(S) /\ <<n, k, i>> \in Seq(S)
  OBVIOUS
<1>2. two = <<n, i>>
  <2>1. two \in Seq(S) /\ Len(two) = 2 /\ two[1] = n /\ two[2] = i
    BY <1>1
  <2>2. \A j \in 1..Len(two) : two[j] = <<n, i>>[j]
    <3>1. \A j \in 1..2 : j = 1 \/ j = 2
      OBVIOUS
    <3> QED
      BY <2>1, <3>1
  <2> QED
    BY <1>1, <2>1, <2>2, SeqEqual
<1>3. three = <<n, k, i>>
  <2>1. /\ three \in Seq(S) /\ Len(three) = 3
        /\ three[1] = n /\ three[2] = k /\ three[3] = i
    BY <1>1
  <2>2. \A j \in 1..Len(three) : three[j] = <<n, k, i>>[j]
    <3>1. \A j \in 1..3 : j = 1 \/ j = 2 \/ j = 3
      OBVIOUS
    <3> QED
      BY <2>1, <3>1
  <2> QED
    BY <1>1, <2>1, <2>2, SeqEqual
<1> QED
  BY <1>2, <1>3

(* A number makes a path that is new, and differs from number to number.   *)
LEMMA Numbered ==
  ASSUME NEW p \in Targets
  PROVE  /\ p \in Paths
         /\ \A i \in Suffixes : Append(p, i) \in Paths /\ Append(p, i) # p
         /\ \A i, j \in Suffixes : Append(p, i) = Append(p, j) => i = j
<1>1. CASE \E n \in Names : p = <<n>>
  <2>1. PICK n \in Names : p = <<n>>
    BY <1>1
  <2>2. \A i \in Suffixes : Append(p, i) = <<n, i>>
    BY <2>1, Appended
  <2>3. \A i \in Suffixes : <<n, i>> # <<n>>
    OBVIOUS
  <2> QED
    BY <2>1, <2>2, <2>3 DEF Paths
<1>2. CASE \E n \in Names, k \in Suffixes : p = <<n, k>>
  <2>1. PICK n \in Names, k \in Suffixes : p = <<n, k>>
    BY <1>2
  <2>2. \A i \in Suffixes : Append(p, i) = <<n, k, i>>
    BY <2>1, Appended
  <2>3. \A i \in Suffixes : <<n, k, i>> # <<n, k>>
    OBVIOUS
  <2> QED
    BY <2>1, <2>2, <2>3 DEF Paths
<1> QED
  BY <1>1, <1>2 DEF Targets

(* Whoever looks for a directory has none yet, so there are not enough     *)
(* directories to use up the numbers.                                      *)
LEMMA NumberLeft ==
  ASSUME TypeOK, Written, NEW p \in Targets, folders[p] # None,
         NEW r \in Sends, dest[r] = None
  PROVE  \E i \in Suffixes : folders[Append(p, i)] = None
<1> SUFFICES ASSUME \A i \in Suffixes : folders[Append(p, i)] # None
             PROVE  FALSE
  OBVIOUS
<1>1. p \in Paths /\ \A i \in Suffixes : Append(p, i) \in Paths
  BY Numbered
<1>2. PICK t \in Sends : dest[t] = p
  BY <1>1 DEF Written
<1>3. \A q \in Paths : dest[r] # q
  BY NoneAssumption
<1> DEFINE others == (Sends \ {r}) \ {t}
           owner == [i \in Suffixes |->
                       CHOOSE s \in Sends : dest[s] = Append(p, i)]
<1>4. \A i \in Suffixes :
        owner[i] \in Sends /\ dest[owner[i]] = Append(p, i)
  <2> SUFFICES ASSUME NEW i \in Suffixes
               PROVE  owner[i] \in Sends /\ dest[owner[i]] = Append(p, i)
    OBVIOUS
  <2>1. \E s \in Sends : dest[s] = Append(p, i)
    BY <1>1 DEF Written
  <2> QED
    BY <2>1
<1>5. owner \in [Suffixes -> others]
  <2>1. \A i \in Suffixes : owner[i] # r
    BY <1>1, <1>3, <1>4
  <2>2. \A i \in Suffixes : owner[i] # t
    BY <1>2, <1>4, Numbered
  <2> QED
    BY <1>4, <2>1, <2>2
<1>6. /\ IsFiniteSet(others)
      /\ Cardinality(others) = Cardinality(Sends) - 2
  <2>1. /\ IsFiniteSet(Sends \ {r})
        /\ Cardinality(Sends \ {r}) = Cardinality(Sends) - 1
    BY FS_RemoveElement, SuffixesAssumption
  <2>2. t \in Sends \ {r}
    BY <1>1, <1>2, <1>3
  <2>3. IsFiniteSet(others) /\ Cardinality(others) = Cardinality(Sends) - 1 - 1
    BY <2>1, <2>2, FS_RemoveElement
  <2> QED
    BY <2>3, FS_CardinalityType, SuffixesAssumption
<1>7. Cardinality(others) < Cardinality(Suffixes)
  BY <1>6, FS_CardinalityType, SuffixesAssumption
<1> HIDE DEF owner, others
<1>8. \E i, j \in Suffixes : i # j /\ owner[i] = owner[j]
  BY <1>5, <1>6, <1>7, FS_PigeonHole, SuffixesAssumption
<1> QED
  BY <1>4, <1>8, Numbered

(* UniquePath finds a path at which there is no directory.                 *)
LEMMA FreePath ==
  ASSUME TypeOK, Written, NEW p \in Targets, NEW r \in Sends, dest[r] = None
  PROVE  /\ UniquePath(p) \in Paths /\ folders[UniquePath(p)] = None
         /\ \A n \in Names : p = <<n>> => UniquePath(p) \in Targets
<1>1. CASE folders[p] = None
  BY <1>1, Numbered DEF UniquePath
<1>2. CASE folders[p] # None
  <2> DEFINE free == {i \in Suffixes : folders[Append(p, i)] = None}
             First(i) == /\ folders[Append(p, i)] = None
                         /\ \A j \in Suffixes :
                              j < i => folders[Append(p, j)] # None
  <2>1. free # {} /\ free \subseteq Nat
    BY <1>2, NumberLeft, SuffixesAssumption
  <2>2. \E i \in free : \A j \in free : ~(<<j, i>> \in OpToRel(<, Nat))
    BY <2>1, NatLessThanWellFounded, WFMin
  <2>3. \E i \in Suffixes : First(i)
    BY <2>1, <2>2, SuffixesAssumption DEF OpToRel
  <2>4. PICK i \in Suffixes : First(i) /\ UniquePath(p) = Append(p, i)
    BY <1>2, <2>3 DEF UniquePath
  <2>5. \A n \in Names : p = <<n>> => Append(p, i) = <<n, i>>
    BY Appended
  <2> QED
    BY <2>4, <2>5, Numbered DEF Targets
<1> QED
  BY <1>1, <1>2
-----------------------------------------------------------------------------
(* What the three kinds of steps leave alone.                              *)
LEMMA OfferFrame ==
  ASSUME NEW o \in Offers, OfferNext(o)
  PROVE  /\ UNCHANGED <<using, receiving, crashes>>
         /\ \/ UNCHANGED <<sendAt, offerOf, target>>
            \/ \E s \in Sends : Approve(o, s)
<1> USE DEF sender, asking
<1>1. CASE Pack(o) \/ StoreOffer(o) \/ PackUnreadable(o)
  BY <1>1 DEF Pack, StoreOffer, PackUnreadable
<1>2. CASE Offer(o) \/ OfferFails(o)
  BY <1>2 DEF Offer, OfferFails
<1>3. CASE Reject(o) \/ HearRejection(o) \/ LoseRejection(o)
  BY <1>3 DEF Reject, HearRejection, LoseRejection
<1>4. CASE \E s \in Sends : Approve(o, s)
  BY <1>4 DEF Approve
<1> QED
  BY <1>1, <1>2, <1>3, <1>4 DEF OfferNext

LEMMA SendFrame ==
  ASSUME NEW s \in Sends, SendNext(s)
  PROVE  /\ UNCHANGED <<offerAt, asking, raws, dest, unpacked, folders,
                        shared, crashes, fails>>
         /\ Dial(s) \/ UNCHANGED recvAt
<1> USE DEF SendStep, receiving
<1>1. CASE HearRequest(s) \/ DropRequest(s) \/ UseArchive(s)
  BY <1>1 DEF HearRequest, DropRequest, UseArchive
<1>2. CASE PackAgain(s) \/ PackAgainFails(s) \/ Dial(s)
  BY <1>2 DEF PackAgain, PackAgainFails, Dial
<1>3. CASE NotDelivered(s) \/ Delivered(s) \/ RemoveArchive(s)
  BY <1>3 DEF NotDelivered, Delivered, RemoveArchive
<1> QED
  BY <1>1, <1>2, <1>3 DEF SendNext

LEMMA RecvFrame ==
  ASSUME NEW s \in Sends, RecvNext(s)
  PROVE  /\ UNCHANGED <<sender, asking, crashes, fails>>
         /\ Start(s) \/ UNCHANGED <<dest, shared>>
<1> USE DEF RecvStep
<1>1. CASE Start(s) \/ MakeDir(s) \/ ReadFails(s)
  BY <1>1 DEF Start, MakeDir, ReadFails
<1>2. CASE UnpackOne(s) \/ UnpackEnds(s)
  BY <1>2 DEF UnpackOne, UnpackEnds
<1>3. CASE UnpackFails(s) \/ Report(s)
  BY <1>3 DEF UnpackFails, Report
<1> QED
  BY <1>1, <1>2, <1>3 DEF RecvNext

(* What surrounds them touches archives and what is under way.             *)
LEMMA RestFrame ==
  ASSUME \/ \E a \in Offers \cup Sends : TmpCleaned(a)
         \/ SenderRestart \/ UNCHANGED vars
  PROVE  /\ UNCHANGED <<approvals, using, queue, offerOf, target, receiving,
                        fails>>
         /\ SenderRestart \/ UNCHANGED <<offerAt, sendAt, rejects, crashes>>
<1> USE DEF sender, asking
<1>1. CASE \E a \in Offers \cup Sends : TmpCleaned(a)
  BY <1>1 DEF TmpCleaned
<1>2. CASE SenderRestart
  BY <1>2 DEF SenderRestart
<1>3. CASE UNCHANGED vars
  BY <1>3 DEF vars
<1> QED
  BY <1>1, <1>2, <1>3
-----------------------------------------------------------------------------
(* The initial states satisfy the invariant.                               *)
LEMMA InitInv == Init => IInv
<1> SUFFICES ASSUME Init PROVE IInv
  OBVIOUS
<1> USE DEF Init
<1>1. TypeOK
  <2>1. folders \in [Paths -> [Entries -> Sends \cup {None}] \cup {None}]
    OBVIOUS
  <2>2. crashes \in 0..MaxMishaps /\ fails \in 0..MaxMishaps
    BY BoundsAssumption
  <2>3. shared \in BOOLEAN
    OBVIOUS
  <2> QED
    BY <2>1, <2>2, <2>3 DEF TypeOK
<1>2. Progress
  BY DEF Progress, Begun, HasDir
<1>3. Written /\ Apart
  BY DEF Written, Apart, Own, AtDir, Received, HasDir
<1>4. Chosen /\ ArchivesOwned
  BY DEF Chosen, ArchivesOwned
<1> QED
  BY <1>1, <1>2, <1>3, <1>4 DEF IInv
-----------------------------------------------------------------------------
(* Every step preserves the typing.                                        *)
LEMMA OfferTypes ==
  ASSUME IInv, NEW o \in Offers, OfferNext(o)
  PROVE  TypeOK'
<1> USE BoundsAssumption DEF sender, asking, receiving
<1>0. TypeOK /\ Written /\ Progress
  BY DEF IInv
<1>1. UNCHANGED <<using, receiving, crashes>>
  BY OfferFrame
<1>2. CASE Pack(o) \/ StoreOffer(o) \/ PackUnreadable(o)
  BY <1>0, <1>2 DEF Pack, StoreOffer, PackUnreadable, TypeOK
<1>3. CASE Offer(o) \/ OfferFails(o)
  BY <1>0, <1>3 DEF Offer, OfferFails, TypeOK
<1>4. CASE HearRejection(o) \/ LoseRejection(o)
  BY <1>0, <1>4 DEF HearRejection, LoseRejection, TypeOK
<1>5. ASSUME TakeOff(o)
      PROVE  queue' \subseteq Offers /\ fails' \in 0..MaxMishaps
  <2>1. /\ queue \subseteq Offers /\ fails \in 0..MaxMishaps
        /\ crashes \in 0..MaxMishaps
    BY <1>0 DEF TypeOK
  <2> QED
    BY <1>5, <2>1 DEF TakeOff
<1>6. CASE Reject(o)
  <2>1. queue' \subseteq Offers /\ fails' \in 0..MaxMishaps
    BY <1>5, <1>6 DEF Reject
  <2>2. rejects' \subseteq Offers
    BY <1>0, <1>6 DEF Reject, TypeOK
  <2>3. UNCHANGED <<sender, offerOf, target, receiving, crashes>>
    BY <1>6 DEF Reject
  <2> QED
    BY <1>0, <2>1, <2>2, <2>3 DEF TypeOK
<1>7. ASSUME NEW s \in Sends, Approve(o, s)
      PROVE  TypeOK'
  <2>1. queue' \subseteq Offers /\ fails' \in 0..MaxMishaps
    BY <1>5, <1>7 DEF Approve
  <2>2. target' \in [Sends -> Paths \cup {None}]
    <3>1. <<NameOf[o]>> \in Targets
      BY DEF Targets, Names
    <3>2. dest[s] = None
      BY <1>0, <1>7 DEF Progress, Begun, Approve
    <3>3. UniquePath(<<NameOf[o]>>) \in Paths
      BY <1>0, <3>1, <3>2, FreePath
    <3>4. target \in [Sends -> Paths \cup {None}]
      BY <1>0 DEF TypeOK
    <3>5. target' = [target EXCEPT ![s] = UniquePath(<<NameOf[o]>>)]
      BY <1>7 DEF Approve
    <3> QED
      BY <3>3, <3>4, <3>5
  <2>3. /\ offerOf' \in [Sends -> Offers \cup {None}]
        /\ sendAt' \in [Sends -> {"idle", "asked", "choosing", "opening",
                                  "sending", "failing", "delivered", "ok",
                                  "failed"}]
    BY <1>0, <1>7 DEF Approve, TypeOK
  <2>4. UNCHANGED <<approvals, offerAt, archives, using, rejects, receiving,
                    crashes>>
    BY <1>7 DEF Approve
  <2> QED
    BY <1>0, <2>1, <2>2, <2>3, <2>4 DEF TypeOK
<1> QED
  BY <1>2, <1>3, <1>4, <1>6, <1>7 DEF OfferNext

LEMMA SendTypes ==
  ASSUME IInv, NEW s \in Sends, SendNext(s)
  PROVE  TypeOK'
<1> USE DEF sender, asking, receiving, SendStep
<1>0. TypeOK /\ Progress
  BY DEF IInv
<1>1. CASE HearRequest(s) \/ DropRequest(s) \/ UseArchive(s)
  BY <1>0, <1>1 DEF HearRequest, DropRequest, UseArchive, Progress, Begun,
                    TypeOK
<1>2. CASE PackAgain(s) \/ PackAgainFails(s)
  BY <1>0, <1>2 DEF PackAgain, PackAgainFails, TypeOK
<1>3. CASE Dial(s)
  BY <1>0, <1>3 DEF Dial, TypeOK
<1>4. CASE NotDelivered(s) \/ Delivered(s) \/ RemoveArchive(s)
  BY <1>0, <1>4 DEF NotDelivered, Delivered, RemoveArchive, TypeOK
<1> QED
  BY <1>1, <1>2, <1>3, <1>4 DEF SendNext

LEMMA RecvTypes ==
  ASSUME IInv, NEW s \in Sends, RecvNext(s)
  PROVE  TypeOK'
<1> USE DEF sender, asking, RecvStep
<1>0. TypeOK /\ Written /\ Progress
  BY DEF IInv
<1>1. UNCHANGED <<sender, asking, crashes, fails>>
  BY RecvFrame
<1>2. CASE Start(s)
  <2>1. /\ sendAt[s] # "idle" /\ target[s] \in Targets /\ dest[s] = None
    BY <1>0, <1>2 DEF Start, Progress, Begun
  <2>2. UniquePath(target[s]) \in Paths
    BY <1>0, <2>1, FreePath
  <2>3. /\ dest' = [dest EXCEPT ![s] = UniquePath(target[s])]
        /\ recvAt' = [recvAt EXCEPT ![s] = "reading"]
        /\ raws' = raws \cup {s} /\ shared' \in BOOLEAN
        /\ UNCHANGED <<unpacked, folders>>
    BY <1>0, <1>2 DEF Start, TypeOK
  <2> QED
    BY <1>0, <1>1, <2>2, <2>3 DEF TypeOK
<1>3. CASE MakeDir(s)
  <2>1. Empty \in [Entries -> Sends \cup {None}]
    BY DEF Empty
  <2>2. folders' \in [Paths -> [Entries -> Sends \cup {None}] \cup {None}]
    BY <1>0, <1>3, <2>1 DEF MakeDir, TypeOK
  <2>3. recvAt' = [recvAt EXCEPT ![s] = "unpacking"]
    BY <1>3 DEF MakeDir
  <2>4. UNCHANGED <<raws, dest, unpacked, shared>>
    BY <1>3 DEF MakeDir
  <2> QED
    BY <1>0, <1>1, <2>2, <2>3, <2>4 DEF TypeOK
<1>4. CASE UnpackOne(s)
  <2>1. folders' \in [Paths -> [Entries -> Sends \cup {None}] \cup {None}]
    <3> DEFINE there == IF folders[dest[s]] = None THEN Empty
                        ELSE folders[dest[s]]
               new == [there EXCEPT ![Content(s)[unpacked[s] + 1]] = s]
    <3>1. dest[s] \in Paths
      BY <1>0, <1>4 DEF UnpackOne, Progress, Begun, HasDir
    <3>2. folders \in [Paths -> [Entries -> Sends \cup {None}] \cup {None}]
      BY <1>0 DEF TypeOK
    <3>3. there \in [Entries -> Sends \cup {None}]
      BY <3>1, <3>2 DEF Empty
    <3>4. folders' = [folders EXCEPT ![dest[s]] = new]
      BY <1>4 DEF UnpackOne
    <3> HIDE DEF there
    <3>5. new \in [Entries -> Sends \cup {None}]
      BY <3>3
    <3> HIDE DEF new
    <3> QED
      BY <3>2, <3>4, <3>5
  <2>2. /\ recvAt' = [recvAt EXCEPT ![s] = "unpacking"]
        /\ unpacked' = [unpacked EXCEPT ![s] = @ + 1]
        /\ UNCHANGED <<raws, dest, shared>>
    BY <1>4 DEF UnpackOne
  <2>3. unpacked' \in [Sends -> Nat]
    BY <1>0, <2>2 DEF TypeOK
  <2> QED
    BY <1>0, <1>1, <2>1, <2>2, <2>3 DEF TypeOK
<1>5. CASE ReadFails(s) \/ UnpackEnds(s) \/ Report(s)
  BY <1>0, <1>5 DEF ReadFails, UnpackEnds, Report, TypeOK
<1>6. CASE UnpackFails(s)
  BY <1>0, <1>6 DEF UnpackFails, TypeOK
<1> QED
  BY <1>2, <1>3, <1>4, <1>5, <1>6 DEF RecvNext

LEMMA RestTypes ==
  ASSUME IInv,
         \/ \E a \in Offers \cup Sends : TmpCleaned(a)
         \/ SenderRestart \/ UNCHANGED vars
  PROVE  TypeOK'
<1> USE DEF sender, asking, receiving
<1>0. TypeOK
  BY DEF IInv
<1>1. CASE \E a \in Offers \cup Sends : TmpCleaned(a)
  BY <1>0, <1>1 DEF TmpCleaned, TypeOK
<1>2. CASE SenderRestart
  <2>1. crashes' \in 0..MaxMishaps
    BY <1>0, <1>2, BoundsAssumption DEF SenderRestart, TypeOK
  <2>2. /\ offerAt' \in [Offers -> {"new", "packed", "stored", "sent",
                                    "failed"}]
        /\ sendAt' \in [Sends -> {"idle", "asked", "choosing", "opening",
                                  "sending", "failing", "delivered", "ok",
                                  "failed"}]
        /\ rejects' \subseteq Offers
    BY <1>0, <1>2 DEF SenderRestart, TypeOK
  <2>3. UNCHANGED <<approvals, archives, using, queue, offerOf, target,
                    receiving, fails>>
    BY <1>2 DEF SenderRestart
  <2> QED
    BY <1>0, <2>1, <2>2, <2>3 DEF TypeOK
<1>3. CASE UNCHANGED vars
  BY <1>0, <1>3 DEF vars, TypeOK
<1> QED
  BY <1>1, <1>2, <1>3

LEMMA Typed == IInv /\ [Next]_vars => TypeOK'
<1> SUFFICES ASSUME IInv, [Next]_vars PROVE TypeOK'
  OBVIOUS
<1> QED
  BY OfferTypes, SendTypes, RecvTypes, RestTypes DEF Next
-----------------------------------------------------------------------------
(* An offer that got away stays so.                                        *)
LEMMA SentStays ==
  ASSUME TypeOK, [Next]_vars, NEW o \in Offers, offerAt[o] = "sent"
  PROVE  offerAt'[o] = "sent"
<1>1. ASSUME NEW d \in Offers, OfferNext(d) PROVE offerAt'[o] = "sent"
  <2>1. CASE Pack(d) \/ StoreOffer(d) \/ PackUnreadable(d)
    BY <2>1 DEF Pack, StoreOffer, PackUnreadable, TypeOK
  <2>2. CASE Offer(d) \/ OfferFails(d)
    BY <2>2 DEF Offer, OfferFails, TypeOK
  <2>3. CASE Reject(d) \/ HearRejection(d) \/ LoseRejection(d)
    BY <2>3 DEF Reject, HearRejection, LoseRejection, sender
  <2>4. CASE \E s \in Sends : Approve(d, s)
    BY <2>4 DEF Approve
  <2> QED
    BY <1>1, <2>1, <2>2, <2>3, <2>4 DEF OfferNext
<1>2. ASSUME NEW s \in Sends, SendNext(s) PROVE offerAt'[o] = "sent"
  BY <1>2, SendFrame
<1>3. ASSUME NEW s \in Sends, RecvNext(s) PROVE offerAt'[o] = "sent"
  BY <1>3, RecvFrame DEF sender
<1>4. CASE SenderRestart
  BY <1>4 DEF SenderRestart
<1>5. CASE (\E a \in Offers \cup Sends : TmpCleaned(a)) \/ UNCHANGED vars
  BY <1>5 DEF TmpCleaned, vars, sender
<1> QED
  BY <1>1, <1>2, <1>3, <1>4, <1>5 DEF Next

(* A request is where it was when nothing of its own changes.              *)
LEMMA BegunStays ==
  ASSUME TypeOK, [Next]_vars, NEW s \in Sends, Begun(s),
         /\ sendAt'[s] = sendAt[s] /\ offerOf'[s] = offerOf[s]
         /\ target'[s] = target[s] /\ using'[s] = using[s]
         /\ recvAt'[s] = recvAt[s] /\ dest'[s] = dest[s]
         /\ unpacked'[s] = unpacked[s]
  PROVE  Begun(s)'
<1>1. sendAt[s] # "idle" => offerAt'[offerOf[s]] = "sent"
  BY SentStays DEF Begun
<1> QED
  BY <1>1 DEF Begun

(* Every step of a send but its first leaves what it is for alone.         *)
LEMMA SendBegun ==
  ASSUME IInv, NEW s \in Sends, SendNext(s)
  PROVE  Begun(s)'
<1> USE DEF SendStep, asking, receiving
<1>0. TypeOK /\ Begun(s)
  BY DEF IInv, Progress
<1>1. /\ offerAt[offerOf[s]] = "sent" /\ offerOf[s] \in Offers
      /\ target[s] \in Targets
      /\ UNCHANGED <<offerAt, offerOf, target, dest, unpacked>>
  <2>1. sendAt[s] # "idle"
    BY DEF SendNext, HearRequest, DropRequest, UseArchive, PackAgain,
           PackAgainFails, Dial, NotDelivered, Delivered, RemoveArchive
  <2> QED
    BY <1>0, <2>1, SendFrame DEF Begun
<1>2. CASE \/ HearRequest(s) \/ DropRequest(s) \/ UseArchive(s)
           \/ PackAgain(s) \/ PackAgainFails(s)
  <2>1. recvAt[s] = "idle" /\ UNCHANGED recvAt
    BY <1>0, <1>2 DEF HearRequest, DropRequest, UseArchive, PackAgain,
                      PackAgainFails, Begun
  <2>2. sendAt'[s] \in {"idle", "asked", "choosing"} => using'[s] = None
    BY <1>0, <1>2 DEF HearRequest, DropRequest, UseArchive, PackAgain,
                      PackAgainFails, Begun, TypeOK
  <2> QED
    BY <1>0, <1>1, <2>1, <2>2 DEF Begun, HasDir
<1>3. CASE Dial(s)
  <2>1. /\ recvAt[s] = "idle" /\ sendAt'[s] = "sending"
        /\ recvAt'[s] \in {"starting", "over"}
    BY <1>0, <1>3 DEF Dial, TypeOK, Begun
  <2> QED
    BY <1>0, <1>1, <2>1 DEF Begun, HasDir
<1>4. CASE NotDelivered(s) \/ Delivered(s) \/ RemoveArchive(s)
  <2>1. UNCHANGED recvAt
    BY <1>4 DEF NotDelivered, Delivered, RemoveArchive
  <2>2. sendAt'[s] \in {"failing", "delivered", "failed", "ok"}
    BY <1>0, <1>4 DEF NotDelivered, Delivered, RemoveArchive, TypeOK
  <2> QED
    BY <1>0, <1>1, <2>1, <2>2 DEF Begun, HasDir
<1> QED
  BY <1>2, <1>3, <1>4 DEF SendNext

LEMMA RecvBegun ==
  ASSUME IInv, NEW s \in Sends, RecvNext(s)
  PROVE  Begun(s)'
<1> USE DEF RecvStep, HasDir
<1>0. TypeOK /\ Written /\ Begun(s)
  BY DEF IInv, Progress
<1>1. /\ recvAt[s] # "idle" /\ sendAt[s] # "idle"
      /\ sendAt[s] \notin {"idle", "asked", "choosing", "opening"}
  <2>1. recvAt[s] # "idle"
    BY DEF RecvNext, Start, MakeDir, ReadFails, UnpackOne, UnpackEnds,
           UnpackFails, Report
  <2> QED
    BY <1>0, <2>1 DEF Begun
<1>2. UNCHANGED <<sendAt, using, offerAt, offerOf, target>>
  BY RecvFrame DEF sender, asking
<1>3. CASE Start(s)
  <2>1. UniquePath(target[s]) \in Paths
    BY <1>0, <1>1, <1>3, FreePath DEF Start, Begun
  <2>2. dest'[s] = UniquePath(target[s])
    BY <1>0, <1>3 DEF Start, TypeOK
  <2>3. recvAt'[s] = "reading" /\ unpacked'[s] = 0
    BY <1>0, <1>3 DEF Start, TypeOK, Begun
  <2> QED
    BY <1>0, <1>1, <1>2, <2>1, <2>2, <2>3 DEF Begun
<1>4. CASE MakeDir(s) \/ ReadFails(s) \/ UnpackEnds(s)
  BY <1>0, <1>1, <1>2, <1>4 DEF MakeDir, ReadFails, UnpackEnds, Begun, TypeOK
<1>5. CASE UnpackOne(s)
  BY <1>0, <1>1, <1>2, <1>5 DEF UnpackOne, Begun, TypeOK
<1>6. CASE UnpackFails(s) \/ Report(s)
  BY <1>0, <1>1, <1>2, <1>6 DEF UnpackFails, Report, Begun, TypeOK
<1> QED
  BY <1>3, <1>4, <1>5, <1>6 DEF RecvNext

(* Another's step changes nothing of a request.                            *)
LEMMA OthersStep ==
  ASSUME TypeOK, NEW s \in Sends, NEW t \in Sends \ {s},
         SendNext(t) \/ RecvNext(t)
  PROVE  /\ sendAt'[s] = sendAt[s] /\ offerOf'[s] = offerOf[s]
         /\ target'[s] = target[s] /\ using'[s] = using[s]
         /\ recvAt'[s] = recvAt[s] /\ dest'[s] = dest[s]
         /\ unpacked'[s] = unpacked[s]
<1> USE DEF asking, sender, receiving
<1>1. CASE SendNext(t)
  <2>1. sendAt'[s] = sendAt[s]
    BY <1>1 DEF SendNext, HearRequest, DropRequest, UseArchive, PackAgain,
                PackAgainFails, Dial, NotDelivered, Delivered, RemoveArchive,
                SendStep, TypeOK
  <2>2. recvAt'[s] = recvAt[s]
    BY <1>1, SendFrame DEF Dial, TypeOK
  <2>3. using'[s] = using[s]
    BY <1>1 DEF SendNext, HearRequest, DropRequest, UseArchive, PackAgain,
                PackAgainFails, Dial, NotDelivered, Delivered, RemoveArchive,
                TypeOK
  <2> QED
    BY <1>1, <2>1, <2>2, <2>3, SendFrame
<1>2. CASE RecvNext(t)
  <2>1. recvAt'[s] = recvAt[s]
    BY <1>2 DEF RecvNext, Start, MakeDir, ReadFails, UnpackOne, UnpackEnds,
                UnpackFails, Report, RecvStep, TypeOK
  <2>2. dest'[s] = dest[s]
    BY <1>2, RecvFrame DEF Start, TypeOK
  <2>3. unpacked'[s] = unpacked[s]
    BY <1>2 DEF RecvNext, Start, MakeDir, ReadFails, UnpackOne, UnpackEnds,
                UnpackFails, Report, TypeOK
  <2> QED
    BY <1>2, <2>1, <2>2, <2>3, RecvFrame
<1> QED
  BY <1>1, <1>2

LEMMA Progressing == IInv /\ [Next]_vars => Progress'
<1> SUFFICES ASSUME IInv, [Next]_vars PROVE Progress'
  OBVIOUS
<1> USE DEF sender, asking, receiving
<1>0. TypeOK /\ Progress /\ Written
  BY DEF IInv
<1>1. ASSUME NEW o \in queue' PROVE offerAt'[o] = "sent"
  <2>1. o \in Offers
    BY <1>1, Typed DEF TypeOK
  <2>2. CASE o \in queue
    BY <1>0, <2>1, <2>2, SentStays DEF Progress
  <2>3. CASE o \notin queue
    <3>1. PICK d \in Offers : OfferNext(d)
      BY <1>1, <2>3, SendFrame, RecvFrame, RestFrame DEF Next
    <3>2. Offer(o)
      BY <1>1, <2>3, <3>1 DEF OfferNext, Pack, StoreOffer, PackUnreadable,
           Offer, OfferFails, Reject, HearRejection, LoseRejection, Approve,
           TakeOff
    <3>3. o \in DOMAIN offerAt /\ offerAt' = [offerAt EXCEPT ![o] = "sent"]
      BY <1>0, <2>1, <3>2 DEF Offer, TypeOK
    <3> QED
      BY <3>3
  <2> QED
    BY <2>2, <2>3
<1>2. ASSUME NEW s \in Sends PROVE Begun(s)'
  <2>0. Begun(s)
    BY <1>0 DEF Progress
  <2>1. ASSUME NEW o \in Offers, OfferNext(o) PROVE Begun(s)'
    <3>1. UNCHANGED <<using, recvAt, dest, unpacked>>
      BY <2>1, OfferFrame
    <3>2. CASE Approve(o, s)
      <4>1. <<NameOf[o]>> \in Targets /\ NameOf[o] \in Names
        BY DEF Targets, Names
      <4>2. dest[s] = None /\ recvAt[s] = "idle" /\ using[s] = None
        BY <2>0, <3>2 DEF Begun, Approve
      <4>3. UniquePath(<<NameOf[o]>>) \in Targets
        BY <1>0, <4>1, <4>2, FreePath
      <4>4. offerAt[o] = "sent"
        BY <1>0, <3>2 DEF Progress, Approve
      <4>5. /\ sendAt'[s] = "asked" /\ offerOf'[s] = o
            /\ target'[s] = UniquePath(<<NameOf[o]>>) /\ UNCHANGED offerAt
        BY <1>0, <3>2 DEF Approve, TypeOK
      <4> QED
        BY <2>0, <3>1, <4>2, <4>3, <4>4, <4>5 DEF Begun, HasDir
    <3>3. CASE ~Approve(o, s)
      <4>1. /\ sendAt'[s] = sendAt[s] /\ offerOf'[s] = offerOf[s]
            /\ target'[s] = target[s]
        BY <1>0, <2>1, <3>3, OfferFrame DEF Approve, TypeOK
      <4> QED
        BY <1>0, <2>0, <3>1, <4>1, BegunStays
    <3> QED
      BY <3>2, <3>3
  <2>2. ASSUME NEW t \in Sends, SendNext(t) \/ RecvNext(t) PROVE Begun(s)'
    <3>1. CASE t = s
      BY <2>2, <3>1, SendBegun, RecvBegun
    <3>2. CASE t # s
      BY <1>0, <2>0, <2>2, <3>2, OthersStep, BegunStays
    <3> QED
      BY <3>1, <3>2
  <2>3. CASE \/ \E a \in Offers \cup Sends : TmpCleaned(a)
             \/ UNCHANGED vars
    <3>1. UNCHANGED <<sendAt, using, offerOf, target, receiving>>
      BY <2>3 DEF TmpCleaned, vars
    <3> QED
      BY <1>0, <2>0, <3>1, BegunStays
  <2>4. CASE SenderRestart
    <3>1. /\ sendAt'[s] \in {sendAt[s], "failed"}
          /\ sendAt[s] = "idle" <=> sendAt'[s] = "idle"
      BY <1>0, <2>4 DEF SenderRestart, Running
    <3>2. sendAt[s] # "idle" => offerAt'[offerOf[s]] = "sent"
      BY <1>0, <2>0, SentStays DEF Begun
    <3>3. UNCHANGED <<using, offerOf, target, receiving>>
      BY <2>4 DEF SenderRestart
    <3> QED
      BY <2>0, <3>1, <3>2, <3>3 DEF Begun
  <2> QED
    BY <2>1, <2>2, <2>3, <2>4 DEF Next
<1> QED
  BY <1>1, <1>2 DEF Progress
-----------------------------------------------------------------------------
(* Whoever does not receive leaves the directories alone, and the receives *)
(* that have one or are about to.                                          *)
LEMMA DirsStay ==
  ASSUME IInv, [Next]_vars, \A s \in Sends : ~RecvNext(s)
  PROVE  /\ UNCHANGED <<dest, unpacked, folders, shared>>
         /\ \A s \in Sends :
              /\ \/ recvAt'[s] = recvAt[s]
                 \/ /\ recvAt[s] = "idle"
                    /\ recvAt'[s] \in {"starting", "over"}
              /\ recvAt[s] # "idle" => offerOf'[s] = offerOf[s]
<1> USE DEF asking, receiving
<1>0. TypeOK /\ Progress
  BY DEF IInv
<1>1. ASSUME NEW o \in Offers, OfferNext(o)
      PROVE  /\ UNCHANGED receiving
             /\ \A s \in Sends : recvAt[s] # "idle" => offerOf'[s] = offerOf[s]
  <2>1. UNCHANGED receiving
    BY <1>1, OfferFrame
  <2>2. \A s \in Sends : recvAt[s] # "idle" => ~Approve(o, s)
    BY <1>0 DEF Progress, Begun, Approve
  <2>3. UNCHANGED offerOf \/ \E t \in Sends : Approve(o, t)
    BY <1>1, OfferFrame
  <2> QED
    BY <1>0, <2>1, <2>2, <2>3 DEF Approve, TypeOK
<1>2. ASSUME NEW t \in Sends, SendNext(t)
      PROVE  /\ UNCHANGED <<dest, unpacked, folders, shared, offerOf>>
             /\ \A s \in Sends :
                  \/ recvAt'[s] = recvAt[s]
                  \/ recvAt[s] = "idle" /\ recvAt'[s] \in {"starting", "over"}
  <2>1. UNCHANGED <<dest, unpacked, folders, shared, offerOf>>
    BY <1>2, SendFrame
  <2>2. CASE Dial(t)
    <3>1. recvAt[t] = "idle"
      BY <1>0, <2>2 DEF Progress, Begun, Dial, SendStep
    <3>2. PICK at \in {"starting", "over"} :
            recvAt' = [recvAt EXCEPT ![t] = at]
      BY <2>2 DEF Dial
    <3> QED
      BY <1>0, <2>1, <3>1, <3>2 DEF TypeOK
  <2>3. CASE UNCHANGED recvAt
    BY <2>1, <2>3
  <2> QED
    BY <1>2, <2>2, <2>3, SendFrame
<1>3. CASE \/ \E a \in Offers \cup Sends : TmpCleaned(a)
           \/ SenderRestart \/ UNCHANGED vars
  BY <1>3, RestFrame
<1> QED
  BY <1>1, <1>2, <1>3 DEF Next

LEMMA Writing == IInv /\ [Next]_vars => Written'
<1> SUFFICES ASSUME IInv, [Next]_vars PROVE Written'
  OBVIOUS
<1> USE DEF HasDir
<1>0. TypeOK /\ Progress /\ Written
  BY DEF IInv
<1>1. CASE \A s \in Sends : ~RecvNext(s)
  BY <1>0, <1>1, DirsStay DEF Written
<1>2. ASSUME NEW r \in Sends, RecvNext(r) PROVE Written'
  <2> SUFFICES ASSUME NEW p \in Paths, folders'[p] # None
               PROVE  /\ \E t \in Sends : dest'[t] = p
                      /\ \A e \in Entries, s \in Sends :
                           folders'[p][e] = s =>
                             dest'[s] = p /\ recvAt'[s] \in HasDir
    BY DEF Written
  <2> USE DEF RecvStep
  <2>1. p # None
    BY NoneAssumption
  <2>2. folders \in [Paths -> [Entries -> Sends \cup {None}] \cup {None}]
    BY <1>0 DEF TypeOK
  <2>3. CASE Start(r)
    <3>1. /\ recvAt[r] = "starting" /\ dest[r] = None /\ UNCHANGED folders
          /\ \A s \in Sends \ {r} : dest'[s] = dest[s] /\ recvAt'[s] = recvAt[s]
      BY <1>0, <2>3 DEF Start, TypeOK, Progress, Begun
    <3> QED
      BY <1>0, <2>1, <3>1 DEF Written
  <2>4. CASE MakeDir(r)
    <3>1. /\ recvAt[r] = "reading" /\ recvAt'[r] = "unpacking"
          /\ \A s \in Sends \ {r} : recvAt'[s] = recvAt[s]
          /\ UNCHANGED dest
      BY <1>0, <2>4 DEF MakeDir, TypeOK
    <3>2. \/ p = dest[r] /\ folders'[p] = Empty
          \/ folders'[p] = folders[p]
      BY <2>2, <2>4, <3>1 DEF MakeDir
    <3>3. CASE p = dest[r] /\ folders'[p] = Empty
      BY <3>1, <3>3, NoneAssumption DEF Empty
    <3>4. CASE folders'[p] = folders[p]
      BY <1>0, <3>1, <3>4 DEF Written
    <3> QED
      BY <3>2, <3>3, <3>4
  <2>5. CASE UnpackOne(r)
    <3> DEFINE there == IF folders[dest[r]] = None THEN Empty
                        ELSE folders[dest[r]]
               entry == Content(r)[unpacked[r] + 1]
    <3>1. /\ recvAt'[r] = "unpacking" /\ UNCHANGED <<recvAt, dest>>
          /\ dest[r] \in Paths
          /\ folders' = [folders EXCEPT ![dest[r]] =
                           [there EXCEPT ![entry] = r]]
      BY <1>0, <2>5 DEF UnpackOne, TypeOK, Progress, Begun
    <3>2. CASE p # dest[r]
      <4>1. folders'[p] = folders[p]
        BY <2>2, <3>1, <3>2
      <4> QED
        BY <1>0, <3>1, <4>1 DEF Written
    <3>3. CASE p = dest[r]
      <4>1. there \in [Entries -> Sends \cup {None}]
        BY <2>2, <3>1 DEF Empty
      <4>2. folders'[p] = [there EXCEPT ![entry] = r]
        BY <2>2, <3>1, <3>3
      <4>3. \A e \in Entries : folders'[p][e] \in {there[e], r}
        BY <4>1, <4>2
      <4>4. ASSUME NEW e \in Entries, NEW s \in Sends, there[e] = s
            PROVE  dest[s] = p /\ recvAt[s] \in HasDir
        <5>1. folders[p] # None /\ folders[p][e] = s
          BY <3>3, <4>4, NoneAssumption DEF Empty
        <5> QED
          BY <1>0, <5>1 DEF Written
      <4> HIDE DEF there
      <4> QED
        BY <3>1, <3>3, <4>3, <4>4
    <3> QED
      BY <3>2, <3>3
  <2>6. CASE ReadFails(r) \/ UnpackEnds(r) \/ Report(r)
    <3>1. /\ UNCHANGED <<dest, folders>>
          /\ \A s \in Sends : recvAt[s] \in HasDir => recvAt'[s] \in HasDir
      BY <1>0, <2>6 DEF ReadFails, UnpackEnds, Report, TypeOK
    <3> QED
      BY <1>0, <3>1 DEF Written
  <2>7. CASE UnpackFails(r)
    <3>1. /\ UNCHANGED dest
          /\ \A s \in Sends \ {r} : recvAt'[s] = recvAt[s]
      BY <1>0, <2>7 DEF UnpackFails, TypeOK
    <3>2. p # dest[r] /\ folders'[p] = folders[p]
      BY <2>2, <2>7 DEF UnpackFails
    <3> QED
      BY <1>0, <3>1, <3>2 DEF Written
  <2> QED
    BY <1>2, <2>3, <2>4, <2>5, <2>6, <2>7 DEF RecvNext
<1> QED
  BY <1>1, <1>2
-----------------------------------------------------------------------------
(* A step of r's receive leaves the directories of others alone, while no  *)
(* two have the same.                                                      *)
LEMMA OthersDir ==
  ASSUME IInv, ~shared, NEW r \in Sends, RecvNext(r),
         NEW s \in Sends \ {r}, recvAt[s] \in AtDir
  PROVE  folders'[dest[s]] = folders[dest[s]]
<1> USE DEF RecvStep, AtDir, HasDir
<1>0. TypeOK /\ Apart /\ Begun(s)
  BY DEF IInv, Progress
<1>1. /\ folders \in [Paths -> [Entries -> Sends \cup {None}] \cup {None}]
      /\ dest[s] \in Paths
  BY <1>0 DEF TypeOK, Begun
<1>2. CASE Start(r) \/ ReadFails(r) \/ UnpackEnds(r) \/ Report(r)
  BY <1>2 DEF Start, ReadFails, UnpackEnds, Report
<1>3. CASE MakeDir(r) \/ UnpackOne(r) \/ UnpackFails(r)
  <2>1. recvAt[r] \in {"reading", "unpacking"}
    BY <1>3 DEF MakeDir, UnpackOne, UnpackFails
  <2>2. dest[r] # dest[s]
    BY <1>0, <2>1 DEF Apart
  <2> QED
    BY <1>1, <1>3, <2>2 DEF MakeDir, UnpackOne, UnpackFails
<1> QED
  BY <1>2, <1>3 DEF RecvNext

(* What a receive has in its directory is what it has unpacked.            *)
LEMMA OwnKept ==
  ASSUME IInv, ~shared, NEW r \in Sends, RecvNext(r)
  PROVE  Own(r)'
<1> USE DEF RecvStep
<1>0. /\ TypeOK /\ Written /\ Begun(r) /\ Own(r)
      /\ UNCHANGED offerOf
  BY RecvFrame DEF IInv, Progress, Apart, asking
<1>1. /\ folders \in [Paths -> [Entries -> Sends \cup {None}] \cup {None}]
      /\ recvAt[r] \in AtDir => dest[r] \in Paths
      /\ unpacked[r] \in Nat /\ Content(r) \in Seq(Entries)
  <2>1. recvAt[r] # "idle"
    BY DEF RecvNext, Start, MakeDir, ReadFails, UnpackOne, UnpackEnds,
           UnpackFails, Report
  <2>2. offerOf[r] \in Offers
    BY <1>0, <2>1 DEF Begun
  <2> QED
    BY <1>0, <2>2, OffersAssumption DEF TypeOK, Begun, AtDir, Content
<1>2. Content(r)' = Content(r)
  BY <1>0 DEF Content
<1>3. CASE Start(r)
  <2>1. sendAt[r] # "idle" /\ target[r] \in Targets /\ dest[r] = None
    BY <1>0, <1>3 DEF Start, Begun
  <2>2. folders[UniquePath(target[r])] = None
    BY <1>0, <2>1, FreePath
  <2>3. /\ dest'[r] = UniquePath(target[r]) /\ recvAt'[r] = "reading"
        /\ UNCHANGED folders
    BY <1>0, <1>3 DEF Start, TypeOK
  <2> QED
    BY <2>2, <2>3 DEF Own, Received
<1>4. CASE MakeDir(r)
  <2>1. /\ folders[dest[r]] = None /\ dest[r] \in Paths /\ unpacked[r] = 0
        /\ recvAt'[r] = "unpacking" /\ UNCHANGED <<dest, unpacked>>
    BY <1>0, <1>1, <1>4 DEF MakeDir, Own, Begun, TypeOK, AtDir
  <2>2. folders'[dest[r]] = Empty
    BY <1>1, <1>4, <2>1 DEF MakeDir
  <2>3. Empty = [e \in Entries |->
                   IF \E i \in 1..0 : Content(r)[i] = e THEN r ELSE None]
    BY DEF Empty
  <2>4. Holds(r, 0)'
    BY <1>2, <2>1, <2>2, <2>3 DEF Holds
  <2>5. 0 <= Len(Content(r))
    BY <1>1
  <2> QED
    BY <1>2, <2>1, <2>4, <2>5 DEF Own, Received
<1>5. CASE UnpackOne(r)
  <2>0. PICK k \in Nat : k = unpacked[r]
    BY <1>1
  <2> DEFINE entry == Content(r)[k + 1]
  <2>1. /\ recvAt[r] = "unpacking" /\ recvAt'[r] = "unpacking"
        /\ UNCHANGED dest /\ dest[r] \in Paths
        /\ k < Len(Content(r)) /\ unpacked'[r] = k + 1
    BY <1>0, <1>1, <1>5, <2>0 DEF UnpackOne, TypeOK, AtDir, HasDir
  <2>2. folders[dest[r]] =
          [e \in Entries |-> IF \E i \in 1..k : Content(r)[i] = e
                             THEN r ELSE None]
    BY <1>0, <2>0, <2>1 DEF Own, Holds
  <2>3. folders[dest[r]] # None
    BY <2>2, NoneAssumption
  <2>4. folders'[dest[r]] = [folders[dest[r]] EXCEPT ![entry] = r]
    BY <1>1, <1>5, <2>0, <2>1, <2>3 DEF UnpackOne
  <2>5. ASSUME NEW e
        PROVE  (\E i \in 1..(k + 1) : Content(r)[i] = e) <=>
                 e = entry \/ \E i \in 1..k : Content(r)[i] = e
    <3>1. \A i : i \in 1..(k + 1) <=> i \in 1..k \/ i = k + 1
      BY <1>1
    <3> QED
      BY <3>1
  <2> HIDE DEF entry
  <2>6. folders'[dest[r]] =
          [e \in Entries |-> IF \E i \in 1..(k + 1) : Content(r)[i] = e
                             THEN r ELSE None]
    BY <2>2, <2>4, <2>5
  <2>7. Holds(r, k + 1)'
    BY <1>2, <2>1, <2>6 DEF Holds
  <2>8. k + 1 <= Len(Content(r))
    BY <1>1, <2>1
  <2> QED
    BY <1>2, <2>1, <2>7, <2>8 DEF Own, Received
<1>6. CASE UnpackEnds(r)
  <2>1. /\ recvAt[r] = "unpacking" /\ recvAt'[r] = "confirming"
        /\ unpacked[r] = Len(Content(r)) /\ UNCHANGED <<dest, folders>>
    BY <1>0, <1>6 DEF UnpackEnds, TypeOK
  <2>2. Holds(r, Len(Content(r)))'
    BY <1>0, <1>2, <2>1 DEF Own, Holds
  <2> QED
    BY <2>1, <2>2 DEF Own, Received
<1>7. CASE Report(r)
  <2>1. /\ \/ recvAt[r] = "confirming" /\ recvAt'[r] = "stored"
           \/ recvAt'[r] = "over"
        /\ UNCHANGED <<dest, folders>>
    BY <1>0, <1>7 DEF Report, TypeOK
  <2>2. CASE recvAt[r] = "confirming" /\ recvAt'[r] = "stored"
    <3>1. Holds(r, Len(Content(r)))
      BY <1>0, <2>2 DEF Own, Received
    <3>2. Holds(r, Len(Content(r)))'
      BY <1>2, <2>1, <3>1 DEF Holds
    <3> QED
      BY <2>2, <3>2 DEF Own
  <2>3. CASE recvAt'[r] = "over"
    BY <2>3 DEF Own, Received
  <2> QED
    BY <2>1, <2>2, <2>3
<1>8. CASE ReadFails(r) \/ UnpackFails(r)
  <2>1. recvAt'[r] \in {"over", "refusing"}
    BY <1>0, <1>8 DEF ReadFails, UnpackFails, TypeOK
  <2> QED
    BY <2>1 DEF Own, Received
<1> QED
  BY <1>3, <1>4, <1>5, <1>6, <1>7, <1>8 DEF RecvNext

(* No two receives get one directory, as long as shared says so.           *)
LEMMA DirsDiffer ==
  ASSUME IInv, ~shared', NEW r \in Sends, RecvNext(r), NEW s \in Sends,
         NEW t \in Sends, s # t, recvAt'[s] \in AtDir, recvAt'[t] \in AtDir
  PROVE  dest'[s] # dest'[t]
<1> USE DEF RecvStep, AtDir, HasDir
<1>0. TypeOK /\ Written /\ Progress /\ Apart
  BY DEF IInv
<1>1. CASE Start(r)
  <2> DEFINE p == UniquePath(target[r])
  <2>1. /\ ~shared /\ UNCHANGED folders
        /\ \A u \in Sends : Receiving(u) => dest[u] # p
        /\ dest'[r] = p
        /\ \A u \in Sends \ {r} : recvAt'[u] = recvAt[u] /\ dest'[u] = dest[u]
    BY <1>0, <1>1 DEF Start, TypeOK
  <2>2. folders[p] = None
    <3>1. sendAt[r] # "idle" /\ target[r] \in Targets /\ dest[r] = None
      BY <1>0, <1>1 DEF Start, Progress, Begun
    <3> QED
      BY <1>0, <3>1, FreePath
  <2>3. ASSUME NEW u \in Sends \ {r}, recvAt[u] \in AtDir PROVE dest[u] # p
    <3>1. CASE Receiving(u)
      BY <2>1, <3>1
    <3>2. CASE Received(u)
      <4>1. Holds(u, Len(Content(u)))
        BY <1>0, <2>1, <3>2 DEF Apart, Own
      <4>2. folders[dest[u]] \in [Entries -> Sends \cup {None}]
        BY <4>1 DEF Holds
      <4>3. folders[dest[u]] # None
        BY <4>2, NoneAssumption
      <4> QED
        BY <2>2, <4>3
    <3> QED
      BY <2>3, <3>1, <3>2 DEF Receiving, Received
  <2> HIDE DEF p
  <2> QED
    BY <1>0, <2>1, <2>3 DEF Apart
<1>2. CASE ~Start(r)
  <2>1. /\ ~shared /\ UNCHANGED dest
        /\ \A u \in Sends : recvAt'[u] \in AtDir => recvAt[u] \in AtDir
    <3>1. UNCHANGED <<dest, shared>>
      BY <1>2, RecvFrame
    <3>2. \A u \in Sends : recvAt'[u] \in AtDir => recvAt[u] \in AtDir
      BY <1>0, <1>2 DEF RecvNext, MakeDir, ReadFails, UnpackOne, UnpackEnds,
           UnpackFails, Report, TypeOK
    <3> QED
      BY <3>1, <3>2
  <2> QED
    BY <1>0, <2>1 DEF Apart
<1> QED
  BY <1>1, <1>2

LEMMA KeptApart == IInv /\ [Next]_vars => Apart'
<1> SUFFICES ASSUME IInv, [Next]_vars, ~shared'
             PROVE  /\ \A s, t \in Sends :
                         s # t /\ recvAt'[s] \in AtDir /\ recvAt'[t] \in AtDir
                           => dest'[s] # dest'[t]
                    /\ \A s \in Sends : Own(s)'
  BY DEF Apart
<1>0. TypeOK /\ Apart
  BY DEF IInv
<1>1. CASE \A r \in Sends : ~RecvNext(r)
  <2>1. /\ ~shared /\ UNCHANGED <<dest, unpacked, folders>>
        /\ \A s \in Sends :
             recvAt'[s] \in AtDir =>
               recvAt[s] = recvAt'[s] /\ offerOf'[s] = offerOf[s]
    BY <1>1, DirsStay DEF AtDir, HasDir
  <2>2. ASSUME NEW s \in Sends PROVE Own(s)'
    <3>1. CASE recvAt'[s] \in AtDir
      <4>1. Own(s) /\ Content(s)' = Content(s) /\ recvAt'[s] = recvAt[s]
        BY <1>0, <2>1, <3>1 DEF Apart, Content
      <4> QED
        BY <2>1, <4>1 DEF Own, Holds, Received
    <3>2. CASE recvAt'[s] \notin AtDir
      BY <3>2 DEF Own, Received, AtDir, HasDir
    <3> QED
      BY <3>1, <3>2
  <2> QED
    BY <1>0, <2>1, <2>2 DEF Apart
<1>2. ASSUME NEW r \in Sends, RecvNext(r)
      PROVE  /\ \A s, t \in Sends :
                  s # t /\ recvAt'[s] \in AtDir /\ recvAt'[t] \in AtDir
                    => dest'[s] # dest'[t]
             /\ \A s \in Sends : Own(s)'
  <2>1. ~shared
    BY <1>0, <1>2, RecvFrame DEF Start, TypeOK
  <2>2. ASSUME NEW s \in Sends PROVE Own(s)'
    <3>1. CASE s = r
      BY <1>2, <2>1, <3>1, OwnKept
    <3>2. CASE s # r
      <4>1. /\ recvAt'[s] = recvAt[s] /\ dest'[s] = dest[s]
            /\ unpacked'[s] = unpacked[s] /\ offerOf'[s] = offerOf[s]
        BY <1>0, <1>2, <3>2, OthersStep
      <4>2. CASE recvAt[s] \in AtDir
        <5>1. folders'[dest[s]] = folders[dest[s]]
          BY <1>2, <2>1, <3>2, <4>2, OthersDir
        <5>2. Own(s) /\ Content(s)' = Content(s)
          BY <1>0, <2>1, <4>1 DEF Apart, Content
        <5> QED
          BY <4>1, <5>1, <5>2 DEF Own, Holds, Received
      <4>3. CASE recvAt[s] \notin AtDir
        BY <4>1, <4>3 DEF Own, Received, AtDir, HasDir
      <4> QED
        BY <4>2, <4>3
    <3> QED
      BY <3>1, <3>2
  <2> QED
    BY <1>2, <2>2, DirsDiffer
<1> QED
  BY <1>1, <1>2
-----------------------------------------------------------------------------
(* A send that has chosen has an offer that got away.                      *)
LEMMA ChosenIsSent ==
  ASSUME IInv, NEW s \in Sends, sendAt[s] # "idle"
  PROVE  /\ offerOf[s] \in Offers /\ offerAt[offerOf[s]] = "sent"
         /\ offerOf[s] \notin Sends
  BY OffersAssumption DEF IInv, Progress, Begun

LEMMA KeptChosen == IInv /\ [Next]_vars => Chosen'
<1> SUFFICES ASSUME IInv, [Next]_vars, NEW s \in Sends,
                    sendAt'[s] \in {"opening", "sending", "failing",
                                    "delivered"}
             PROVE  \/ using'[s] = offerOf'[s]
                    \/ using'[s] = s /\ offerOf'[s] \notin archives'
  BY DEF Chosen
<1> USE DEF SendStep, asking, sender
<1>0. TypeOK /\ Chosen
  BY DEF IInv
<1>1. ASSUME /\ sendAt'[s] = sendAt[s] /\ using'[s] = using[s]
             /\ offerOf'[s] = offerOf[s]
             /\ offerOf[s] \in archives' => offerOf[s] \in archives
      PROVE  \/ using'[s] = offerOf'[s]
             \/ using'[s] = s /\ offerOf'[s] \notin archives'
  BY <1>0, <1>1 DEF Chosen
<1>2. ASSUME NEW o \in Offers, OfferNext(o)
      PROVE  /\ sendAt'[s] = sendAt[s] /\ using'[s] = using[s]
             /\ offerOf'[s] = offerOf[s]
             /\ offerOf[s] \in archives' => offerOf[s] \in archives
  <2>1. /\ sendAt'[s] = sendAt[s] /\ offerOf'[s] = offerOf[s]
        /\ UNCHANGED using
    <3>1. UNCHANGED using
      BY <1>2, OfferFrame
    <3>2. CASE \E t \in Sends : Approve(o, t)
      <4>1. PICK t \in Sends : Approve(o, t)
        BY <3>2
      <4>2. /\ sendAt' = [sendAt EXCEPT ![t] = "asked"]
            /\ offerOf' = [offerOf EXCEPT ![t] = o]
        BY <4>1 DEF Approve
      <4>3. t # s
        BY <1>0, <4>2 DEF TypeOK
      <4> QED
        BY <3>1, <4>2, <4>3
    <3> QED
      BY <1>2, <3>1, <3>2, OfferFrame
  <2>2. offerAt[offerOf[s]] = "sent"
    BY <2>1, ChosenIsSent
  <2>3. archives' \subseteq archives \/ Pack(o)
    <3>1. CASE StoreOffer(o) \/ PackUnreadable(o) \/ Offer(o)
      BY <3>1 DEF StoreOffer, PackUnreadable, Offer
    <3>2. CASE OfferFails(o) \/ Reject(o)
      BY <3>2 DEF OfferFails, Reject
    <3>3. CASE HearRejection(o) \/ LoseRejection(o)
      BY <3>3 DEF HearRejection, LoseRejection
    <3>4. CASE \E t \in Sends : Approve(o, t)
      BY <3>4 DEF Approve
    <3> QED
      BY <1>2, <3>1, <3>2, <3>3, <3>4 DEF OfferNext
  <2>4. CASE Pack(o)
    <3>1. offerOf[s] # o
      BY <2>2, <2>4 DEF Pack
    <3> QED
      BY <2>1, <2>4, <3>1 DEF Pack
  <2> QED
    BY <2>1, <2>3, <2>4
<1>3. ASSUME NEW t \in Sends, SendNext(t), s # t
      PROVE  /\ sendAt'[s] = sendAt[s] /\ using'[s] = using[s]
             /\ offerOf'[s] = offerOf[s]
             /\ offerOf[s] \in archives' => offerOf[s] \in archives
  <2>1. sendAt'[s] = sendAt[s] /\ offerOf'[s] = offerOf[s]
    BY <1>0, <1>3, OthersStep
  <2>2. offerOf[s] \notin Sends
    BY <2>1, ChosenIsSent
  <2>3. CASE HearRequest(t) \/ DropRequest(t) \/ UseArchive(t)
    BY <1>0, <1>3, <2>1, <2>3 DEF HearRequest, DropRequest, UseArchive, TypeOK
  <2>4. CASE PackAgain(t) \/ PackAgainFails(t)
    BY <1>0, <1>3, <2>1, <2>2, <2>4 DEF PackAgain, PackAgainFails, TypeOK
  <2>5. CASE Dial(t) \/ NotDelivered(t) \/ Delivered(t) \/ RemoveArchive(t)
    BY <1>0, <1>3, <2>1, <2>5
       DEF Dial, NotDelivered, Delivered, RemoveArchive, TypeOK
  <2> QED
    BY <1>3, <2>3, <2>4, <2>5 DEF SendNext
<1>4. ASSUME SendNext(s)
      PROVE  \/ using'[s] = offerOf'[s]
             \/ using'[s] = s /\ offerOf'[s] \notin archives'
  <2>1. sendAt \in [Sends -> {"idle", "asked", "choosing", "opening",
                              "sending", "failing", "delivered", "ok",
                              "failed"}]
    BY <1>0 DEF TypeOK
  <2>2. CASE UseArchive(s)
    BY <1>0, <2>2 DEF UseArchive, TypeOK
  <2>3. CASE PackAgain(s)
    <3>1. sendAt[s] # "idle"
      BY <2>3 DEF PackAgain
    <3>2. offerOf[s] # s
      BY <3>1, ChosenIsSent
    <3> QED
      BY <1>0, <2>3, <3>2 DEF PackAgain, TypeOK
  <2>4. CASE Dial(s) \/ NotDelivered(s) \/ Delivered(s)
    <3>1. /\ sendAt[s] \in {"opening", "sending"}
          /\ UNCHANGED <<using, offerOf, archives>>
      BY <2>4 DEF Dial, NotDelivered, Delivered
    <3> QED
      BY <1>0, <3>1 DEF Chosen
  <2>5. CASE \/ HearRequest(s) \/ DropRequest(s) \/ PackAgainFails(s)
             \/ RemoveArchive(s)
    BY <2>1, <2>5 DEF HearRequest, DropRequest, PackAgainFails, RemoveArchive
  <2> QED
    BY <1>4, <2>2, <2>3, <2>4, <2>5 DEF SendNext
<1>5. ASSUME NEW t \in Sends, RecvNext(t)
      PROVE  UNCHANGED <<sendAt, using, offerOf, archives>>
  BY <1>5, RecvFrame
<1>6. CASE (\E a \in Offers \cup Sends : TmpCleaned(a)) \/ UNCHANGED vars
  BY <1>1, <1>6 DEF TmpCleaned, vars
<1>7. CASE SenderRestart
  <2>1. sendAt'[s] = sendAt[s]
    BY <1>7 DEF SenderRestart
  <2> QED
    BY <1>1, <1>7, <2>1 DEF SenderRestart
<1> QED
  BY <1>1, <1>2, <1>3, <1>4, <1>5, <1>6, <1>7 DEF Next
-----------------------------------------------------------------------------
(* Whose an archive is, for one of them.                                   *)
Owned(a) ==
  \/ a \in approvals
  \/ a \in Offers /\ offerAt[a] = "packed"
  \/ \E s \in Sends : using[s] = a /\ Running(s)

(* An owner that is not touched stays.                                     *)
LEMMA OwnerStays ==
  ASSUME NEW a, Owned(a),
         a \in approvals => a \in approvals',
         a \in Offers => offerAt'[a] = offerAt[a],
         \A s \in Sends :
           using[s] = a /\ Running(s) => using'[s] = a /\ Running(s)'
  PROVE  Owned(a)'
  BY DEF Owned

LEMMA OfferOwned ==
  ASSUME IInv, crashes = 0, NEW o \in Offers, OfferNext(o),
         NEW a \in archives'
  PROVE  Owned(a)'
<1> USE DEF asking, sender, receiving
<1>0. /\ TypeOK /\ Progress
      /\ \A b \in archives : Owned(b)
  BY DEF IInv, ArchivesOwned, Owned
<1>1. \A s \in Sends : Running(s) => using'[s] = using[s] /\ Running(s)'
  <2>1. UNCHANGED using
    BY OfferFrame
  <2>2. CASE UNCHANGED sendAt
    BY <2>1, <2>2 DEF Running
  <2>3. CASE \E t \in Sends : Approve(o, t)
    BY <1>0, <2>1, <2>3 DEF Approve, Running, TypeOK
  <2> QED
    BY <2>2, <2>3, OfferFrame
<1>2. CASE Pack(o)
  <2>1. CASE a \in archives /\ a # o
    BY <1>0, <1>1, <1>2, <2>1, OwnerStays DEF Pack, TypeOK
  <2>2. CASE a = o /\ o \notin archives
    BY <1>0, <1>2, <2>2 DEF Pack, Owned, TypeOK
  <2>3. CASE a = o /\ o \in archives
    <3>1. offerAt[o] = "new" /\ UNCHANGED approvals
      BY <1>2 DEF Pack
    <3>2. Owned(o)
      BY <1>0, <2>3
    <3> QED
      BY <1>1, <2>3, <3>1, <3>2 DEF Owned
  <2> QED
    BY <1>2, <2>1, <2>2, <2>3 DEF Pack
<1>3. CASE StoreOffer(o)
  <2>1. a \in archives /\ UNCHANGED using
    BY <1>3 DEF StoreOffer
  <2>2. CASE a = o
    BY <1>3, <2>2 DEF StoreOffer, Owned
  <2>3. CASE a # o
    BY <1>0, <1>1, <1>3, <2>1, <2>3, OwnerStays DEF StoreOffer, TypeOK
  <2> QED
    BY <2>2, <2>3
<1>4. CASE PackUnreadable(o) \/ OfferFails(o)
  <2>1. a \in archives /\ a # o
    BY <1>4 DEF PackUnreadable, OfferFails
  <2> QED
    BY <1>0, <1>1, <1>4, <2>1, OwnerStays DEF PackUnreadable, OfferFails,
       TypeOK
<1>5. CASE Offer(o)
  <2>1. /\ a \in archives /\ UNCHANGED approvals
        /\ offerAt[o] = "stored" /\ offerAt' = [offerAt EXCEPT ![o] = "sent"]
    BY <1>5 DEF Offer
  <2>2. a \in Offers /\ offerAt[a] = "packed" => offerAt'[a] = "packed"
    BY <1>0, <2>1 DEF TypeOK
  <2>3. Owned(a)
    BY <1>0, <2>1
  <2> QED
    BY <1>1, <2>1, <2>2, <2>3 DEF Owned
<1>6. CASE HearRejection(o)
  <2>1. a \in archives /\ UNCHANGED offerAt
    BY <1>6 DEF HearRejection
  <2>2. a \in approvals => a \in approvals'
    BY <1>6 DEF HearRejection
  <2> QED
    BY <1>0, <1>1, <2>1, <2>2, OwnerStays
<1>7. CASE Reject(o) \/ LoseRejection(o) \/ \E t \in Sends : Approve(o, t)
  <2>1. a \in archives /\ UNCHANGED <<offerAt, approvals>>
    BY <1>7 DEF Reject, LoseRejection, Approve
  <2> QED
    BY <1>0, <1>1, <2>1, OwnerStays
<1> QED
  BY <1>2, <1>3, <1>4, <1>5, <1>6, <1>7 DEF OfferNext

LEMMA SendOwned ==
  ASSUME IInv, crashes = 0, NEW r \in Sends, SendNext(r),
         NEW a \in archives'
  PROVE  Owned(a)'
<1> USE DEF SendStep, asking
<1>0. /\ TypeOK /\ Chosen
      /\ \A b \in archives : Owned(b)
      /\ UNCHANGED offerAt
  BY SendFrame DEF IInv, ArchivesOwned, Owned
<1>1. /\ sendAt \in [Sends -> {"idle", "asked", "choosing", "opening",
                               "sending", "failing", "delivered", "ok",
                               "failed"}]
      /\ using \in [Sends -> Offers \cup Sends \cup {None}]
  BY <1>0 DEF TypeOK
<1>2. CASE HearRequest(r) \/ DropRequest(r)
  <2>1. /\ a \in archives /\ UNCHANGED <<approvals, using>>
        /\ \A s \in Sends : Running(s) => Running(s)'
    BY <1>1, <1>2 DEF HearRequest, DropRequest, Running
  <2> QED
    BY <1>0, <2>1, OwnerStays
<1>3. CASE UseArchive(r)
  <2>1. /\ a \in archives /\ UNCHANGED approvals
        /\ using'[r] = offerOf[r] /\ Running(r)'
        /\ \A s \in Sends \ {r} : using'[s] = using[s]
        /\ \A s \in Sends : Running(s) => Running(s)'
    BY <1>1, <1>3 DEF UseArchive, Running
  <2>2. CASE using[r] = a
    \* nothing has been chosen before
    <3>1. using[r] = None
      BY <1>3 DEF IInv, UseArchive, Progress, Begun
    <3> QED
      BY <1>0, <2>1, <2>2, <3>1, NoneAssumption DEF TypeOK
  <2>3. CASE using[r] # a
    BY <1>0, <2>1, <2>3, OwnerStays
  <2> QED
    BY <2>2, <2>3
<1>4. CASE PackAgain(r)
  <2>1. /\ a \in archives \cup {r} /\ UNCHANGED approvals
        /\ using'[r] = r /\ Running(r)'
        /\ \A s \in Sends \ {r} : using'[s] = using[s]
        /\ \A s \in Sends : Running(s) => Running(s)'
    BY <1>1, <1>4 DEF PackAgain, Running
  <2>2. CASE a = r
    BY <2>1, <2>2 DEF Owned
  <2>3. CASE a # r
    <3>1. using[r] = None
      BY <1>4 DEF IInv, PackAgain, Progress, Begun
    <3>2. a \in archives /\ using[r] # a
      BY <1>0, <2>1, <2>3, <3>1, NoneAssumption DEF TypeOK
    <3> QED
      BY <1>0, <2>1, <3>2, OwnerStays
  <2> QED
    BY <2>2, <2>3
<1>5. CASE PackAgainFails(r)
  <2>1. using[r] = None
    BY <1>5 DEF IInv, PackAgainFails, Progress, Begun
  <2>2. /\ a \in archives /\ UNCHANGED <<approvals, using>>
        /\ \A s \in Sends \ {r} : Running(s) => Running(s)'
    BY <1>1, <1>5 DEF PackAgainFails, Running
  <2>3. using[r] # a
    BY <1>0, <2>1, <2>2, NoneAssumption DEF TypeOK
  <2> QED
    BY <1>0, <2>2, <2>3, OwnerStays
<1>6. CASE Dial(r) \/ NotDelivered(r)
  <2>1. /\ a \in archives /\ UNCHANGED <<approvals, using>>
        /\ \A s \in Sends : Running(s) => Running(s)'
    BY <1>1, <1>6 DEF Dial, NotDelivered, Running
  <2> QED
    BY <1>0, <2>1, OwnerStays
<1>7. CASE Delivered(r)
  <2>1. /\ a \in archives /\ UNCHANGED using
        /\ approvals' = approvals \ {offerOf[r]}
        /\ sendAt[r] = "sending" /\ Running(r)'
        /\ \A s \in Sends : Running(s) => Running(s)'
    BY <1>1, <1>7 DEF Delivered, Running
  <2>2. CASE a = offerOf[r]
    <3>1. using[r] = a
      BY <1>0, <2>1, <2>2 DEF Chosen
    <3> QED
      BY <2>1, <3>1 DEF Owned
  <2>3. CASE a # offerOf[r]
    BY <1>0, <2>1, <2>3, OwnerStays
  <2> QED
    BY <2>2, <2>3
<1>8. CASE RemoveArchive(r)
  <2>1. /\ a \in archives /\ a # using[r] /\ UNCHANGED <<approvals, using>>
        /\ \A s \in Sends \ {r} : Running(s) => Running(s)'
    BY <1>1, <1>8 DEF RemoveArchive, Running
  <2> QED
    BY <1>0, <2>1, OwnerStays
<1> QED
  BY <1>2, <1>3, <1>4, <1>5, <1>6, <1>7, <1>8 DEF SendNext

LEMMA KeptOwned == IInv /\ [Next]_vars => ArchivesOwned'
<1> SUFFICES ASSUME IInv, [Next]_vars, crashes' = 0, NEW a \in archives'
             PROVE  Owned(a)'
  BY DEF ArchivesOwned, Owned
<1> USE DEF asking, sender
<1>1. crashes = 0 /\ ~SenderRestart
  <2>1. crashes \in Nat
    BY BoundsAssumption DEF IInv, TypeOK
  <2>2. ~SenderRestart
    BY <2>1 DEF SenderRestart
  <2> QED
    BY <2>2, OfferFrame, SendFrame, RecvFrame, RestFrame DEF Next
<1>2. \A b \in archives : Owned(b)
  BY <1>1 DEF IInv, ArchivesOwned, Owned
<1>3. ASSUME NEW s \in Sends, RecvNext(s) PROVE Owned(a)'
  BY <1>2, <1>3, RecvFrame, OwnerStays DEF Running
<1>4. CASE (\E b \in Offers \cup Sends : TmpCleaned(b)) \/ UNCHANGED vars
  <2>1. a \in archives /\ UNCHANGED <<approvals, offerAt, using, sendAt>>
    BY <1>4 DEF TmpCleaned, vars
  <2> QED
    BY <1>2, <2>1, OwnerStays DEF Running
<1> QED
  BY <1>1, <1>3, <1>4, OfferOwned, SendOwned DEF Next
-----------------------------------------------------------------------------
(* What is always true of the two machines and their folders.              *)
THEOREM Invariance == Spec => []IInv
<1>1. Init => IInv
  BY InitInv
<1>2. IInv /\ [Next]_vars => IInv'
  BY Typed, Progressing, Writing, KeptApart, KeptChosen, KeptOwned DEF IInv
<1> QED
  BY <1>1, <1>2, PTL DEF Spec

(* The types of all variables; in particular the number that UniquePath    *)
(* adds to a name is one that is free (queue.go:381-396).                  *)
THEOREM TypeCorrect == Spec => []TypeOK
<1>1. IInv => TypeOK
  BY DEF IInv
<1> QED
  BY <1>1, Invariance, PTL

(* A folder reported as received keeps its entries and gets no others,     *)
(* whatever is received or fails under the same name, and a receive that   *)
(* failed left nothing behind, unless two receives were given one          *)
(* directory (transfer.go:1131-1183).                                      *)
THEOREM ReceivedFoldersStay == Spec => []FoldersStay
<1>1. IInv => FoldersStay
  <2> SUFFICES ASSUME IInv, ~shared, NEW s \in Sends
               PROVE  /\ Received(s) => Whole(s)
                      /\ recvAt[s] = "over" =>
                           \A p \in Paths : folders[p] # None =>
                             \A e \in Entries : folders[p][e] # s
    BY DEF FoldersStay
  <2>1. ASSUME Received(s) PROVE Whole(s)
    <3>1. Holds(s, Len(Content(s)))
      BY <2>1 DEF IInv, Apart, Own
    <3>2. offerOf[s] \in Offers
      BY <2>1 DEF IInv, Progress, Begun, Received
    <3>3. DOMAIN Content(s) = 1..Len(Content(s))
      BY <3>2, OffersAssumption DEF Content
    <3> QED
      BY <3>1, <3>3 DEF Holds, Whole
  <2>2. ASSUME recvAt[s] = "over", NEW p \in Paths, folders[p] # None,
               NEW e \in Entries
        PROVE  folders[p][e] # s
    BY <2>2 DEF IInv, Written, HasDir
  <2> QED
    BY <2>1, <2>2
<1> QED
  BY <1>1, Invariance, PTL

(* Every archive in the temporary directory has an owner that will remove  *)
(* it, as long as the sender's program runs: a send works on the offer's   *)
(* archive, or on one of its own when the offer's is gone for good         *)
(* (transfer.go:424-428, 694-699, 788-804).                                *)
THEOREM ArchivesHaveOwners == Spec => []ArchivesOwned
<1>1. IInv => ArchivesOwned
  BY DEF IInv
<1> QED
  BY <1>1, Invariance, PTL
=============================================================================
