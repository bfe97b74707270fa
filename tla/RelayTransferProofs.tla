------------------------ MODULE RelayTransferProofs ------------------------
(***************************************************************************)
(* Theorems about RelayTransfer, for every payload, chunking, number of    *)
(* handlers and limit.                                                     *)
(*                                                                         *)
(* The safety properties are not inductive: what makes the stream ordered  *)
(* and bounded is the agreement between the mutex, the chunk its holder    *)
(* accepted, and the two counters, and what makes dst unique is that only  *)
(* the download that won `attached` can be past its headers.  IInv states  *)
(* those agreements.                                                       *)
(***************************************************************************)
EXTENDS RelayTransfer, TLAPS

Attached(g) == getAt[g] \notin {"idle", "refused"}

WriterInv ==
  /\ \A g \in Gets : Attached(g) => attached
  /\ \A g, h \in Gets : Attached(g) /\ Attached(h) => g = h
  /\ \A g \in Gets : getAt[g] \in {"marking", "streaming", "failing"} => writer = g
  /\ \A g \in Gets :
       writer = g => getAt[g] \in {"marking", "streaming", "failing", "returned"}
  /\ ready => writer # None
  /\ \A p \in Posts : postAt[p] \in {"locking", "copying", "flushing"} => ready

LockInv ==
  \A p \in Posts : mu = p <=> postAt[p] \in {"copying", "flushing"}

(* The holder of mu works on the chunk that comes next.                    *)
Copying(p) ==
  /\ postSeq[p] = nextSeq
  /\ written = Cut[nextSeq] /\ Cut[nextSeq + 1] <= Size
  /\ copied[p] <= ChunkLen(nextSeq)
  /\ Len(out) = written + copied[p]

Flushing(p) ==
  /\ postSeq[p] = nextSeq
  /\ written = Cut[nextSeq + 1] /\ Len(out) = written

UploadInv(p) ==
  /\ postAt[p] # "idle" => postSeq[p] < Chunks
  /\ postAt[p] \notin {"copying", "flushing"} => copied[p] = 0
  /\ postAt[p] = "copying" => Copying(p)
  /\ postAt[p] = "flushing" => Flushing(p)

StreamInv ==
  /\ InOrder /\ WithinSize /\ AckedDelivered
  /\ written <= Len(out)
  /\ mu = None => Len(out) = written /\ (failure = None => written = Cut[nextSeq])
  /\ \A p \in Posts : UploadInv(p)

OutcomeInv ==
  /\ EndOkWhole /\ CompleteMeansWhole
  /\ endAt = "deciding" => endSaw <= Len(out)
  /\ listed \/ done

IInv == TypeOK /\ WriterInv /\ LockInv /\ StreamInv /\ OutcomeInv

-----------------------------------------------------------------------------
(* The ranges of the variables, by the handlers that write them.           *)
UploadTypes ==
  /\ mu \in Posts \cup {None}
  /\ postAt \in [Posts -> {"idle", "waiting", "locking", "copying", "flushing"}]
  /\ postSeq \in [Posts -> Nat] /\ copied \in [Posts -> Nat]

PipeTypes ==
  /\ written \in Nat /\ nextSeq \in 0 .. Chunks
  /\ out \in Seq(Nat) /\ acked \subseteq 0 .. Chunks - 1

DownloadTypes ==
  /\ attached \in BOOLEAN /\ ready \in BOOLEAN /\ writer \in Gets \cup {None}
  /\ getAt \in [Gets -> {"idle", "refused", "headers", "installing", "marking",
                         "streaming", "failing", "returned"}]
  /\ open \in [Gets -> BOOLEAN]

OutcomeTypes == done \in BOOLEAN /\ failure \in Reasons \cup {None}

TableTypes ==
  /\ listed \in BOOLEAN
  /\ abortAt \in {"idle", "skipped", "selected", "reported"}
  /\ sweepAt \in {"idle", "found idle"}
  /\ endAt \in {"idle", "locking", "deciding", "ok", "refused", "not found"}
  /\ endSaw \in Nat

ClockTypes == age \in 0 .. Wait + 1 /\ quiet \in 0 .. Idle + 1

LEMMA TypeParts ==
  TypeOK <=> /\ UploadTypes /\ PipeTypes /\ DownloadTypes
             /\ OutcomeTypes /\ TableTypes /\ ClockTypes
BY DEF TypeOK, UploadTypes, PipeTypes, DownloadTypes, OutcomeTypes, TableTypes, ClockTypes

(* A transfer just registered by Begin satisfies the invariant.            *)
LEMMA InitIInv == Init => IInv
<1> SUFFICES ASSUME Init PROVE IInv
  OBVIOUS
<1>1. TypeOK
  <2>1. out \in Seq(Nat) /\ acked \subseteq 0 .. Chunks - 1
    BY DEF Init
  <2>2. age \in 0 .. Wait + 1 /\ quiet \in 0 .. Idle + 1 /\ nextSeq \in 0 .. Chunks
    BY SizesAssumption DEF Init
  <2> QED
    BY <2>1, <2>2 DEF Init, TypeOK
<1>2. WriterInv /\ LockInv
  BY NoneAssumption DEF Init, WriterInv, LockInv, Attached
<1>3. StreamInv /\ OutcomeInv
  BY SizesAssumption, CutAssumption
  DEF Init, StreamInv, UploadInv, OutcomeInv, InOrder, WithinSize, AckedDelivered,
      EndOkWhole, CompleteMeansWhole
<1> QED
  BY <1>1, <1>2, <1>3 DEF IInv

(* Only the winner of `attached` moves past its headers, so dst is set     *)
(* once and uploads wait for it.                                           *)
LEMMA WriterStep == IInv /\ [Next]_vars => WriterInv'
<1> SUFFICES ASSUME IInv, [Next]_vars PROVE WriterInv'
  OBVIOUS
<1>0. WriterInv /\ DownloadTypes /\ UploadTypes
  BY TypeParts DEF IInv
<1> HIDE DEF IInv
<1> USE <1>0, NoneAssumption DEF WriterInv, Attached, DownloadTypes, UploadTypes
<1>1. ASSUME UNCHANGED <<attached, ready, writer, getAt, postAt>>
      PROVE  WriterInv'
  BY <1>1
<1>2. CASE UNCHANGED vars
  BY <1>1, <1>2 DEF vars, gets, posts
<1>3. ASSUME NEW g \in Gets, Download(g) PROVE WriterInv'
  <2>1. CASE Attach(g)
    <3>1. CASE attached
      <4>1. \A h \in Gets : getAt'[h] = IF h = g THEN "refused" ELSE getAt[h]
        BY <2>1, <3>1 DEF Attach, TakenAlready
      <4>3. getAt[g] = "idle"
        BY <2>1 DEF Attach
      <4>2. UNCHANGED <<attached, ready, writer, postAt>>
        BY <2>1, <3>1 DEF Attach, TakenAlready, posts
      <4> QED
        BY <4>1, <4>2, <4>3
    <3>2. CASE ~attached
      <4>1. \A h \in Gets : getAt[h] \in {"idle", "refused"} /\ writer # h
        BY <3>2
      <4>2. /\ attached' /\ UNCHANGED <<ready, writer, postAt>>
            /\ \A h \in Gets : getAt'[h] = IF h = g THEN "headers" ELSE getAt[h]
        BY <2>1, <3>2 DEF Attach, TakenAlready, posts
      <4> QED
        BY <4>1, <4>2
    <3> QED
      BY <3>1, <3>2
  <2>2. CASE FlushHeaders(g)
    BY <2>2 DEF FlushHeaders, posts
  <2>3. CASE FlushHeadersFails(g)
    BY <2>3 DEF FlushHeadersFails, posts
  <2>4. CASE InstallWriter(g)
    BY <2>4 DEF InstallWriter, posts
  <2>5. CASE MarkReady(g)
    BY <2>5 DEF MarkReady, posts
  <2>6. CASE SeeDone(g)
    BY <2>6 DEF SeeDone, posts
  <2>7. CASE SeeHangup(g)
    <3>1. /\ UNCHANGED <<attached, ready, writer, postAt>>
          /\ getAt[g] = "streaming"
          /\ \/ getAt' = [getAt EXCEPT ![g] = "returned"]
             \/ getAt' = [getAt EXCEPT ![g] = "failing"]
      BY <2>7 DEF SeeHangup, posts
    <3>2. CASE getAt' = [getAt EXCEPT ![g] = "returned"]
      BY <3>1, <3>2
    <3>3. CASE getAt' = [getAt EXCEPT ![g] = "failing"]
      BY <3>1, <3>3
    <3> QED
      BY <3>1, <3>2, <3>3
  <2>8. CASE FailHangup(g)
    <3>1. /\ UNCHANGED <<attached, ready, writer, postAt>>
          /\ getAt[g] = "failing" /\ getAt' = [getAt EXCEPT ![g] = "returned"]
      BY <2>8 DEF FailHangup, posts
    <3> QED
      BY <3>1
  <2> QED
    BY <1>3, <2>1, <2>2, <2>3, <2>4, <2>5, <2>6, <2>7, <2>8 DEF Download
<1>4. ASSUME NEW p \in Posts, Upload(p) PROVE WriterInv'
  <2>1. UNCHANGED <<attached, ready, writer, getAt>>
    BY <1>4 DEF Upload, PostChunk, SeeReady, GiveUp, Accept, Refuse, RefuseOversize,
                CopyBlock, CopyEnds, CopyFails, Acknowledge, FlushFails, gets
  <2>2. \A q \in Posts : postAt'[q] \in {"locking", "copying", "flushing"} => ready
    BY <1>4 DEF Upload, PostChunk, SeeReady, GiveUp, Accept, Refuse, RefuseOversize,
                CopyBlock, CopyEnds, CopyFails, Acknowledge, FlushFails, Leave
  <2> QED
    BY <2>1, <2>2
<1>5. CASE (\E g \in Gets : HangUp(g)) \/ End \/ Abort \/ Sweep \/ Tick
  BY <1>1, <1>5
  DEF HangUp, End, AskEnd, ReadWritten, DecideEnd, Abort, SelectForAbort, AbortSelected,
      Cancel, Sweep, Reap, FindIdle, FailIdle, Tick, posts, gets
<1> QED
  BY <1>2, <1>3, <1>4, <1>5 DEF Next

(* The mutex names exactly the upload that is inside its copy.             *)
LEMMA LockStep == IInv /\ [Next]_vars => LockInv'
<1> SUFFICES ASSUME IInv, [Next]_vars PROVE LockInv'
  OBVIOUS
<1>0. LockInv /\ UploadTypes
  BY TypeParts DEF IInv
<1> USE <1>0, NoneAssumption DEF LockInv, UploadTypes
<1>1. ASSUME UNCHANGED <<mu, postAt>> PROVE LockInv'
  BY <1>1
<1>2. ASSUME NEW p \in Posts, Upload(p) PROVE LockInv'
  <2>1. CASE (\E k \in 0 .. Chunks - 1 : PostChunk(p, k)) \/ SeeReady(p) \/ GiveUp(p)
    BY <2>1 DEF PostChunk, SeeReady, GiveUp, Leave
  <2>2. CASE Accept(p)
    BY <2>2 DEF Accept
  <2>3. CASE Refuse(p) \/ RefuseOversize(p)
    BY <2>3 DEF Refuse, RefuseOversize, Leave
  <2>4. CASE CopyBlock(p) \/ CopyEnds(p)
    BY <2>4 DEF CopyBlock, CopyEnds
  <2>5. CASE CopyFails(p) \/ Acknowledge(p) \/ FlushFails(p)
    BY <2>5 DEF CopyFails, Acknowledge, FlushFails, Leave
  <2> QED
    BY <1>2, <2>1, <2>2, <2>3, <2>4, <2>5 DEF Upload
<1>3. CASE UNCHANGED vars
  BY <1>1, <1>3 DEF vars, posts
<1>4. CASE \/ \E g \in Gets : Download(g) \/ HangUp(g)
           \/ End \/ Abort \/ Sweep \/ Tick
  BY <1>1, <1>4
  DEF Download, Attach, FlushHeaders, FlushHeadersFails, InstallWriter, MarkReady,
      SeeDone, SeeHangup, FailHangup, HangUp, End, AskEnd, ReadWritten, DecideEnd, Abort,
      SelectForAbort, AbortSelected, Cancel, Sweep, Reap, FindIdle, FailIdle, Tick, posts
<1> QED
  BY <1>2, <1>3, <1>4 DEF Next

(* A step that leaves the bytes, the counters, the mutex and the uploads   *)
(* alone keeps StreamInv as long as it does not retract a failure.         *)
LEMMA StreamFrame ==
  ASSUME IInv,
         UNCHANGED <<out, written, nextSeq, mu, postAt, postSeq, copied, acked>>,
         failure' = None => failure = None
  PROVE  StreamInv'
BY DEF IInv, TypeOK, StreamInv, UploadInv, InOrder, WithinSize, AckedDelivered, Copying, Flushing

(* The payload is cut at increasing places.                                *)
LEMMA CutFacts ==
  ASSUME NEW k \in Nat, k < Chunks
  PROVE  /\ Cut[k] \in Nat /\ Cut[k + 1] \in Nat /\ Cut[k] < Cut[k + 1]
         /\ ChunkLen(k) \in Nat /\ Cut[k] + ChunkLen(k) = Cut[k + 1]
<1>1. k \in 0 .. Chunks /\ k + 1 \in 0 .. Chunks /\ k \in 0 .. Chunks - 1
  BY SizesAssumption
<1>2. Cut[k] \in Nat /\ Cut[k + 1] \in Nat /\ Cut[k] < Cut[k + 1]
  BY <1>1, CutAssumption
<1> QED
  BY <1>2 DEF ChunkLen

(* What an upload that is not in its copy relies on is its own.            *)
LEMMA OtherUpload ==
  ASSUME NEW q \in Posts, UploadInv(q), postAt[q] \notin {"copying", "flushing"},
         postAt'[q] = postAt[q], postSeq'[q] = postSeq[q], copied'[q] = copied[q]
  PROVE  UploadInv(q)'
BY DEF UploadInv

(* What the stream and its receiver's view need when no byte moves.        *)
LEMMA OutFrame ==
  ASSUME StreamInv, UNCHANGED <<out, acked>>
  PROVE  InOrder' /\ WithinSize' /\ AckedDelivered'
BY DEF StreamInv, InOrder, WithinSize, AckedDelivered

(* Accepted chunks are copied one at a time, in order, inside the size.    *)
LEMMA UploadStreamStep ==
  ASSUME IInv, NEW p \in Posts, Upload(p)
  PROVE  StreamInv'
<1> DEFINE Alone == \A q \in Posts : q # p => postAt[q] \notin {"copying", "flushing"}
           Frame == \A q \in Posts : q # p => /\ postAt'[q] = postAt[q]
                                              /\ postSeq'[q] = postSeq[q]
                                              /\ copied'[q] = copied[q]
<1>o. out \in Seq(Nat)
  BY DEF IInv, TypeOK
<1>a. /\ written \in Nat /\ nextSeq \in Nat /\ Len(out) \in Nat
      /\ postSeq[p] \in Nat /\ copied[p] \in Nat
  <2>1. /\ written \in Nat /\ nextSeq \in 0 .. Chunks
        /\ postSeq \in [Posts -> Nat] /\ copied \in [Posts -> Nat]
    BY DEF IInv, TypeOK
  <2> QED
    BY <1>o, <2>1, SizesAssumption
<1>b. StreamInv /\ LockInv /\ UploadInv(p) /\ UploadTypes
  BY TypeParts DEF IInv, StreamInv
<1>d. mu \in {None, p} => Alone
  BY <1>b, NoneAssumption DEF LockInv
<1>e. postAt[p] \in {"copying", "flushing"} =>
        mu = p /\ nextSeq < Chunks /\ postSeq[p] = nextSeq /\ Alone
  BY <1>b, <1>d DEF LockInv, UploadInv, Copying, Flushing
<1>f. Alone /\ Frame => \A q \in Posts : q # p => UploadInv(q)'
  BY <1>b, OtherUpload DEF StreamInv
<1>g. Frame /\ UNCHANGED <<written, nextSeq, out>> =>
        \A q \in Posts : q # p => UploadInv(q)'
  BY <1>b DEF StreamInv, UploadInv, Copying, Flushing
<1> HIDE DEF Alone, Frame
<1>1. ASSUME NEW k \in 0 .. Chunks - 1, PostChunk(p, k) PROVE StreamInv'
  <2>1. /\ UNCHANGED <<out, written, nextSeq, mu, acked, failure, copied>>
        /\ postAt[p] = "idle" /\ postAt'[p] = "waiting" /\ postSeq'[p] = k /\ Frame
    BY <1>b, <1>1 DEF PostChunk, Frame, UploadTypes
  <2>2. UploadInv(p)'
    <3>1. k < Chunks
      BY SizesAssumption
    <3> QED
      BY <2>1, <3>1, <1>b DEF UploadInv
  <2> QED
    BY <1>b, <1>g, <2>1, <2>2, OutFrame DEF StreamInv
<1>2. CASE SeeReady(p)
  <2>1. /\ UNCHANGED <<out, written, nextSeq, mu, acked, failure, copied, postSeq>>
        /\ postAt[p] = "waiting" /\ postAt'[p] = "locking" /\ Frame
    BY <1>b, <1>2 DEF SeeReady, Frame, UploadTypes
  <2>2. UploadInv(p)'
    BY <2>1, <1>b DEF UploadInv
  <2> QED
    BY <1>b, <1>g, <2>1, <2>2, OutFrame DEF StreamInv
<1>3. CASE GiveUp(p) \/ Refuse(p)
  <2>1. /\ UNCHANGED <<out, written, nextSeq, mu, acked, failure>>
        /\ postAt'[p] = "idle" /\ copied'[p] = 0 /\ Frame
    BY <1>b, <1>3 DEF GiveUp, Refuse, Leave, Frame, UploadTypes
  <2>2. UploadInv(p)'
    BY <2>1 DEF UploadInv
  <2> QED
    BY <1>b, <1>g, <2>1, <2>2, OutFrame DEF StreamInv
<1>4. CASE RefuseOversize(p)
  <2>1. /\ UNCHANGED <<out, written, nextSeq, mu, acked>>
        /\ postAt'[p] = "idle" /\ copied'[p] = 0 /\ Frame
    BY <1>b, <1>4 DEF RefuseOversize, Leave, Frame, UploadTypes
  <2>2. failure' # None
    BY <1>4, NoneAssumption DEF RefuseOversize, Fail, Reasons
  <2>3. UploadInv(p)'
    BY <2>1 DEF UploadInv
  <2> QED
    BY <1>b, <1>g, <2>1, <2>2, <2>3, OutFrame DEF StreamInv
<1>5. CASE Accept(p)
  <2>1. /\ UNCHANGED <<out, written, nextSeq, acked, postSeq, copied>> /\ mu' = p
        /\ postAt[p] = "locking" /\ postAt'[p] = "copying" /\ Frame /\ mu = None
    BY <1>b, <1>5 DEF Accept, Frame, UploadTypes
  <2>2. /\ postSeq[p] = nextSeq /\ ~(written + ChunkLen(nextSeq) > Size)
        /\ failure = None
    BY <1>5 DEF Accept, Failed, OutOfOrder, Oversize
  <2>3. nextSeq < Chunks /\ copied[p] = 0 /\ Len(out) = written /\ written = Cut[nextSeq]
    BY <1>b, <2>1, <2>2 DEF StreamInv, UploadInv
  <2>4. /\ Cut[nextSeq] \in Nat /\ ChunkLen(nextSeq) \in Nat
        /\ Cut[nextSeq] + ChunkLen(nextSeq) = Cut[nextSeq + 1]
    BY <1>a, <2>3, CutFacts
  <2>5. Copying(p)'
    <3>1. /\ Cut[nextSeq + 1] <= Size /\ copied[p] <= ChunkLen(nextSeq)
          /\ Len(out) = written + copied[p]
      BY <1>a, <2>2, <2>3, <2>4, SizesAssumption
    <3> QED
      BY <2>1, <2>2, <2>3, <3>1 DEF Copying, ChunkLen
  <2>6. UploadInv(p)'
    BY <2>1, <2>2, <2>3, <2>5 DEF UploadInv
  <2> QED
    BY <1>b, <1>g, <2>1, <2>6, OutFrame, NoneAssumption DEF StreamInv
<1>6. CASE CopyBlock(p)
  <2>1. /\ UNCHANGED <<written, nextSeq, acked, postSeq, mu, postAt>>
        /\ postAt[p] = "copying" /\ Frame
        /\ copied'[p] = copied[p] + 1 /\ copied[p] < ChunkLen(postSeq[p])
        /\ out' = Append(out, Cut[postSeq[p]] + copied[p] + 1)
    BY <1>b, <1>6 DEF CopyBlock, Frame, UploadTypes
  <2>2. Copying(p) /\ Alone /\ mu = p /\ nextSeq < Chunks /\ postSeq[p] = nextSeq
    BY <1>b, <1>e, <2>1 DEF UploadInv
  <2>3. /\ Cut[nextSeq] \in Nat /\ Cut[nextSeq + 1] \in Nat /\ ChunkLen(nextSeq) \in Nat
        /\ Cut[nextSeq] + ChunkLen(nextSeq) = Cut[nextSeq + 1]
    BY <1>a, <2>2, CutFacts
  <2>4. out' = Append(out, Len(out) + 1)
    BY <1>a, <2>1, <2>2, <2>3 DEF Copying
  <2>5. Len(out') = Len(out) + 1
    BY <1>o, <2>4
  <2>6. InOrder'
    <3>1. \A i \in 1 .. Len(out) : out[i] = i
      BY <1>b DEF StreamInv, InOrder
    <3>2. \A i \in 1 .. Len(out) + 1 :
            out'[i] = IF i = Len(out) + 1 THEN Len(out) + 1 ELSE out[i]
      BY <1>o, <1>a, <2>4
    <3>3. ASSUME NEW i \in 1 .. Len(out) + 1 PROVE out'[i] = i
      <4>1. i = Len(out) + 1 \/ i \in 1 .. Len(out)
        BY <1>a
      <4> QED
        BY <3>1, <3>2, <4>1
    <3> QED
      BY <2>5, <3>3 DEF InOrder
  <2>7. /\ copied[p] + 1 <= ChunkLen(nextSeq) /\ Len(out) + 1 = written + (copied[p] + 1)
        /\ Len(out) + 1 <= Cut[nextSeq + 1] /\ Cut[nextSeq + 1] <= Size
        /\ written <= Len(out) + 1 /\ Len(out) + 1 <= Size /\ written = Cut[nextSeq]
    <3>1. copied[p] < ChunkLen(nextSeq)
      BY <2>1, <2>2
    <3>2. /\ written = Cut[nextSeq] /\ Cut[nextSeq + 1] <= Size
          /\ Len(out) = written + copied[p]
      BY <2>2 DEF Copying
    <3>3. copied[p] + 1 <= ChunkLen(nextSeq)
      BY <1>a, <2>3, <3>1
    <3>4. /\ Len(out) + 1 = written + (copied[p] + 1)
          /\ written <= Len(out) + 1
      <4>1. written \in Nat /\ copied[p] \in Nat /\ Len(out) = written + copied[p]
        BY <1>a, <3>2
      <4> QED
        BY <4>1
    <3>5. Len(out) + 1 <= Cut[nextSeq + 1]
      BY <1>a, <2>3, <3>2, <3>3, <3>4
    <3>6. Len(out) + 1 <= Size
      BY <1>a, <2>3, <3>2, <3>5, SizesAssumption
    <3> QED
      BY <3>2, <3>3, <3>4, <3>5, <3>6
  <2>8. Copying(p)' /\ Len(out') <= Size /\ written' <= Len(out')
    BY <2>1, <2>2, <2>5, <2>7 DEF Copying, ChunkLen
  <2>9. AckedDelivered'
    <3>1. ASSUME NEW k \in acked PROVE Cut[k + 1] <= Len(out')
      <4>1. Cut[k + 1] \in Nat /\ Cut[k + 1] <= Len(out)
        <5>1. k \in Nat /\ k < Chunks
          <6>1. k \in 0 .. Chunks - 1
            BY DEF IInv, TypeOK
          <6> QED
            BY <6>1, SizesAssumption
        <5> QED
          BY <1>b, <5>1, CutFacts DEF StreamInv, AckedDelivered
      <4> QED
        BY <1>a, <2>5, <4>1
    <3> QED
      BY <2>1, <3>1 DEF AckedDelivered
  <2>10. UploadInv(p)'
    BY <1>b, <2>1, <2>2, <2>8 DEF UploadInv
  <2> QED
    BY <1>f, <2>1, <2>2, <2>6, <2>8, <2>9, <2>10, NoneAssumption
    DEF StreamInv, WithinSize
<1>7. CASE CopyEnds(p)
  <2>1. /\ UNCHANGED <<out, nextSeq, acked, postSeq, mu, copied>>
        /\ postAt[p] = "copying" /\ Frame
        /\ postAt'[p] = "flushing" /\ written' = written + copied[p]
        /\ copied[p] = ChunkLen(postSeq[p])
    BY <1>b, <1>7 DEF CopyEnds, BodyCopied, Count, Frame, UploadTypes
  <2>2. Copying(p) /\ Alone /\ mu = p /\ nextSeq < Chunks /\ postSeq[p] = nextSeq
    BY <1>b, <1>e, <2>1 DEF UploadInv
  <2>3. Cut[nextSeq] + ChunkLen(nextSeq) = Cut[nextSeq + 1]
    BY <1>a, <2>2, CutFacts
  <2>4. Flushing(p)' /\ written' <= Len(out')
    BY <1>a, <2>1, <2>2, <2>3 DEF Copying, Flushing
  <2>5. UploadInv(p)'
    BY <2>1, <2>2, <2>4 DEF UploadInv
  <2> QED
    BY <1>b, <1>f, <2>1, <2>2, <2>4, <2>5, OutFrame, NoneAssumption DEF StreamInv
<1>8. CASE CopyFails(p)
  <2>1. /\ UNCHANGED <<out, nextSeq, acked>> /\ postAt[p] = "copying" /\ Frame
        /\ postAt'[p] = "idle" /\ copied'[p] = 0 /\ written' = written + copied[p]
    BY <1>b, <1>8 DEF CopyFails, Count, Leave, Frame, UploadTypes
  <2>2. Copying(p) /\ Alone
    BY <1>b, <1>e, <2>1 DEF UploadInv
  <2>3. written' = Len(out') /\ written' <= Len(out')
    BY <1>a, <2>1, <2>2 DEF Copying
  <2>4. failure' # None
    BY <1>8, NoneAssumption DEF CopyFails, Fail, Reasons
  <2>5. UploadInv(p)'
    BY <2>1 DEF UploadInv
  <2> QED
    BY <1>b, <1>f, <2>1, <2>2, <2>3, <2>4, <2>5, OutFrame DEF StreamInv
<1>9. CASE Acknowledge(p)
  <2>1. /\ UNCHANGED <<out, written, failure>> /\ postAt[p] = "flushing" /\ Frame
        /\ postAt'[p] = "idle" /\ copied'[p] = 0
        /\ nextSeq' = nextSeq + 1 /\ acked' = acked \cup {postSeq[p]}
    BY <1>b, <1>9 DEF Acknowledge, Leave, Frame, UploadTypes
  <2>2. Flushing(p) /\ Alone /\ postSeq[p] = nextSeq
    BY <1>b, <1>e, <2>1 DEF UploadInv
  <2>3. InOrder' /\ WithinSize' /\ written' <= Len(out')
    BY <1>b, <2>1 DEF StreamInv, InOrder, WithinSize
  <2>4. AckedDelivered'
    <3>1. ASSUME NEW k \in acked' PROVE Cut[k + 1] <= Len(out)
      <4>1. CASE k \in acked
        BY <1>b, <4>1 DEF StreamInv, AckedDelivered
      <4>2. CASE k = nextSeq
        BY <1>a, <2>2, <4>2 DEF Flushing
      <4> QED
        BY <2>1, <2>2, <4>1, <4>2
    <3> QED
      BY <2>1, <3>1 DEF AckedDelivered
  <2>5. Len(out') = written' /\ written' = Cut[nextSeq']
    BY <2>1, <2>2 DEF Flushing
  <2>6. UploadInv(p)'
    BY <2>1 DEF UploadInv
  <2> QED
    BY <1>f, <2>1, <2>2, <2>3, <2>4, <2>5, <2>6 DEF StreamInv
<1>10. CASE FlushFails(p)
  <2>1. /\ UNCHANGED <<out, written, nextSeq, acked>> /\ postAt[p] = "flushing" /\ Frame
        /\ postAt'[p] = "idle" /\ copied'[p] = 0
    BY <1>b, <1>10 DEF FlushFails, Leave, Frame, UploadTypes
  <2>2. Flushing(p) /\ Alone
    BY <1>b, <1>e, <2>1 DEF UploadInv
  <2>3. failure' # None
    BY <1>10, NoneAssumption DEF FlushFails, Fail, Reasons
  <2>4. written' = Len(out') /\ written' <= Len(out')
    BY <1>a, <2>1, <2>2 DEF Flushing
  <2>5. UploadInv(p)'
    BY <2>1 DEF UploadInv
  <2> QED
    BY <1>b, <1>f, <2>1, <2>2, <2>3, <2>4, <2>5, OutFrame DEF StreamInv
<1> QED
  BY <1>1, <1>2, <1>3, <1>4, <1>5, <1>6, <1>7, <1>8, <1>9, <1>10 DEF Upload

(* No other step moves a byte.                                             *)
LEMMA StreamStep == IInv /\ [Next]_vars => StreamInv'
<1> SUFFICES ASSUME IInv, [Next]_vars PROVE StreamInv'
  OBVIOUS
<1>1. CASE UNCHANGED vars
  BY <1>1, StreamFrame DEF vars, posts
<1>2. CASE \/ \E g \in Gets : Download(g) \/ HangUp(g)
           \/ End \/ Abort \/ Sweep \/ Tick
  <2>1. UNCHANGED <<out, written, nextSeq, mu, postAt, postSeq, copied, acked>>
    BY <1>2
    DEF Download, Attach, FlushHeaders, FlushHeadersFails, InstallWriter, MarkReady,
        SeeDone, SeeHangup, FailHangup, HangUp, End, AskEnd, ReadWritten, DecideEnd, Abort,
        SelectForAbort, AbortSelected, Cancel, Sweep, Reap, FindIdle, FailIdle, Tick, posts
  <2>2. failure' = None => failure = None
    BY <1>2
    DEF Download, Attach, FlushHeaders, FlushHeadersFails, InstallWriter, MarkReady,
        SeeDone, SeeHangup, FailHangup, HangUp, End, AskEnd, ReadWritten, DecideEnd, Abort,
        SelectForAbort, AbortSelected, Cancel, Sweep, Reap, FindIdle, FailIdle, Tick,
        Fail, Complete
  <2> QED
    BY <2>1, <2>2, StreamFrame
<1>3. CASE \E p \in Posts : Upload(p)
  BY <1>3, UploadStreamStep
<1> QED
  BY <1>1, <1>2, <1>3 DEF Next

(* Only the downloads write what is theirs.                               *)
LEMMA DownloadTypesStep == TypeOK /\ [Next]_vars => DownloadTypes'
<1> SUFFICES ASSUME DownloadTypes, [Next]_vars PROVE DownloadTypes'
  BY TypeParts
<1>1. ASSUME NEW g \in Gets, Download(g) PROVE DownloadTypes'
  BY <1>1
  DEF DownloadTypes, Download, Attach, FlushHeaders, FlushHeadersFails, InstallWriter,
      MarkReady, SeeDone, SeeHangup, FailHangup
<1>2. ASSUME NEW g \in Gets, HangUp(g) PROVE DownloadTypes'
  BY <1>2 DEF DownloadTypes, HangUp
<1>3. ASSUME NEW p \in Posts, Upload(p) PROVE DownloadTypes'
  BY <1>3
  DEF DownloadTypes, gets, Upload, PostChunk, SeeReady, GiveUp, Accept, Refuse,
      RefuseOversize, CopyBlock, CopyEnds, CopyFails, Acknowledge, FlushFails
<1>4. CASE End \/ Abort \/ Sweep \/ Tick \/ UNCHANGED vars
  BY <1>4
  DEF DownloadTypes, gets, vars, End, AskEnd, ReadWritten, DecideEnd, Abort,
      SelectForAbort, AbortSelected, Cancel, Sweep, Reap, FindIdle, FailIdle, Tick
<1> QED
  BY <1>1, <1>2, <1>3, <1>4 DEF Next

LEMMA UploadTypesStep == TypeOK /\ [Next]_vars => UploadTypes'
<1> SUFFICES ASSUME UploadTypes, [Next]_vars PROVE UploadTypes'
  BY TypeParts
<1>1. ASSUME NEW p \in Posts, Upload(p) PROVE UploadTypes'
  BY <1>1, SizesAssumption
  DEF UploadTypes, Upload, PostChunk, SeeReady, GiveUp, Accept, Refuse, RefuseOversize,
      CopyBlock, CopyEnds, CopyFails, Acknowledge, FlushFails, Leave
<1>2. CASE UNCHANGED vars
  BY <1>2 DEF vars, posts, UploadTypes
<1>3. ASSUME NEW g \in Gets, Download(g) \/ HangUp(g) PROVE UploadTypes'
  BY <1>3
  DEF UploadTypes, posts, Download, Attach, FlushHeaders, FlushHeadersFails,
      InstallWriter, MarkReady, SeeDone, SeeHangup, FailHangup, HangUp
<1>4. CASE End \/ Abort \/ Sweep \/ Tick
  BY <1>4
  DEF UploadTypes, posts, End, AskEnd, ReadWritten, DecideEnd, Abort,
      SelectForAbort, AbortSelected, Cancel, Sweep, Reap, FindIdle, FailIdle, Tick
<1> QED
  BY <1>1, <1>2, <1>3, <1>4 DEF Next

(* That out stays a sequence of blocks and nextSeq in 0 .. Chunks rests on *)
(* the chunk the holder of mu accepted.                                    *)
LEMMA PipeTypesStep == IInv /\ [Next]_vars => PipeTypes'
<1> SUFFICES ASSUME IInv, [Next]_vars PROVE PipeTypes'
  OBVIOUS
<1>t. PipeTypes /\ UploadTypes /\ StreamInv
  BY TypeParts DEF IInv
<1>1. ASSUME NEW p \in Posts, Upload(p) PROVE PipeTypes'
  <2>1. CASE CopyBlock(p)
    <3>1. postAt[p] = "copying" /\ UNCHANGED <<written, nextSeq, acked>>
          /\ out' = Append(out, Cut[postSeq[p]] + copied[p] + 1)
      BY <2>1 DEF CopyBlock
    <3>2. postSeq[p] \in Nat /\ postSeq[p] < Chunks /\ copied[p] \in Nat
      BY <1>t, <3>1 DEF StreamInv, UploadInv, UploadTypes
    <3>3. Cut[postSeq[p]] \in Nat
      BY <3>2, CutFacts
    <3> QED
      BY <1>t, <3>1, <3>2, <3>3 DEF PipeTypes
  <2>2. CASE CopyEnds(p) \/ CopyFails(p)
    <3>1. UNCHANGED <<nextSeq, acked, out>> /\ written' = written + copied[p]
      BY <2>2 DEF CopyEnds, CopyFails, Count
    <3>2. copied[p] \in Nat
      BY <1>t DEF UploadTypes
    <3> QED
      BY <1>t, <3>1, <3>2 DEF PipeTypes
  <2>3. CASE Acknowledge(p)
    <3>1. /\ postAt[p] = "flushing" /\ UNCHANGED <<written, out>>
          /\ nextSeq' = nextSeq + 1 /\ acked' = acked \cup {postSeq[p]}
      BY <2>3 DEF Acknowledge
    <3>2. postSeq[p] = nextSeq /\ postSeq[p] \in Nat /\ postSeq[p] < Chunks
      BY <1>t, <3>1 DEF StreamInv, UploadInv, Flushing, UploadTypes
    <3>3. nextSeq + 1 \in 0 .. Chunks /\ postSeq[p] \in 0 .. Chunks - 1
      BY <3>2, SizesAssumption
    <3> QED
      BY <1>t, <3>1, <3>3 DEF PipeTypes
  <2>4. CASE ~(CopyBlock(p) \/ CopyEnds(p) \/ CopyFails(p) \/ Acknowledge(p))
    <3>1. UNCHANGED <<written, nextSeq, out, acked>>
      BY <1>1, <2>4
      DEF Upload, PostChunk, SeeReady, GiveUp, Accept, Refuse, RefuseOversize, FlushFails
    <3> QED
      BY <1>t, <3>1 DEF PipeTypes
  <2> QED
    BY <2>1, <2>2, <2>3, <2>4
<1>2. CASE \/ \E g \in Gets : Download(g) \/ HangUp(g)
           \/ End \/ Abort \/ Sweep \/ Tick \/ UNCHANGED vars
  <2>1. UNCHANGED <<written, nextSeq, out, acked>>
    BY <1>2
    DEF Download, Attach, FlushHeaders, FlushHeadersFails, InstallWriter, MarkReady,
        SeeDone, SeeHangup, FailHangup, HangUp, End, AskEnd, ReadWritten, DecideEnd, Abort,
        SelectForAbort, AbortSelected, Cancel, Sweep, Reap, FindIdle, FailIdle, Tick, vars
  <2> QED
    BY <1>t, <2>1 DEF PipeTypes
<1> QED
  BY <1>1, <1>2 DEF Next

(* How done and failure change: failures are recorded, and only a hang-up  *)
(* or ServeEnd completes.                                                  *)
Completes == Complete /\ (DecideEnd \/ \E g \in Gets : SeeHangup(g))

LEMMA OutcomeMoves ==
  ASSUME [Next]_vars
  PROVE  \/ UNCHANGED <<done, failure>>
         \/ \E r \in Reasons : Fail(r)
         \/ Completes
<1> DEFINE Moves == \/ UNCHANGED <<done, failure>>
                    \/ \E r \in Reasons : Fail(r)
                    \/ Completes
<1>1. ASSUME NEW g \in Gets, Download(g) PROVE Moves
  <2>1. FlushHeadersFails(g) => Fail("header flush")
    BY DEF FlushHeadersFails
  <2>2. FailHangup(g) => Fail("receiver disconnected")
    BY DEF FailHangup
  <2>3. SeeHangup(g) => Completes \/ UNCHANGED <<done, failure>>
    BY DEF SeeHangup, Completes
  <2>4. CASE ~(FlushHeadersFails(g) \/ FailHangup(g) \/ SeeHangup(g))
    BY <1>1, <2>4 DEF Download, Attach, FlushHeaders, InstallWriter, MarkReady, SeeDone
  <2> QED
    BY <2>1, <2>2, <2>3, <2>4 DEF Reasons
<1>2. ASSUME NEW p \in Posts, Upload(p) PROVE Moves
  <2>1. RefuseOversize(p) => Fail("oversize")
    BY DEF RefuseOversize
  <2>2. CopyFails(p) => Fail("copy")
    BY DEF CopyFails
  <2>3. FlushFails(p) => Fail("flush")
    BY DEF FlushFails
  <2>4. CASE ~(RefuseOversize(p) \/ CopyFails(p) \/ FlushFails(p))
    BY <1>2, <2>4 DEF Upload, PostChunk, SeeReady, GiveUp, Accept, Refuse, CopyBlock,
                      CopyEnds, Acknowledge
  <2> QED
    BY <2>1, <2>2, <2>3, <2>4 DEF Reasons
<1>3. CASE DecideEnd
  <2>1. Fail("short") \/ Completes
    BY <1>3 DEF DecideEnd, Completes
  <2> QED
    BY <2>1 DEF Reasons
<1>4. CASE AbortSelected \/ Cancel \/ FailIdle
  <2>1. Fail("peer disconnected") \/ Fail("cancelled") \/ Fail("idle")
    BY <1>4 DEF AbortSelected, Cancel, FailIdle
  <2> QED
    BY <2>1 DEF Reasons
<1>5. CASE \/ \E g \in Gets : HangUp(g)
           \/ AskEnd \/ ReadWritten \/ SelectForAbort \/ Reap \/ FindIdle \/ Tick
           \/ UNCHANGED vars
  BY <1>5 DEF HangUp, AskEnd, ReadWritten, SelectForAbort, Reap, FindIdle, Tick, vars
<1> QED
  BY <1>1, <1>2, <1>3, <1>4, <1>5 DEF Next, End, Abort, Sweep

LEMMA OutcomeTypesStep == TypeOK /\ [Next]_vars => OutcomeTypes'
<1> SUFFICES ASSUME OutcomeTypes, [Next]_vars PROVE OutcomeTypes'
  BY TypeParts
<1>1. ASSUME NEW r \in Reasons, Fail(r) PROVE OutcomeTypes'
  BY <1>1 DEF Fail, OutcomeTypes
<1>2. Complete \/ UNCHANGED <<done, failure>> => OutcomeTypes'
  BY DEF Complete, OutcomeTypes
<1> QED
  BY <1>1, <1>2, OutcomeMoves DEF Completes

LEMMA TableTypesStep == TypeOK /\ [Next]_vars => TableTypes'
<1> SUFFICES ASSUME TableTypes, written \in Nat, [Next]_vars PROVE TableTypes'
  BY TypeParts DEF PipeTypes
<1>1. CASE End
  <2>1. CASE AskEnd
    BY <2>1 DEF TableTypes, AskEnd
  <2>2. CASE ReadWritten
    BY <2>2 DEF TableTypes, ReadWritten
  <2>3. CASE DecideEnd
    BY <2>3 DEF TableTypes, DecideEnd
  <2> QED
    BY <1>1, <2>1, <2>2, <2>3 DEF End
<1>2. CASE Abort
  BY <1>2 DEF TableTypes, ends, Abort, SelectForAbort, AbortSelected, Cancel
<1>3. CASE Sweep
  BY <1>3 DEF TableTypes, ends, Sweep, Reap, FindIdle, FailIdle
<1>4. ASSUME NEW p \in Posts, Upload(p) PROVE TableTypes'
  BY <1>4
  DEF TableTypes, ends, Upload, PostChunk, SeeReady, GiveUp, Accept, Refuse,
      RefuseOversize, CopyBlock, CopyEnds, CopyFails, Acknowledge, FlushFails
<1>5. ASSUME NEW g \in Gets, Download(g) PROVE TableTypes'
  BY <1>5
  DEF TableTypes, ends, Download, Attach, FlushHeaders, FlushHeadersFails, InstallWriter,
      MarkReady, SeeDone, SeeHangup, FailHangup
<1>6. CASE (\E g \in Gets : HangUp(g)) \/ Tick \/ UNCHANGED vars
  BY <1>6 DEF TableTypes, ends, HangUp, Tick, vars
<1> QED
  BY <1>1, <1>2, <1>3, <1>4, <1>5, <1>6 DEF Next

LEMMA ClockTypesStep == TypeOK /\ [Next]_vars => ClockTypes'
<1> SUFFICES ASSUME ClockTypes, [Next]_vars PROVE ClockTypes'
  BY TypeParts
<1>1. CASE Tick
  BY <1>1, SizesAssumption DEF ClockTypes, Tick, Capped
<1>2. ASSUME NEW p \in Posts, Upload(p) PROVE ClockTypes'
  BY <1>2, SizesAssumption
  DEF ClockTypes, clock, Upload, PostChunk, SeeReady, GiveUp, Accept, Refuse,
      RefuseOversize, CopyBlock, CopyEnds, CopyFails, Acknowledge, FlushFails, Count
<1>3. ASSUME NEW g \in Gets, MarkReady(g) PROVE ClockTypes'
  BY <1>3, SizesAssumption DEF ClockTypes, MarkReady
<1>4. ASSUME NEW g \in Gets, Download(g), ~MarkReady(g) PROVE ClockTypes'
  BY <1>4
  DEF ClockTypes, clock, Download, Attach, FlushHeaders, FlushHeadersFails, InstallWriter,
      SeeDone, SeeHangup, FailHangup
<1>5. CASE (\E g \in Gets : HangUp(g)) \/ End \/ Abort \/ Sweep \/ UNCHANGED vars
  BY <1>5
  DEF ClockTypes, clock, HangUp, End, AskEnd, ReadWritten, DecideEnd, Abort, vars,
      SelectForAbort, AbortSelected, Cancel, Sweep, Reap, FindIdle, FailIdle
<1> QED
  BY <1>1, <1>2, <1>3, <1>4, <1>5 DEF Next

LEMMA TypeStep == IInv /\ [Next]_vars => TypeOK'
<1>1. IInv /\ [Next]_vars => (/\ UploadTypes /\ PipeTypes /\ DownloadTypes
                              /\ OutcomeTypes /\ TableTypes /\ ClockTypes)'
  BY UploadTypesStep, PipeTypesStep, DownloadTypesStep, OutcomeTypesStep,
     TableTypesStep, ClockTypesStep DEF IInv
<1> QED
  BY <1>1, TypeParts, PTL

(* The record of the outcome changes only where done closes, and what it   *)
(* claims of the stream stays true because the stream only grows.          *)
LEMMA OutcomeFrame ==
  ASSUME IInv, StreamInv', PipeTypes', Len(out) <= Len(out'),
         listed' \/ done',
         endAt' = "ok" => endAt = "ok" \/ Len(out) = Size,
         endAt' = "deciding" => endSaw' <= Len(out'),
         done' /\ failure' = None => (done /\ failure = None) \/ Len(out) = Size
  PROVE  OutcomeInv'
<1>1. Len(out') <= Size
  BY DEF StreamInv, WithinSize
<1>2. Len(out) \in Nat /\ Len(out') \in Nat
  <2>1. out \in Seq(Nat) /\ out' \in Seq(Nat)
    BY DEF IInv, TypeOK, PipeTypes
  <2> QED
    BY <2>1
<1>3. Len(out) = Size => Len(out') = Size
  BY <1>1, <1>2, SizesAssumption
<1> QED
  BY <1>3 DEF IInv, OutcomeInv, EndOkWhole, CompleteMeansWhole

(* A transfer ends without a failure only through ServeEnd's comparison or *)
(* a hang-up after the whole payload was counted.                          *)
LEMMA OutcomeStep == IInv /\ [Next]_vars => OutcomeInv'
<1> SUFFICES ASSUME IInv, [Next]_vars PROVE OutcomeInv'
  OBVIOUS
<1>1. StreamInv' /\ PipeTypes'
  BY StreamStep, PipeTypesStep
<1>2. /\ written \in Nat /\ out \in Seq(Nat) /\ Len(out) \in Nat /\ written <= Len(out)
      /\ Len(out) <= Size
      /\ endSaw \in Nat /\ (endAt = "deciding" => endSaw <= Len(out))
  <2>1. written \in Nat /\ out \in Seq(Nat) /\ endSaw \in Nat
    BY DEF IInv, TypeOK
  <2>2. written <= Len(out) /\ Len(out) <= Size
    BY DEF IInv, StreamInv, WithinSize
  <2>3. endAt = "deciding" => endSaw <= Len(out)
    BY DEF IInv, OutcomeInv
  <2> QED
    BY <2>1, <2>2, <2>3
<1>3. Len(out) <= Len(out')
  <2>1. CASE UNCHANGED out
    BY <1>2, <2>1
  <2>2. ASSUME NEW p \in Posts, CopyBlock(p) PROVE Len(out) <= Len(out')
    BY <1>2, <2>2 DEF CopyBlock
  <2>3. UNCHANGED out \/ \E p \in Posts : CopyBlock(p)
    BY DEF Next, Upload, PostChunk, SeeReady, GiveUp, Accept, Refuse, RefuseOversize,
           CopyEnds, CopyFails, Acknowledge, FlushFails,
           Download, Attach, FlushHeaders, FlushHeadersFails, InstallWriter, MarkReady,
           SeeDone, SeeHangup, FailHangup, HangUp, End, AskEnd, ReadWritten, DecideEnd,
           Abort, SelectForAbort, AbortSelected, Cancel, Sweep, Reap, FindIdle, FailIdle,
           Tick, vars
  <2> QED
    BY <2>1, <2>2, <2>3
<1>9. listed' \/ done'
  <2>1. done => done'
    BY OutcomeMoves DEF Fail, Complete, Completes
  <2>2. UNCHANGED listed \/ done
    <3>1. CASE Reap
      BY <3>1 DEF Reap, Expired
    <3>2. CASE ~Reap
      BY <3>2
      DEF Next, Upload, PostChunk, SeeReady, GiveUp, Accept, Refuse, RefuseOversize,
          CopyBlock, CopyEnds, CopyFails, Acknowledge, FlushFails,
          Download, Attach, FlushHeaders, FlushHeadersFails, InstallWriter, MarkReady,
          SeeDone, SeeHangup, FailHangup, HangUp, End, AskEnd, ReadWritten, DecideEnd,
          Abort, SelectForAbort, AbortSelected, Cancel, Sweep, FindIdle, FailIdle,
          Tick, vars
    <3> QED
      BY <3>1, <3>2
  <2> QED
    BY <2>1, <2>2 DEF IInv, OutcomeInv
<1>4. CASE DecideEnd
  <2>1. endAt' # "deciding"
    BY <1>4 DEF DecideEnd
  <2>2. EndsShort => failure' # None /\ endAt' # "ok"
    BY <1>4, NoneAssumption DEF DecideEnd, Fail, Reasons
  <2>3. ~EndsShort => Len(out) = Size
    BY <1>2, <1>4, SizesAssumption DEF DecideEnd, EndsShort
  <2> QED
    BY <1>1, <1>3, <1>9, <2>1, <2>2, <2>3, OutcomeFrame
<1>5. CASE ReadWritten
  <2>1. endSaw' <= Len(out') /\ endAt' # "ok" /\ UNCHANGED <<done, failure>>
    BY <1>2, <1>5 DEF ReadWritten
  <2> QED
    BY <1>1, <1>3, <1>9, <2>1, OutcomeFrame
<1>6. ASSUME NEW g \in Gets, SeeHangup(g) PROVE OutcomeInv'
  <2>1. UNCHANGED <<endAt, endSaw, out>>
    BY <1>6 DEF SeeHangup, ends
  <2>2. ReceiverHasAll => Len(out) = Size
    BY <1>2, SizesAssumption DEF ReceiverHasAll
  <2>3. ~ReceiverHasAll => UNCHANGED <<done, failure>>
    BY <1>6 DEF SeeHangup
  <2> QED
    BY <1>1, <1>2, <1>3, <1>9, <2>1, <2>2, <2>3, OutcomeFrame
<1>7. CASE AskEnd
  <2>1. endAt' \notin {"ok", "deciding"} /\ UNCHANGED <<done, failure>>
    BY <1>7 DEF AskEnd
  <2> QED
    BY <1>1, <1>3, <1>9, <2>1, OutcomeFrame
<1>8. CASE ~(DecideEnd \/ ReadWritten \/ AskEnd \/ \E g \in Gets : SeeHangup(g))
  <2>1. UNCHANGED <<endAt, endSaw>>
    BY <1>8
    DEF Next, Upload, PostChunk, SeeReady, GiveUp, Accept, Refuse, RefuseOversize,
        CopyBlock, CopyEnds, CopyFails, Acknowledge, FlushFails,
        Download, Attach, FlushHeaders, FlushHeadersFails, InstallWriter, MarkReady,
        SeeDone, SeeHangup, FailHangup, HangUp, End, Abort, SelectForAbort, AbortSelected,
        Cancel, Sweep, Reap, FindIdle, FailIdle, Tick, vars, ends
  <2>2. UNCHANGED <<done, failure>> \/ failure' # None
    BY <1>8, OutcomeMoves, NoneAssumption DEF Completes, Fail
  <2>3. endAt' = "deciding" => endSaw' <= Len(out')
    BY <1>1, <1>2, <1>3, <2>1 DEF PipeTypes
  <2> QED
    BY <1>1, <1>3, <1>9, <2>1, <2>2, <2>3, OutcomeFrame
<1> QED
  BY <1>4, <1>5, <1>6, <1>7, <1>8

-----------------------------------------------------------------------------
(* IInv is inductive.                                                      *)
THEOREM Invariant == Spec => []IInv
<1>1. IInv /\ [Next]_vars => IInv'
  BY TypeStep, WriterStep, LockStep, StreamStep, OutcomeStep DEF IInv
<1> QED
  BY InitIInv, <1>1, PTL DEF Spec

(* Every variable stays in its range: the mutex and the writer only ever   *)
(* name handlers that exist, and nextSeq never passes the last chunk.      *)
THEOREM Typing == Spec => []TypeOK
<1>1. IInv => TypeOK
  BY DEF IInv
<1> QED
  BY <1>1, Invariant, PTL

(* The receiver's stream is the payload from its start, whatever chunks    *)
(* the uploads of ServeUpload race to send.                                *)
THEOREM Ordered == Spec => []InOrder
<1>1. IInv => InOrder
  BY DEF IInv, StreamInv
<1> QED
  BY <1>1, Invariant, PTL

(* The download never outgrows the Content-Length ServeDownload declared.  *)
THEOREM Bounded == Spec => []WithinSize
<1>1. IInv => WithinSize
  BY DEF IInv, StreamInv
<1> QED
  BY <1>1, Invariant, PTL

(* A chunk ServeUpload answered with 204 is on the receiver's connection.  *)
THEOREM Acknowledged == Spec => []AckedDelivered
<1>1. IInv => AckedDelivered
  BY DEF IInv, StreamInv
<1> QED
  BY <1>1, Invariant, PTL

(* ServeEnd answers well only for a whole transfer.                        *)
THEOREM EndTruthful == Spec => []EndOkWhole
<1>1. IInv => EndOkWhole
  BY DEF IInv, OutcomeInv
<1> QED
  BY <1>1, Invariant, PTL

(* A transfer that is over without a failure gave the receiver everything. *)
THEOREM NoSilentTruncation == Spec => []CompleteMeansWhole
<1>1. IInv => CompleteMeansWhole
  BY DEF IInv, OutcomeInv
<1> QED
  BY <1>1, Invariant, PTL

(* io.Copy never runs before ServeDownload has installed dst.              *)
THEOREM WriterInstalled == Spec => []CopyHasWriter
<1>1. IInv => CopyHasWriter
  BY DEF IInv, WriterInv, CopyHasWriter
<1> QED
  BY <1>1, Invariant, PTL

(* Of any number of concurrent downloads only one ever installs its        *)
(* writer: dst is never replaced.                                          *)
THEOREM SingleReceiver == Spec => OneReceiver
<1>1. IInv /\ [Next]_vars => [writer # None => writer' = writer]_vars
  <2> SUFFICES ASSUME IInv, [Next]_vars, writer # None PROVE writer' = writer
    OBVIOUS
  <2>1. ASSUME NEW g \in Gets, InstallWriter(g) PROVE FALSE
    <3>1. getAt[g] = "installing" /\ writer \in Gets
      BY <2>1 DEF InstallWriter, IInv, TypeOK
    <3>2. Attached(g) /\ Attached(writer) /\ writer # g
      BY <3>1 DEF IInv, WriterInv, Attached
    <3> QED
      BY <3>1, <3>2 DEF IInv, WriterInv
  <2>2. UNCHANGED writer \/ \E g \in Gets : InstallWriter(g)
    BY DEF Next, Upload, PostChunk, SeeReady, GiveUp, Accept, Refuse, RefuseOversize,
           CopyBlock, CopyEnds, CopyFails, Acknowledge, FlushFails,
           Download, Attach, FlushHeaders, FlushHeadersFails, MarkReady,
           SeeDone, SeeHangup, FailHangup, HangUp, End, AskEnd, ReadWritten, DecideEnd,
           Abort, SelectForAbort, AbortSelected, Cancel, Sweep, Reap, FindIdle, FailIdle,
           Tick, vars
  <2> QED
    BY <2>1, <2>2
<1> QED
  BY <1>1, Invariant, PTL DEF Spec, OneReceiver

(* What CopyBlock puts on the connection is the block the pipe passes next. *)
LEMMA CopyAppends ==
  ASSUME IInv, NEW p \in Posts, CopyBlock(p)
  PROVE  Len(out) < Size /\ out' = Append(out, Len(out) + 1)
<1>1. /\ postAt[p] = "copying" /\ copied[p] < ChunkLen(postSeq[p])
      /\ out' = Append(out, Cut[postSeq[p]] + copied[p] + 1)
  BY DEF CopyBlock
<1>2. Copying(p) /\ postSeq[p] < Chunks
  BY <1>1 DEF IInv, StreamInv, UploadInv
<1>3. /\ written \in Nat /\ copied \in [Posts -> Nat] /\ postSeq \in [Posts -> Nat]
      /\ out \in Seq(Nat)
  BY DEF IInv, TypeOK
<1>4. /\ Cut[nextSeq] \in Nat /\ Cut[nextSeq + 1] \in Nat /\ ChunkLen(nextSeq) \in Nat
      /\ Cut[nextSeq] + ChunkLen(nextSeq) = Cut[nextSeq + 1]
  BY <1>2, <1>3, CutFacts DEF Copying
<1>5. /\ written = Cut[nextSeq] /\ Cut[nextSeq + 1] <= Size /\ postSeq[p] = nextSeq
      /\ Len(out) = written + copied[p]
  BY <1>2 DEF Copying
<1>6. Cut[postSeq[p]] + copied[p] + 1 = Len(out) + 1
  BY <1>3, <1>4, <1>5
<1>7. copied[p] \in Nat /\ copied[p] < ChunkLen(nextSeq)
  BY <1>1, <1>3, <1>5
<1>8. Len(out) < Size
  BY <1>3, <1>4, <1>5, <1>7, SizesAssumption
<1> QED
  BY <1>1, <1>6, <1>8

(* What the receiver's connection got is the payload from its start and    *)
(* within the declared size.                                               *)
THEOREM PrefixKept == Spec => []StreamIsPrefix
<1>1. InOrder /\ WithinSize => StreamIsPrefix
  BY DEF StreamIsPrefix
<1> QED
  BY <1>1, Ordered, Bounded, PTL

(* No good answer of ServeUpload or ServeEnd is a false one.               *)
THEOREM Truthful == Spec => []AnswersAreTrue
<1>1. AckedDelivered /\ EndOkWhole => AnswersAreTrue
  BY DEF AnswersAreTrue
<1> QED
  BY <1>1, Acknowledged, EndTruthful, PTL

(* The relay's handlers, locks, chunks and watchdog implement the pipe     *)
(* that passes the payload in order and answers the sender truthfully.     *)
THEOREM Refinement == Spec => Pipe!Spec
<1>1. Init => Pipe!Init
  BY DEF Init, Pipe!Init, Told
<1>2. IInv /\ [Next]_vars => [Pipe!Next]_(Pipe!pipeVars)
  <2> SUFFICES ASSUME IInv, [Next]_vars PROVE Pipe!Next \/ UNCHANGED <<out, done, Told>>
    BY DEF Pipe!pipeVars
  <2>1. ASSUME NEW p \in Posts, CopyBlock(p) PROVE Pipe!Pass
    <3>1. UNCHANGED <<done, Told>>
      BY <2>1 DEF CopyBlock, ends, Told
    <3> QED
      BY <2>1, <3>1, CopyAppends DEF Pipe!Pass
  <2>2. CASE DecideEnd
    <3>1. UNCHANGED out /\ done' /\ Told = "nothing"
      BY <2>2 DEF DecideEnd, Fail, Complete, Told
    <3>2. CASE EndsShort
      <4>1. Told' = "failed"
        BY <2>2, <3>2 DEF DecideEnd, Told
      <4> QED
        BY <3>1, <4>1 DEF Pipe!Next, Pipe!TellFailed
    <3>3. CASE ~EndsShort
      <4>1. Told' = "ok" /\ endAt' = "ok"
        BY <2>2, <3>3 DEF DecideEnd, Told
      <4>2. Len(out) = Size
        BY <3>1, <4>1, OutcomeStep DEF OutcomeInv, EndOkWhole
      <4> QED
        BY <3>1, <4>1, <4>2 DEF Pipe!Next, Pipe!TellOk
    <3> QED
      BY <3>2, <3>3
  <2>3. CASE AskEnd
    <3>1. UNCHANGED <<out, done>> /\ Told = "nothing"
      BY <2>3 DEF AskEnd, Told
    <3>2. CASE listed
      <4>1. Told' = "nothing"
        BY <2>3, <3>2 DEF AskEnd, Told
      <4> QED
        BY <3>1, <4>1
    <3>3. CASE ~listed
      <4>1. Told' = "failed" /\ done
        BY <2>3, <3>3 DEF AskEnd, Told, IInv, OutcomeInv
      <4> QED
        BY <3>1, <4>1 DEF Pipe!Next, Pipe!TellGone
    <3> QED
      BY <3>2, <3>3
  <2>4. CASE ~(DecideEnd \/ AskEnd \/ \E p \in Posts : CopyBlock(p))
    <3>1. UNCHANGED out
      BY <2>4
      DEF Next, Upload, PostChunk, SeeReady, GiveUp, Accept, Refuse, RefuseOversize,
          CopyEnds, CopyFails, Acknowledge, FlushFails,
          Download, Attach, FlushHeaders, FlushHeadersFails, InstallWriter, MarkReady,
          SeeDone, SeeHangup, FailHangup, HangUp, End, ReadWritten, Abort, SelectForAbort,
          AbortSelected, Cancel, Sweep, Reap, FindIdle, FailIdle, Tick, vars
    <3>2. UNCHANGED endAt \/ ReadWritten
      BY <2>4
      DEF Next, Upload, PostChunk, SeeReady, GiveUp, Accept, Refuse, RefuseOversize,
          CopyEnds, CopyFails, Acknowledge, FlushFails,
          Download, Attach, FlushHeaders, FlushHeadersFails, InstallWriter, MarkReady,
          SeeDone, SeeHangup, FailHangup, HangUp, End, Abort, SelectForAbort,
          AbortSelected, Cancel, Sweep, Reap, FindIdle, FailIdle, Tick, vars, ends
    <3>3. UNCHANGED Told
      BY <3>2 DEF ReadWritten, Told
    <3>4. UNCHANGED done \/ done' = TRUE
      BY <2>4
      DEF Next, Upload, PostChunk, SeeReady, GiveUp, Accept, Refuse, RefuseOversize,
          CopyEnds, CopyFails, Acknowledge, FlushFails,
          Download, Attach, FlushHeaders, FlushHeadersFails, InstallWriter, MarkReady,
          SeeDone, SeeHangup, FailHangup, HangUp, End, ReadWritten, Abort, SelectForAbort,
          AbortSelected, Cancel, Sweep, Reap, FindIdle, FailIdle, Tick, vars, Fail, Complete
    <3> QED
      BY <3>1, <3>3, <3>4 DEF Pipe!Next, Pipe!Close
  <2> QED
    BY <2>1, <2>2, <2>3, <2>4 DEF Pipe!Next
<1> QED
  BY <1>1, <1>2, Invariant, PTL DEF Spec, Pipe!Spec
=============================================================================
