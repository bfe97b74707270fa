--------------------------- MODULE RelayTransfer ---------------------------
(***************************************************************************)
(* One transfer of the relay's data plane (internal/relay/rendezvous.go):  *)
(* the byte pipe between the sender's POSTs and the receiver's GET.        *)
(*                                                                         *)
(* Every goroutine that touches a `transfer` is here, one action per step  *)
(* between two points where another goroutine can run: the ServeUpload     *)
(* handlers (Posts), the ServeDownload handlers (Gets), ServeEnd, the      *)
(* watchdog of Run/sweep, AbortForPeer and the Abort behind transfer_end.  *)
(* The mutex x.mu is held by an upload across its whole copy.              *)
(*                                                                         *)
(* The payload is a row of blocks 1..Cut[Chunks]; chunk k carries blocks   *)
(* Cut[k]+1 .. Cut[k+1].  Size is what transfer_begin declared, and need   *)
(* not agree with the payload.  Time is counted in ticks that saturate one *)
(* past the limit they are compared with.                                  *)
(***************************************************************************)
EXTENDS Naturals, Sequences

CONSTANTS
  Size,      \* blocks declared by transfer_begin (transfer.size)
  Chunks,    \* chunks the sender cuts its payload into
  Cut,       \* Cut[k] is where chunk k starts in the payload
  MaxChunk,  \* Limits.MaxChunkBytes, in blocks
  Posts,     \* ServeUpload handlers that may run at once
  Gets,      \* ServeDownload handlers
  Wait,      \* Limits.RendezvousWait, in ticks
  Idle,      \* Limits.TransferIdleTTL, in ticks
  None       \* no handler, no failure

ASSUME SizesAssumption ==
  /\ Size \in Nat /\ Chunks \in Nat /\ MaxChunk \in Nat
  /\ Wait \in Nat /\ Idle \in Nat

ASSUME CutAssumption ==
  /\ Cut \in [0 .. Chunks -> Nat]
  /\ Cut[0] = 0
  /\ \A k \in 0 .. Chunks - 1 : Cut[k] < Cut[k + 1]

Reasons == {"header flush", "receiver disconnected", "oversize", "copy",
            "flush", "short", "peer disconnected", "cancelled", "idle"}

ASSUME NoneAssumption == None \notin Posts \cup Gets \cup Reasons

VARIABLES
  listed,    \* the transfer is in Rendezvous.transfers
  attached,  \* transfer.attached
  ready,     \* transfer.ready is closed
  done,      \* transfer.done is closed
  failure,   \* transfer.failure: the first one recorded
  writer,    \* the Get whose ResponseWriter is transfer.dst
  mu,        \* the Post that holds transfer.mu
  written,   \* transfer.written
  nextSeq,   \* transfer.nextSeq
  postAt, postSeq, copied,   \* each upload: where it is, its seq, io.Copy's n
  getAt, open,               \* each download: where it is, its connection
  endAt, endSaw,             \* ServeEnd: where it is, the written it read
  abortAt,                   \* AbortForPeer of one of the two peers
  sweepAt,                   \* the watchdog
  age, quiet,                \* ticks since created, since lastData
  out,       \* the blocks put on the receiver's connection, in order
  acked      \* the chunks whose sender was answered 204

posts == <<postAt, postSeq, copied>>
gets  == <<getAt, open>>
ends  == <<endAt, endSaw>>
clock == <<age, quiet>>
vars == <<listed, attached, ready, done, failure, writer, mu, written, nextSeq,
          posts, gets, ends, abortAt, sweepAt, clock, out, acked>>

ChunkLen(k) == Cut[k + 1] - Cut[k]

(* A clock reading is exact up to its limit and then says only "later".    *)
Capped(n, max) == IF n > max THEN n ELSE n + 1

Init ==
  /\ listed = TRUE /\ attached = FALSE /\ ready = FALSE /\ done = FALSE
  /\ failure = None /\ writer = None /\ mu = None
  /\ written = 0 /\ nextSeq = 0
  /\ postAt = [p \in Posts |-> "idle"]
  /\ postSeq = [p \in Posts |-> 0] /\ copied = [p \in Posts |-> 0]
  /\ getAt = [g \in Gets |-> "idle"] /\ open = [g \in Gets |-> TRUE]
  /\ endAt = "idle" /\ endSaw = 0 /\ abortAt = "idle" /\ sweepAt = "idle"
  /\ age = 0 /\ quiet = 0
  /\ out = <<>> /\ acked = {}

-----------------------------------------------------------------------------
(* transfer.fail keeps the first failure and then closes done.             *)
Fail(reason) ==
  /\ failure' = IF failure = None THEN reason ELSE failure
  /\ done' = TRUE

(* transfer.complete closes done and records nothing.                      *)
Complete == done' = TRUE /\ UNCHANGED failure

(* A write reaches the kernel unless the handler that owns the connection  *)
(* has returned and the connection is closed.                              *)
Writable(g) == open[g] \/ getAt[g] # "returned"

-----------------------------------------------------------------------------
(* ServeDownload.                                                          *)

TakenAlreadyMutant == FALSE
(* attached.CompareAndSwap(false, true) fails: 409.                        *)
TakenAlready == attached

Attach(g) ==
  /\ getAt[g] = "idle" /\ listed
  /\ IF TakenAlready
     THEN getAt' = [getAt EXCEPT ![g] = "refused"] /\ UNCHANGED attached
     ELSE getAt' = [getAt EXCEPT ![g] = "headers"] /\ attached' = TRUE
  /\ UNCHANGED <<listed, ready, done, failure, writer, mu, written, nextSeq, posts,
                 open, ends, abortAt, sweepAt, clock, out, acked>>

FlushHeaders(g) ==
  /\ getAt[g] = "headers"
  /\ getAt' = [getAt EXCEPT ![g] = "installing"]
  /\ UNCHANGED <<listed, attached, ready, done, failure, writer, mu, written, nextSeq,
                 posts, open, ends, abortAt, sweepAt, clock, out, acked>>

FlushHeadersFails(g) ==
  /\ getAt[g] = "headers" /\ ~open[g]
  /\ Fail("header flush")
  /\ getAt' = [getAt EXCEPT ![g] = "returned"]
  /\ UNCHANGED <<listed, attached, ready, writer, mu, written, nextSeq,
                 posts, open, ends, abortAt, sweepAt, clock, out, acked>>

InstallWriter(g) ==
  /\ getAt[g] = "installing" /\ mu = None
  /\ writer' = g
  /\ getAt' = [getAt EXCEPT ![g] = "marking"]
  /\ UNCHANGED <<listed, attached, ready, done, failure, mu, written, nextSeq,
                 posts, open, ends, abortAt, sweepAt, clock, out, acked>>

(* touch, then markReady: the waiting uploads go on.                       *)
MarkReady(g) ==
  /\ getAt[g] = "marking"
  /\ quiet' = 0 /\ ready' = TRUE
  /\ getAt' = [getAt EXCEPT ![g] = "streaming"]
  /\ UNCHANGED <<listed, attached, done, failure, writer, mu, written, nextSeq,
                 posts, open, ends, abortAt, sweepAt, age, out, acked>>

SettledMutant == done /\ failure = None
Settled == done

SeeDone(g) ==
  /\ getAt[g] = "streaming" /\ Settled
  /\ getAt' = [getAt EXCEPT ![g] = "returned"]
  /\ UNCHANGED <<listed, attached, ready, done, failure, writer, mu, written, nextSeq,
                 posts, open, ends, abortAt, sweepAt, clock, out, acked>>

ReceiverHasAllMutant == written + 1 >= Size
ReceiverHasAll == written >= Size

(* The request's context ends: all of the payload counted means finished.  *)
SeeHangup(g) ==
  /\ getAt[g] = "streaming" /\ ~open[g]
  /\ IF ReceiverHasAll
     THEN Complete /\ getAt' = [getAt EXCEPT ![g] = "returned"]
     ELSE getAt' = [getAt EXCEPT ![g] = "failing"] /\ UNCHANGED <<done, failure>>
  /\ UNCHANGED <<listed, attached, ready, writer, mu, written, nextSeq,
                 posts, open, ends, abortAt, sweepAt, clock, out, acked>>

FailHangup(g) ==
  /\ getAt[g] = "failing"
  /\ Fail("receiver disconnected")
  /\ getAt' = [getAt EXCEPT ![g] = "returned"]
  /\ UNCHANGED <<listed, attached, ready, writer, mu, written, nextSeq,
                 posts, open, ends, abortAt, sweepAt, clock, out, acked>>

(* The connection closes: the receiver hangs up, or the server closes it   *)
(* after the handler has returned.                                         *)
HangUp(g) ==
  /\ getAt[g] \notin {"idle", "refused"} /\ open[g]
  /\ open' = [open EXCEPT ![g] = FALSE]
  /\ UNCHANGED <<listed, attached, ready, done, failure, writer, mu, written, nextSeq,
                 posts, getAt, ends, abortAt, sweepAt, clock, out, acked>>

-----------------------------------------------------------------------------
(* ServeUpload.                                                            *)

PostChunk(p, k) ==
  /\ postAt[p] = "idle" /\ listed
  /\ postAt' = [postAt EXCEPT ![p] = "waiting"]
  /\ postSeq' = [postSeq EXCEPT ![p] = k]
  /\ UNCHANGED <<listed, attached, ready, done, failure, writer, mu, written, nextSeq,
                 copied, gets, ends, abortAt, sweepAt, clock, out, acked>>

SeeReady(p) ==
  /\ postAt[p] = "waiting" /\ ready
  /\ postAt' = [postAt EXCEPT ![p] = "locking"]
  /\ UNCHANGED <<listed, attached, ready, done, failure, writer, mu, written, nextSeq,
                 postSeq, copied, gets, ends, abortAt, sweepAt, clock, out, acked>>

(* The handler returns.                                                    *)
Leave(p) ==
  /\ postAt' = [postAt EXCEPT ![p] = "idle"]
  /\ postSeq' = [postSeq EXCEPT ![p] = 0]
  /\ copied' = [copied EXCEPT ![p] = 0]

(* done closed (410), the sender's request ended, or RendezvousWait passed *)
(* (408); with ready also closed, select may still choose this branch.     *)
GiveUp(p) ==
  /\ postAt[p] = "waiting"
  /\ Leave(p)
  /\ UNCHANGED <<listed, attached, ready, done, failure, writer, mu, written, nextSeq,
                 gets, ends, abortAt, sweepAt, clock, out, acked>>

(* The checks made under mu, in the code's order.                          *)
Failed == failure # None

OutOfOrderMutant(p) == postSeq[p] < nextSeq
OutOfOrder(p) == postSeq[p] # nextSeq

TooLong(p) == ChunkLen(postSeq[p]) > MaxChunk

OversizeMutant(p) == written > Size
Oversize(p) == written + ChunkLen(postSeq[p]) > Size

Accept(p) ==
  /\ postAt[p] = "locking" /\ mu = None
  /\ ~Failed /\ ~OutOfOrder(p) /\ ~TooLong(p) /\ ~Oversize(p)
  /\ mu' = p
  /\ postAt' = [postAt EXCEPT ![p] = "copying"]
  /\ UNCHANGED <<listed, attached, ready, done, failure, writer, written, nextSeq,
                 postSeq, copied, gets, ends, abortAt, sweepAt, clock, out, acked>>

(* 410, 409, 411 or 413: nothing changes.  (A request without a            *)
(* Content-Length is not distinguished from one that is too long.)         *)
Refuse(p) ==
  /\ postAt[p] = "locking" /\ mu = None
  /\ Failed \/ OutOfOrder(p) \/ TooLong(p)
  /\ Leave(p)
  /\ UNCHANGED <<listed, attached, ready, done, failure, writer, mu, written, nextSeq,
                 gets, ends, abortAt, sweepAt, clock, out, acked>>

RefuseOversize(p) ==
  /\ postAt[p] = "locking" /\ mu = None
  /\ ~Failed /\ ~OutOfOrder(p) /\ ~TooLong(p) /\ Oversize(p)
  /\ Fail("oversize")
  /\ Leave(p)
  /\ UNCHANGED <<listed, attached, ready, writer, mu, written, nextSeq,
                 gets, ends, abortAt, sweepAt, clock, out, acked>>

(* One block of io.Copy(x.dst, body).                                      *)
CopyBlock(p) ==
  /\ postAt[p] = "copying" /\ copied[p] < ChunkLen(postSeq[p])
  /\ Writable(writer)
  /\ out' = Append(out, Cut[postSeq[p]] + copied[p] + 1)
  /\ copied' = [copied EXCEPT ![p] = @ + 1]
  /\ UNCHANGED <<listed, attached, ready, done, failure, writer, mu, written, nextSeq,
                 postAt, postSeq, gets, ends, abortAt, sweepAt, clock, acked>>

(* io.Copy has returned: only now are its bytes counted and the watchdog's *)
(* clock reset.                                                            *)
Count(p) ==
  /\ written' = written + copied[p]
  /\ quiet' = IF copied[p] > 0 THEN 0 ELSE quiet

BodyCopiedMutant(p) == copied[p] > 0
BodyCopied(p) == copied[p] = ChunkLen(postSeq[p])

CopyEnds(p) ==
  /\ postAt[p] = "copying" /\ BodyCopied(p)
  /\ Count(p)
  /\ postAt' = [postAt EXCEPT ![p] = "flushing"]
  /\ UNCHANGED <<listed, attached, ready, done, failure, writer, mu, nextSeq,
                 postSeq, copied, gets, ends, abortAt, sweepAt, age, out, acked>>

(* The receiver's connection or the sender's body broke: 502.              *)
CopyFails(p) ==
  /\ postAt[p] = "copying"
  /\ Count(p) /\ Fail("copy")
  /\ mu' = None
  /\ Leave(p)
  /\ UNCHANGED <<listed, attached, ready, writer, nextSeq,
                 gets, ends, abortAt, sweepAt, age, out, acked>>

(* flush, nextSeq++ and 204.                                               *)
Acknowledge(p) ==
  /\ postAt[p] = "flushing" /\ Writable(writer)
  /\ nextSeq' = nextSeq + 1
  /\ acked' = acked \cup {postSeq[p]}
  /\ mu' = None
  /\ Leave(p)
  /\ UNCHANGED <<listed, attached, ready, done, failure, writer, written,
                 gets, ends, abortAt, sweepAt, clock, out>>

FlushFails(p) ==
  /\ postAt[p] = "flushing" /\ ~open[writer]
  /\ Fail("flush")
  /\ mu' = None
  /\ Leave(p)
  /\ UNCHANGED <<listed, attached, ready, writer, written, nextSeq,
                 gets, ends, abortAt, sweepAt, clock, out, acked>>

-----------------------------------------------------------------------------
(* ServeEnd.  The sender asks once.                                        *)

AskEnd ==
  /\ endAt = "idle"
  /\ endAt' = IF listed THEN "locking" ELSE "not found"
  /\ UNCHANGED <<listed, attached, ready, done, failure, writer, mu, written, nextSeq,
                 posts, gets, endSaw, abortAt, sweepAt, clock, out, acked>>

ReadWritten ==
  /\ endAt = "locking" /\ mu = None
  /\ endSaw' = written /\ endAt' = "deciding"
  /\ UNCHANGED <<listed, attached, ready, done, failure, writer, mu, written, nextSeq,
                 posts, gets, abortAt, sweepAt, clock, out, acked>>

EndsShortMutant == endSaw > Size
EndsShort == endSaw # Size

DecideEnd ==
  /\ endAt = "deciding"
  /\ IF EndsShort
     THEN Fail("short") /\ endAt' = "refused"
     ELSE Complete /\ endAt' = "ok"
  /\ endSaw' = 0
  /\ UNCHANGED <<listed, attached, ready, writer, mu, written, nextSeq,
                 posts, gets, abortAt, sweepAt, clock, out, acked>>

-----------------------------------------------------------------------------
(* A peer's control connection drops: AbortForPeer selects the transfers   *)
(* that are not done under the table's lock, and fails and reports them    *)
(* after releasing it.                                                     *)

SelectForAbort ==
  /\ abortAt = "idle" /\ listed
  /\ abortAt' = IF done THEN "skipped" ELSE "selected"
  /\ UNCHANGED <<listed, attached, ready, done, failure, writer, mu, written, nextSeq,
                 posts, gets, ends, sweepAt, clock, out, acked>>

AbortSelected ==
  /\ abortAt = "selected"
  /\ Fail("peer disconnected") /\ abortAt' = "reported"
  /\ UNCHANGED <<listed, attached, ready, writer, mu, written, nextSeq,
                 posts, gets, ends, sweepAt, clock, out, acked>>

(* transfer_end from either browser: Rendezvous.Abort.                     *)
Cancel ==
  /\ listed
  /\ Fail("cancelled")
  /\ UNCHANGED <<listed, attached, ready, writer, mu, written, nextSeq,
                 posts, gets, ends, abortAt, sweepAt, clock, out, acked>>

-----------------------------------------------------------------------------
(* Run and sweep.                                                          *)

ExpiredMutant == done /\ failure = None /\ age > Wait
Expired == done /\ age > Wait

Reap ==
  /\ sweepAt = "idle" /\ listed /\ Expired
  /\ listed' = FALSE
  /\ UNCHANGED <<attached, ready, done, failure, writer, mu, written, nextSeq,
                 posts, gets, ends, abortAt, sweepAt, clock, out, acked>>

StalledMutant == ~done /\ quiet > Idle /\ mu = None
Stalled == ~done /\ quiet > Idle

FindIdle ==
  /\ sweepAt = "idle" /\ listed /\ Stalled
  /\ sweepAt' = "found idle"
  /\ UNCHANGED <<listed, attached, ready, done, failure, writer, mu, written, nextSeq,
                 posts, gets, ends, abortAt, clock, out, acked>>

FailIdle ==
  /\ sweepAt = "found idle"
  /\ Fail("idle") /\ sweepAt' = "idle"
  /\ UNCHANGED <<listed, attached, ready, writer, mu, written, nextSeq,
                 posts, gets, ends, abortAt, clock, out, acked>>

Tick ==
  /\ age <= Wait \/ quiet <= Idle
  /\ age' = Capped(age, Wait)
  /\ quiet' = Capped(quiet, Idle)
  /\ UNCHANGED <<listed, attached, ready, done, failure, writer, mu, written, nextSeq,
                 posts, gets, ends, abortAt, sweepAt, out, acked>>

-----------------------------------------------------------------------------
Download(g) ==
  \/ Attach(g) \/ FlushHeaders(g) \/ FlushHeadersFails(g) \/ InstallWriter(g)
  \/ MarkReady(g) \/ SeeDone(g) \/ SeeHangup(g) \/ FailHangup(g)

Upload(p) ==
  \/ \E k \in 0 .. Chunks - 1 : PostChunk(p, k)
  \/ SeeReady(p) \/ GiveUp(p) \/ Accept(p) \/ Refuse(p) \/ RefuseOversize(p)
  \/ CopyBlock(p) \/ CopyEnds(p) \/ CopyFails(p) \/ Acknowledge(p) \/ FlushFails(p)

End == AskEnd \/ ReadWritten \/ DecideEnd

Abort == SelectForAbort \/ AbortSelected \/ Cancel

Sweep == Reap \/ FindIdle \/ FailIdle

Next ==
  \/ \E g \in Gets : Download(g) \/ HangUp(g)
  \/ \E p \in Posts : Upload(p)
  \/ End \/ Abort \/ Sweep \/ Tick

Spec == Init /\ [][Next]_vars

(***************************************************************************)
(* What the relay's own process keeps running whatever the peers do: the   *)
(* clock, the ticker goroutine of Run, and the steps of a download that    *)
(* wait for nobody.  Nothing is assumed of either browser.                 *)
(***************************************************************************)
Fairness ==
  /\ WF_vars(Tick) /\ WF_vars(Sweep)
  /\ \A g \in Gets : WF_vars(SeeDone(g) \/ SeeHangup(g) \/ FailHangup(g))

FairSpec == Spec /\ Fairness

-----------------------------------------------------------------------------
(***************************************************************************)
(* Properties.                                                             *)
(***************************************************************************)

(* Every variable stays in its range; in particular the mutex and the      *)
(* writer name handlers that exist and no clock runs past its cap.         *)
TypeOK ==
  /\ listed \in BOOLEAN /\ attached \in BOOLEAN
  /\ ready \in BOOLEAN /\ done \in BOOLEAN
  /\ failure \in Reasons \cup {None}
  /\ writer \in Gets \cup {None} /\ mu \in Posts \cup {None}
  /\ written \in Nat /\ nextSeq \in 0 .. Chunks
  /\ postAt \in [Posts -> {"idle", "waiting", "locking", "copying", "flushing"}]
  /\ postSeq \in [Posts -> Nat] /\ copied \in [Posts -> Nat]
  /\ getAt \in [Gets -> {"idle", "refused", "headers", "installing", "marking",
                         "streaming", "failing", "returned"}]
  /\ open \in [Gets -> BOOLEAN]
  /\ endAt \in {"idle", "locking", "deciding", "ok", "refused", "not found"}
  /\ endSaw \in Nat
  /\ abortAt \in {"idle", "skipped", "selected", "reported"}
  /\ sweepAt \in {"idle", "found idle"}
  /\ age \in 0 .. Wait + 1 /\ quiet \in 0 .. Idle + 1
  /\ out \in Seq(Nat)
  /\ acked \subseteq 0 .. Chunks - 1

(* Whatever chunks are posted, in whatever order, concurrently or twice,   *)
(* the receiver's stream is the payload from its start: no block lost,     *)
(* repeated or moved (nextSeq and mu in ServeUpload).                      *)
InOrder == \A i \in 1 .. Len(out) : out[i] = i

(* The stream never runs past the Content-Length the download declared,    *)
(* even while a chunk is half copied (the length check before io.Copy).    *)
WithinSize == Len(out) <= Size

(* A chunk answered 204 is on the receiver's connection to its last block, *)
(* whatever failed since.                                                  *)
AckedDelivered == \A k \in acked : Cut[k + 1] <= Len(out)

(* The sender is told by ServeEnd that the transfer ended well only when   *)
(* the whole declared payload went to the receiver.                        *)
EndOkWhole == endAt = "ok" => Len(out) = Size

(* The receiver's stream is the payload up to some block, within the       *)
(* declared size, whatever uploads race, resend, overtake or break off     *)
(* (nextSeq, mu and the length check in ServeUpload).                      *)
StreamIsPrefix == InOrder /\ WithinSize

(* Every good answer the sender got is a true one, a chunk's and the end's *)
(* (ServeUpload's 204 and ServeEnd's 204).                                 *)
AnswersAreTrue == AckedDelivered /\ EndOkWhole

(* A transfer that is over with no failure recorded passed everything: a   *)
(* truncated file never ends as a success, whichever of ServeEnd and the   *)
(* receiver's hang-up closed it.                                           *)
CompleteMeansWhole == done /\ failure = None => Len(out) = Size

(* No upload reaches io.Copy before a receiver's writer is installed       *)
(* (ready closes after dst is set).                                        *)
CopyHasWriter == \A p \in Posts : postAt[p] = "copying" => writer # None

(* The stream is never split over two downloads: once a receiver's writer  *)
(* is installed no other one replaces it.                                  *)
OneReceiver == [][writer # None => writer' = writer]_vars

(* Every transfer leaves the table and gives its place back.               *)
EventuallyReaped == <>~listed

(* A download handler that waits for the end of its transfer returns.      *)
DownloadReturns ==
  \A g \in Gets : getAt[g] = "streaming" ~> getAt[g] = "returned"
-----------------------------------------------------------------------------
(* What the sender has heard from ServeEnd.                                *)
Told == CASE endAt = "ok" -> "ok"
          [] endAt \in {"refused", "not found"} -> "failed"
          [] OTHER -> "nothing"

Pipe == INSTANCE OrderedPipe
          WITH Total <- Size, passed <- out, closed <- done, told <- Told

(* The transfer implements the pipe, its liveness included: a step of a    *)
(* handler, of the watchdog or of a disconnect is a step of the pipe or    *)
(* invisible to both ends, and the watchdog closes every transfer, even    *)
(* one whose receiver never reads and whose upload sits in io.Copy holding *)
(* mu.                                                                     *)
ImplementsPipe == Pipe!FairSpec

=============================================================================
