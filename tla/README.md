# Bonjou, verified

TLA+ modules, TLC runs and TLAPS proofs about Bonjou: a terminal program that
sends messages, files and folders over the local network, a relay that lets
browsers do the same across networks, and the browser application that uses it.
Paths below are relative to the repository root.

1. [The system](#the-system)
2. [What is modelled and how it corresponds to the code](#what-is-modelled)
3. [The runs, their bounds, and what they show](#the-runs)
4. [Fairness](#fairness)
5. [Proofs](#proofs)
6. [Where the code and its comments disagree](#findings)
7. [What is not modelled](#not-modelled), and [the plan](#plan)

## The system

### Relay (`internal/relay`, `cmd/bonjou-relay`)

| Part | State | Operations | Correct when |
|---|---|---|---|
| One transfer (`rendezvous.go`) | `attached`, `ready`, `done`, `failure`, `dst`, `mu`, `written`, `nextSeq`, `lastData` | `ServeDownload`, `ServeUpload`, `ServeEnd`, `Abort`, `AbortForPeer`, `sweep` | the receiver's stream is the payload from its start and within the declared size, a good answer is true, every transfer ends and is reaped |
| Hub and rooms (`room.go`) | `Hub.rooms`, `Room.peers`, `Room.lastActive`, `Peer.rooms`, `Peer.send` | `NetworkRoom`, `CreateRoom`, `Room`, `Add`, `Remove`, `Drop`, `sweep`, `Send`, `NotifyRosters`, `Find` | memberships agree, nobody stays behind, limits hold, empty rooms go away, rosters end up right |
| Connections (`conn.go`) | `netRoom`, `codeRoom`, the goroutine's place | `hello`, `create`, `join`, `relay`, `transfer_begin`, `transfer_end`, `cleanup`, write loop | every disconnect takes the peer and its transfers away |
| Limits (`limits.go`) | `rateLimiter.windows` | `allow`, `sweep` | nobody creates rooms faster than allowed |
| HTTP server, codes, protocol (`server.go`, `code.go`, `protocol.go`) | none of their own | routing, CORS, parsing, codes | |

Every request and every WebSocket has its own goroutine. They meet in four
kinds of lock, `Hub.mu`, `Room.mu`, `Peer.mu` and `transfer.mu`, taken one
after another and, but for the sweep (`Hub.mu` around `Room.mu`), never nested.
What is decided under one lock is acted on under the next, and that is where
the hard behaviour is: joins that cross drops, aborts that cross completions,
a receiver that hangs up while a chunk is being copied, a watchdog that looks
at a clock the copy does not move.

### Terminal program (`internal/network`, `queue`, `commands`, `session`, `ui`)

| Part | State | Operations | Correct when |
|---|---|---|---|
| Transfers (`network/transfer.go`) | `outgoingApprovals` and its file, `pendingAcks`, `cancelActive`, connections | `SendFile`, `SendFolder`, `ApproveFileTransfer`, `RejectFileTransfer`, `handleFileRequest`, `handleTransferRejection`, `receiveFile`, ... | a payload goes out only for an offer that was approved, once; a failed one leaves nothing half written; a good acknowledgement means the receiver has it |
| Pending queue (`queue/queue.go`, `commands/queue_commands.go`) | `files`, `folders`, `nextID`, the snapshot file | `AddFile`, `AddFolder`, `Remove*`, `Flush`, `load`, `saveLocked`, approve and reject | no item is lost by a crash, none is answered twice, ids are not reused |
| Known peers, discovery (`known_peers.go`, `discovery.go`) | pinned keys, seen peers | `Pin`, `Trust`, `Forget`, announcements, expiry | a pinned name never changes its key without the user |
| Replay guard (`replay.go`) | nonces and when they were seen | `observe`, `checkTimestampFreshness` | no envelope is accepted twice |
| Sessions, commands, UI, config, history | presentation and files written whole | | |

Each incoming connection has its goroutine, the UI has another; they share the
queue, the approvals and the cancel slot. Two machines exchange one envelope
per connection, with nothing but TCP between them: any of them may be restarted
between offer, request and payload.

### Browser application (`website/src/share`, `website/public/sw.js`)

| Part | State | Operations | Correct when |
|---|---|---|---|
| Session (`useSession.ts`) | `outgoing`, `incoming`, `busyPeers`, `queued`, `transferOwner`, `activeReceive` | offer, approve, decline, request, `transfer_ready`, `pumpQueue`, `releasePeer` | a stream is paired with the item it was approved for; a peer that is busy becomes free again |
| Relay client (`relay.ts`) | socket, reconnect timer, roster, pending intent | `connect`, `send`, `handleFrame` | a reconnect restores what the user asked for |
| Direct path (`webrtc.ts`), pumps (`transfer.ts`), worker (`sw.js`), tabs (`tabs.ts`) | links, streams, pending downloads, the tab's lock | | the fallback is taken once; a download is consumed once; one tab is in charge |

Everything runs on one thread and interleaves at every `await`.

`PROJECT.json` lists every part with its status, and every hazard at its line.

## What is modelled

### `RelayTransfer` — one transfer of the data plane

Everything that happens to a `transfer` from the moment `Begin` returned it.
Each goroutine that can hold it has a place variable, and an action is the code
between two points at which another goroutine can run:

| Goroutine | Places | Actions |
|---|---|---|
| `ServeUpload` (`Posts`) | `postAt`, `postSeq`, `copied` | `PostChunk`, `SeeReady`, `GiveUp`, `Accept`, `Refuse`, `RefuseOversize`, `CopyBlock`, `CopyEnds`, `CopyFails`, `Acknowledge`, `FlushFails` |
| `ServeDownload` (`Gets`) | `getAt`, `open` | `Attach`, `FlushHeaders`, `FlushHeadersFails`, `InstallWriter`, `MarkReady`, `SeeDone`, `SeeHangup`, `FailHangup`, and the browser's `HangUp` |
| `ServeEnd` | `endAt`, `endSaw` | `AskEnd`, `ReadWritten`, `DecideEnd` |
| `AbortForPeer`, `Abort` | `abortAt` | `SelectForAbort`, `AbortSelected`, `Cancel` |
| `sweep` | `sweepAt` | `Reap`, `FindIdle`, `FailIdle` |
| time | `age`, `quiet` | `Tick` |

The payload is a row of numbered blocks that the sender cuts into chunks;
`out` is the blocks the receiver's connection was given. An upload holds `mu`
from `Accept` to `Acknowledge`, across `io.Copy`, and the copy moves one block
per step, so everything else can happen while a chunk is half copied. What is
abstracted: the two statements of `fail` (record, close) are one step, because
`sync.Once` keeps a second caller out of both and nobody reads `failure` before
`done`; a chunk without a `Content-Length` is refused like one that is too
long; time is ticks that saturate one past the limit they are compared with.

### `OrderedPipe` — what a transfer promises

The same without handlers, locks, chunks or clocks: blocks pass in order up to
the declared size, the pipe closes once and always does, and the sender is told
"ok" only when everything has passed. `RelayTransfer` implements it
(`ImplementsPipe`, with `passed <- out`, `closed <- done`, `told <- Told`).

### `RelayRooms` — who shares a room with whom

The hub, its rooms and the membership side of every connection. One action is
one critical section:

| Code | Actions |
|---|---|
| `handleHello`, `handleCreate`, `handleJoin` up to the hub's answer (`Hub.mu`) | `HelloFound`, `HelloNew`, `Create`, `Join` |
| `Room.Add` (`Room.mu`) | `AddPeer`, `AddRefused`, `AddCreatedRefused`, then `DropCreated` (`Hub.mu`) |
| `Peer.joinedRoom` (`Peer.mu`) and the connection's field | `JoinedRoom`; then the frames, `Notified` |
| `cleanup` | `Disconnect`, `RemoveFromNetwork`, `RemoveFromCode` (`Room.mu`), `LeftRoom` (`Peer.mu`), `Drop` (`Hub.mu`), `Announced`, `Finish` |
| `Hub.sweep` | `StartSweep`, `LookAt` (reads a room under `Room.mu`), `DeleteStale`, `EndSweep`, all under `Hub.mu` |
| time | `IdleOut`: a room has stood empty for `RoomIdleTTL` |

A `Room` is an instance, not its key: a connection may hold an instance that is
no longer in the hub while the key leads to another one. `Rooms` is a pool of
instances; one that nothing points to (`Free`) is what the next `newRoom`
returns. Left out, with the reason: `Touch` (only members of a room call it and
the sweep asks the idle time of empty rooms only), names and keys of peers, the
frames themselves (they change no membership), the rate limiter (it may refuse
a create, and an action may always not happen). `cleanup` resets the
connection's fields in the model as it goes, which the code need not do, since
nothing reads them afterwards.

### `PendingQueue` — the queue of offers and its file

The manager of `internal/queue/queue.go`: files and folders, the shared next id,
`persistErr`, and `queue.json` with its temporary file. An operation holds `m.mu`
from `Begin` on, and everything inside it that the disk or a crash can tell apart
is a step: change the memory, write the temporary file (`WriteTemp`), remove the
old snapshot (`RemoveSnapshot`), rename (`RenameTemp`). Each may fail
(`SaveFails`, with what the caller then does in `AfterFailure`: the adding
operations keep the offer, the removing ones put it back), the program may stop
between any two (`Crash`), the machine may tear the file, and `Load` rebuilds
items and next id from what is left. Abstracted: item fields (an item is its
request), trimming of names, JSON.

### `DurableQueue` — what the queue promises

A set of pending requests and what is kept of it on disk: a removal that returned
is kept, a save keeps everything, a crash falls back to what is kept and may lose
that too (`Forget`). `PendingQueue` implements it (`ImplementsQueue`), and
`LanTransfer` uses it as the receiver's queue.

### `LanTransfer` — a file between two machines

| Who | State | Actions |
|---|---|---|
| `SendFile` | `offerAt`, `approvals`, `saved` | `StoreOffer`, `DialOffer`, `OfferFails` |
| `handleFileRequest`, `performApprovedFileTransfer`, `sendEnvelope` (a goroutine per request) | `sendAt`, `ackSlot` (`pendingAcks`), `box` (its channels) | `HearRequest`, `DropRequest`, `Dial`, `DialFails`, `SentAll`, `CopyFails`, `Confirmed`, `InlineAckFails`, `ConfirmedOutOfBand`, `NotConfirmed`, `DeleteApproval` |
| `handleTransferRejection`, `receiveDeliveryAck` | | `HearRejection`, `HearAck` |
| `receiveFileOffer` | the queue (`DurableQueue`) | `ReceiveOffer` |
| `approvePendingByID`, `rejectPendingByID` | `ui` | `Answer`, `RequestSent`, `RejectSent`, `AnswerFails`, `RemoveAnswered`, `RemoveFails` |
| `receiveFile` (a goroutine per payload) | `recvAt`, `path`, `verdict`, `files` | `ChoosePath`, `CreateFile`, `CreateFails`, `ReadAll`, `ReadFails`, `AckInline`, `AckInlineFails`, `AckOutOfBand`, `RemoveFile` |
| either program | | `SenderRestart`, `ReceiverCrash`, `ReceiverStart` |

An envelope in flight is a member of a set and may arrive after others or never.
A file at a path is the set of sends whose bytes are in it, so that truncating,
writing into and removing somebody else's file can be seen. Left out: folders, the
replay check, cancelling (it is one of the ways `CopyFails`), discovery (a peer
that cannot be resolved is a failure of the step that needs it), and the check on
loading that an offered file is still there (files offered stay where they are).

### `LanTransferClaims`

What a test of the repository claims by its title and the code does not keep.

### `LanFolders` — a folder between two machines

What folders have of their own beside `LanTransfer`: the archive that `SendFolder` packs
and the approval carries to `performApprovedFolderTransfer`, and the directory into
which the receiver unpacks.

| Who | State | Actions |
|---|---|---|
| `SendFolder` | `offerAt`, `archives`, `approvals` | `Pack`, `StoreOffer`, `PackUnreadable`, `Offer`, `OfferFails` |
| approve and reject | `queue`, `offerOf`, `target`, `rejects` | `Approve`, `Reject` (each with `TakeOff`) |
| `handleTransferRejection` | | `HearRejection`, `LoseRejection` |
| `performApprovedFolderTransfer` (a goroutine per request) | `sendAt`, `using` | `HearRequest`, `DropRequest`, `UseArchive`, `PackAgain`, `PackAgainFails`, `Dial`, `NotDelivered`, `Delivered`, `RemoveArchive` |
| `receiveFolder` (a goroutine per payload) | `recvAt`, `raws`, `dest`, `unpacked`, `folders` | `Start`, `MakeDir`, `ReadFails`, `UnpackOne`, `UnpackEnds`, `UnpackFails`, `Report` |
| surroundings | | `TmpCleaned`, `SenderRestart` |

An archive is named by who made it: an offer, or a send that had to pack again. A
directory is a function from entry names to the receive that wrote the entry, so a
directory with entries of two receives, or with one missing, can be told apart.
Envelopes, acknowledgements and the queue's file are `LanTransfer`'s and
`PendingQueue`'s matter and appear as their outcomes. That the receiver's copy of the
archive gets a free name and its file in two statements (`receiveFolder`, 1117-1121) is one
step; so that window, which `claim_all_received` shows for files, is not in this module.

### `RelayControl` — control frames between browsers

`RelayRooms` says who is in which room, `RelayTransfer` what becomes of the bytes of one
transfer. `RelayControl` puts both next to each other without their insides and adds
what they leave out: frames, queues, rosters, and the table of transfers.

| Code | Actions |
|---|---|
| `handleHello`, `handleCreate`, `handleJoin` | `Enter`, `EnterFails`, `JoinedRoom`, `Joined`, `HelloAgain` |
| `NotifyRosters`, `Reachable` | `NextRoom`, `NextMember`, `ListRoom` (one room at a time, as `members` locks each), `SendRoster`, `Notified` |
| `handleRelay`, `handleTransferBegin`, `handleTransferEnd` | `Relay`, `TransferBegin` (`Find`), `Begin`, `BeginRefused`, `SenderReady`, `TellOther`, `TransferEnd`; `Refused`, `Reply` |
| data plane and watchdog | `DataEnds`, `Reap` |
| `run`, `writePump`, the socket | `Hangup`, `PingFails`, `WriterSeesClosed`, `ReadFails` |
| `cleanup` | `Collect`, `AbortOne`, `Aborted` (`AbortForPeer`), `Leave`, `LeftRoom`, `Broadcast`, `TellLeft`, `AllTold`, `Gone` |

`Send` puts a frame into the queue, or finds it full and closes the peer. `shown` keeps of
a queue only the last roster in it: what the browser shows once it has read everything.
Left out: what a browser is called, which the relay copies and never compares.

### `ReplayGuard` — envelopes that arrive again

`handleConnection` from the opened envelope to its handler: `Open`, then `Check` or `Refuse`
(`checkTimestampFreshness`), then `Handle` or `Duplicate` (`observe`, under its lock), with
a clock that may tick between any two. `Kept` is the deletion by age, `Victims` the one by
number (any of the oldest, as a map has no order), `ProgramRestart` the one by the end of the
program. Sender's and receiver's clock differ by up to `MaxSkew`, in either direction;
an envelope without a timestamp is one of a former version. `lastTime`, what this run
of the program handled and when, and `slow` are history. The names `ReplayInit`, `ReplayNext` and so on
keep the module apart from `KnownPeers`: the two guards share no state and are proved about
in one module.

### `KnownPeers` — who is who on the local network

One machine's table of peers and its pins, with the others as what they announce.
`Hear` is `listenLoop` up to and including `Pin`, `Enter` the table; between the two the
user or the network may act. `Added`, `AddFails`, `Matches` and `Mismatch` are the outcomes of
`Pin`; `LookUp` and `Trust` are the two halves of `@trust`; `Forget` keeps the memory change though
its save failed, as the code does. `Expire` is `ListPeers`, the only place that
prunes; `NewNetwork` is `UpdateLocalEndpoint`. Announcements may be late, early
and repeated; a lost one is one not sent. Left out: this machine's own announcements, and
to which of several entries a name resolves (`LookUp` takes any).

### `WebSession` — files between two browsers

Two pages of the browser application, one direction. What a page does between two `await`s is
one step; the other page, the relay, the channel and the user act in between.

| Code | Actions |
|---|---|
| `sendFiles`, `handleEnvelope`, and `approve` and `decline` behind the buttons of `EventRow.tsx` | `Offer`, `HearOffer`, `Approve`, `Approved`, `ApproveFails`, `Decline`, `HearRequest`, `HearReject` |
| `pumpQueue`, `releasePeer` | `Pump`, in every step that asks for a send or ends one (`SendEnds`) |
| `startSend` and `sendOverChannel`, direct | `Begin`, `HearReady`, `SendFrame`, `EndSent`, `DirectFails` |
| the receiver's chain of handlers (`webrtc.ts`), `handleChannelControl`, `handleChannelData` | `TakeBegin`, `Prepared`, `PrepareFails`, `TakeData`, `TakeDataFails`, `TakeEnd`, `TakeAbort` |
| the channel | `OpenChannel`, `SenderLinkCloses`, `ReceiverLinkCloses` (`handleLinkClosed`) |
| `startSend` and `handleTransferReady`, relayed | `BeginRelayed`, `HearSenderReady`, `Uploaded`, `UploadFails`, `HearReceiverReady`, `Keyed`, `DownloadStarted`, `DownloadFails` |
| the relay | `RelayAnswers` |

`left` counts the frames a send still has to seal; `written` is what a download was given, as
pairs of item and frame, so that frames of another item, missing ones and repeated ones can be
told apart. A message on the channel that the other side no longer reads is lost (`rDropped`).
The queue, the relay's answers and each page's items are the code's maps; `refused`,
`together` and `overtaken` are history. Left out: chat, rooms and names; the negotiation of
the channel; decryption; the bytes of a relayed upload, which are `RelayTransfer`'s matter; a
browser's own cancelling of a download; and `endTransfer`, which the application never calls.

## The runs

Deadlock is checked where the system never has to stop (`pending_queue`). A transfer
that was reaped, a relay that everybody left and two machines whose offers are all
answered have nothing more to do, so their runs do not check it.

| Run | Instance | Shows |
|---|---|---|
| `relay_transfer_safety` | 2 uploads, 2 downloads, 3 chunks (2+1+1 blocks) against a declared size of 3; 1.1 million states | order, bound and truth of every answer while uploads race, resend, arrive early, break off and overrun the size, receivers hang up, and the watchdog and aborts strike anywhere |
| `relay_transfer_live` | 1 upload, 1 download, one chunk of 2 blocks, limits of one tick; 63,000 states | the transfer ends, is reaped, its download returns; it implements `OrderedPipe` with its liveness |
| `relay_rooms` | 3 connections of 2 addresses, 1 code, 2 room instances, 1 room in the hub, network rooms for two and code rooms for one; 374,000 states | agreement of the memberships, no ghosts, no strangers, the limits, that an empty room is always in somebody's hands, and with fair handlers that every cleanup ends and every emptied room leaves the hub without the sweeper's help |
| `pending_queue` | 3 offers, 3 ids, 2 failed disk operations, 1 torn file, any number of crashes; 23,000 states | ids name one item, answered offers stay answered, memory and file agree at rest, and the manager is a `DurableQueue` |
| `lan_transfer_safety` | 1 offer, 2 payloads at once (asked for again after a mishap), one restart or crash, one failed write; 1.1 million states | nothing half received stays, nothing received is spoiled outside the one window that `raced` records, an offer is answered once more at most for each crash and each failed removal, and a send that counts as delivered was stored whole |
| `lan_transfer_live` | 2 offers of one name, 1 payload, one restart or crash, one failed write; 265,000 states | what the receiver can see can be fetched, and a requested send and its receive end |
| `lan_folders` | 2 folders of one name that share an entry, 2 payloads, one restart or failed save; 1.8 million states | a received folder stays whole and a failed one leaves nothing, outside the window that `shared` records; no archive stays behind |
| `relay_control` | 2 connections, 1 transfer, 3 frames asked for, 2 mishaps (full queue, hang-up, failed ping); 1.1 million states | whoever can still be written to is shown exactly who can be reached, outside the race that `raced` records, and a peer's transfers end with it |
| `replay_guard` | 3 envelopes of one sender, 2 connections, a bucket for two nonces, windows of 2 and 1 ticks, 5 ticks, clocks up to 2 apart, one restart; 1 million states | in one run of the program, unless a bucketful of other envelopes was handled since, nothing is handled twice within `replayTTL`, and nothing stamped at or before its arrival is ever handled twice |
| `known_peers` | 2 machines of one name, 2 keys and a version without, 2 announcements under way, 1 failed save; 163,000 states | the table agrees with the pins, only the user changes a pin, a forgotten name is pinned again |
| `web_session` | 2 items of 2 frames each, 2 messages on the channel, 1 call of `approve` per item at a time; 395,000 states | downloads get their own frames and are whole when saved, what was declined is never sent, a relayed transfer is received for the item it was begun for outside the race that `together` records, and the queue drains |
| `claim_all_received` | as small as the counterexample allows | the finding below |

Why these bounds. Two uploads and two downloads are every pair of handlers that
can meet: a third one repeats the part of the second, since one handler owns
`mu` and one owns `attached`. Three chunks give a first, a middle and one past
the declared size, and a chunk of two blocks can be half copied. Limits of zero
or one tick let every timeout happen before and after everything else. Two
connections of one address race for its room and the third comes from elsewhere; a room for
two is shared and a room for one is contended; with one place in the hub every creation
competes for it, while a second instance is still held under a key that has gone. Larger
limits and more instances are left to the theorems, which hold for all of them. The pool of
instances bounds creation: with all of them in use no further room is made, which is one of the
refusals a creation may meet anyway. Symmetry
is used for handlers, connections, envelopes, offers and payloads, in runs without liveness.

Two payloads are enough for a file or a folder: a third goroutine could only meet one of
the two at the same path, archive or channel. The one crash and the one failed write
may strike at any step; a second answer to an offer needs one of them, and `AnsweredOnce` allows one for each.
Two payloads of one
offer meet at the same path and the same channel as those of two offers of one name would; the
second offer is in the run with one payload, where the queue holds both. `Suffixes` has as many numbers as payloads, so `UniquePath` never
runs out. In the queue two items share the id counter and the third comes after a
reload.

Two connections are the smallest number that can race at a roster and at a
transfer's two ends, and three frames take both into a room and one of them on to a
transfer, a second room or a second hello; two mishaps close one peer's queue and let the
other hang up. A bucket for two nonces overflows with the third, so that which one has to go
matters, and five ticks let an envelope arrive, expire from the bucket and arrive once more at
either end of its window. Two machines of one name are what pins are for; two announcements
under way let an old one arrive after a new one, with the second key as the one to change to.

Two items are what a pairing can mix up and a queue can hold; of two frames one can be lost
or overtaken without the other, and two messages fill the channel, so that `begin`, data and
`end` are never all on it. One call of `approve` per item and time still lets an approval
cross a decline, the other item's approval, and every end of the channel.

The types of the variables are a theorem where the module has proofs, and an invariant of
the run elsewhere.

Each property of each passing run has a mutant in `PROJECT.json`: a plausible
slip in the code (a dropped guard, an off-by-one, a missing bookkeeping line)
under which that run reports the property violated.

## Fairness

`RelayTransfer!FairSpec`: time passes, the ticker goroutine of `Run` sweeps, and
the steps of a download that wait for nobody are taken. Neither browser is
assumed to send, read or hang up; an upload may sit in `io.Copy` forever. What
is shown is therefore that the watchdog alone ends a transfer.

`RelayRooms!FairSpec`: a handler that has begun runs on. Sends never block
(`Peer.Send` drops the peer instead) and no lock is held across a wait. `Hub.mu`
is contended, so its waiters need strong fairness, which Go's mutex gives (a
waiter that starves for a millisecond gets the lock handed over). The sweep, once
begun, ends; it need never begin. Nobody is assumed to send a message or to
leave.

`LanTransfer!LiveSpec`: the goroutines of both programs run on, the sender's two
waits end by their timers, and a receiver reads what was written or learns that
the other end is closed. A payload that is being written has no timer: that its step is taken
assumes that the receiver reads on or the connection ends (the writer that
`copyWithProgress` gets has no deadline to set, `transfer.go:1232-1237`). No message
need arrive, no connection need work, no user need answer, no program need come back.

`KnownPeers!FairSpec`: the other machines go on announcing (`announceLoop` has a ticker), the
listener takes up what arrives and enters it, and the network does not lose every
announcement of a machine for ever. The first is strong fairness because `MaxWire`, a bound of
the model and not of the network, keeps disabling it. Nothing is assumed of the user, of the
disk or of anybody's keys.

`WebSession!FairSpec`: promises settle. A send goes on or fails, as timers end its waits for the
channel and for `ready`, and the relay ends every upload; a message on the channel is handled; a
download that was begun is prepared or fails; and the receiving page hears of a channel
that the sending page lost. One of these waits has no timer: `write` for a download that the
browser has paused (`transfer.ts:403-409`), so that the receiver goes on assumes that the browser
takes more of the stream or cancels it. The relay is not assumed to answer `transfer_begin`, no envelope
need arrive, no channel need open, and nobody need approve.

## Proofs

`RelayTransferProofs`, `RelayRoomsProofs`, `RelayControlProofs`, `PendingQueueProofs`,
`LanGuardsProofs` (of `ReplayGuard` and of `KnownPeers`), `LanTransferProofs`,
`LanFoldersProofs` and `WebSessionProofs`, for all values of the constants that satisfy the
modules' named assumptions: `SizesAssumption`, `CutAssumption`
(chunks are not empty and follow each other), `NoneAssumption`; `KeysAssumption`
(addresses and codes are different keys: the code prefixes network keys),
`FiniteAssumption` (only for `WithinLimits`, which counts), `LimitsAssumption`
(limits are positive, as `withDefaults` makes them), `TimesAssumption` (an envelope
is too old before its nonce is: `freshnessPast <= replayTTL`, ten minutes both
in the code), `EnvelopeAssumption` (an envelope has one sender's key),
`NameAssumption` and `KeyAssumption` (a machine announces one name, and an absent key
is no key).

**One transfer.** None of the safety properties is inductive. `IInv` adds: only the
download that won `attached` is past its headers, it is the one `dst` names, and
`ready` implies `dst` (`WriterInv`); `mu` is held exactly by the upload that
copies or flushes (`LockInv`); the holder works on chunk `nextSeq`, and
`Len(out)` is `written` plus what the holder has copied (`StreamInv`); the answer
of `ServeEnd` was decided on a `written` that the stream has since reached
(`OutcomeInv`). From it follow `Ordered` and `Bounded` (together `PrefixKept`),
`Acknowledged` and `EndTruthful` (together `Truthful`), `NoSilentTruncation`, `WriterInstalled`, `SingleReceiver` and
`Typing`. The clause `mu = None => failure = None => written = Cut[nextSeq]` is
what makes a broken chunk harmless: after it the counters disagree, and only the
recorded failure keeps the next upload out. `Refinement` proves
`Spec => Pipe!Spec`, action by action.

**Rooms.** `MembersAreThere` is `MembershipAgrees` and `NoGhosts`. `MembershipAgrees` speaks of connections at rest. `IInv` says at every
place of a handler which rooms list the connection (`MemberInv`) and which it
lists (`RecordInv`), that its fields fit its address (`FieldsFit`), and that the
room in its hand is of a kind it is not in yet (`HeldFits`), so that writing under the
room's key overwrites nothing. `OthersKept` shows that a step of one connection
keeps another's facts; the step lemmas then speak of the actor only. `Agreement`,
`Departed` (together `Members`) and `Grouped` follow. `Limited` needs the finiteness of the sets and
is proved beside it. `Tended` (`EmptyHasHandler`) is inductive given `IInv`: at
each step that empties a room or puts an empty one into the hub, the acting
handler is the one in charge, and a handler that stops being in charge has filled
the room or deleted the key.

**Rosters and departures.** `RelayControlProofs`, from `BoundsAssumption` (the bounds are
numbers), so for any number of connections and transfers. `RosterCurrent` speaks of the
moments when nobody is being announced, and says nothing of how one gets there. `Current` does: a peer whose
roster is out of date is on some handler's list (`Due`), or some handler is reading for it, and
what it has read with what it still reads is what the peer can reach (`Accurate`). It needs `Placed` (a room that
an open peer is recorded to be in has it among its members, so whoever
tells the members tells the peer), `Reading` (a handler reads only rooms the peer is in), and
`Ending` (only a closed peer is taken off a room). `ReachStays` is the heart of it: whoever a step
makes nobody's duty to tell can reach the same peers as before. When a roster goes out that was
read before somebody else's change, the other handler is still to tell the peer, or is reading for it at that moment, which is
`raced`. `AbortedWithPeer` needs `Failing`: a cleanup between its two locks has every transfer of the
peer in hand but those begun since. `IInv` was model-checked with three connections (19 million
states), where two handlers can tell a third peer.

**The queue.** `PendingQueueProofs` shows `Invariant`: at each place of an operation,
what the memory, the temporary file and the snapshot hold of each other, and that
every image carries the next id that fits its items. From it `Typing`,
`OneItemPerId`, `AnsweredOnce` (no removed offer is in the memory or in any file
that a restart could read), `Saved`, and `Refinement` to `DurableQueue`.

**Replays.** `HandledOnce` needs the place of every nonce. `Noted`: an envelope that
was handled is in its sender's bucket since it was last handled, or that was more than
`replayTTL` ago, or it is `Crowded`: as many others as a bucket holds were handled since. `Filed`
(a bucket has each nonce with the time it was last handled) shows why a nonce that makes room is
crowded: it is the oldest, so all that stay, and the one that comes, were handled no earlier.
`StillFresh`: a handler between its two checks has an envelope that was fresh when
the clock last moved, unless it is `slow`. When such an envelope is about to be
handled again and is not crowded, its nonce is too old to be in the bucket, so by `freshnessPast <= replayTTL`
its stamp is later than the time it was last handled: the exception the property
names, and no other.

**Pins.** `TableIsPinned` needs the step between `Pin` and the table:
`HeardIsPinned`, the announcement in `listenLoop`'s hand has the pinned key or is
`outdated`; `NoneIsHeard`, nothing in hand is nothing pinned; `SavedIsPinned`, memory
and file agree unless the last save failed. `PinsAreKept` follows action by action.

**Files between two machines.** `LanTransferProofs`, from `SuffixesAssumption` (a finite set of
numbers, as many as there are sends: the code counts on without end), `NoneAssumption` and
`BoundsAssumption`. `Progress` says how far a send is on both sides; `Written`, that the bytes at
a path are of sends that write there. The latter makes `UniquePath` find a number (fewer files
than numbers), which the typing needs. `Apart`: while no two receives raced for a path, a receive about
to create its file has the path for itself, and one that has a file has nobody else's bytes in it;
`FilesAreWhole` and `ReceivedFilesStay` follow. `Confirmations`: a channel is found by
the name of its send, so that whatever is put into a confirmation box is of a payload
of that name that was verified (`DeliveriesAreTrue`). `Answering`: the answers to an offer, and one
more while it is open (in the queue or on its way there, and not just being taken off), are at most
one and the mishaps so far, so that a step that answers closes the offer and one that opens it again
is a mishap (`OffersAnsweredOnce`). `Fetchable`: `outgoing.json` is what the memory holds and has
every offer that is out (`SeenCanBeFetched`).

**Folders between two machines.** `LanFoldersProofs`, from `SuffixesAssumption` (again no fewer
numbers than can be needed, that is one less than there are sends), `OffersAssumption` (an offer is not a send,
and a folder's contents are a sequence of entries), `NoneAssumption` and `BoundsAssumption`.
The typing is the part that needs an argument: `UniquePath` must find a free name. Every
directory was given to some receive (`Written`), the receive that is looking has none yet,
and so there are fewer directories than names; `Numbered` shows that different numbers make different
names. `FoldersStay` speaks of receives that are over; `Apart` says what is true of
those that are not: as long as no directory was given to two of them, whoever has
read or is unpacking has a directory of its own, which does not exist before the first entry and
then holds the first `unpacked` entries of its folder and nothing else (`Holds`). A receive that fails
removes its directory and can thus have removed nobody else's. `ArchivesOwned` needs `Chosen`: a
send past its choice works on the offer's archive, or on one it packed itself when the
offer's was gone, and an offer's archive never comes back; so when it removes what it used and the approval goes
with it, no second archive is left. `Progress` says which places of sender and
receiver occur together. `IInv` was model-checked with the run's constants (1.8 million states) and
with three sends (without mishaps, 0.1 million states).

**Two browsers.** `WebSessionProofs`, from `BoundsAssumption` (bounds are numbers), so for any
number of items, frames and messages on the channel. `IInv` adds seven parts to the typing.
`Dispatch`: one item at a time has the peer, and is sent once. `Asking`: an item is offered once, and
of one that was not approved nothing is under way. `Ways`: an item goes over the channel or over
the relay, and the channel has seen nothing of it before its send begins. `Linked`: the channel has the
messages of one item after those of another, each frame right after the frame before it, and
the first of them continues what the receiver has written. `Downloads`: the receiver has one
download at a time. `Streaming`: what the sender sends next continues what is on the
channel, or what is written when the channel is empty, as long as both pages have the channel. `Pairs`: while no
two approvals were outstanding, an item that is going to be sent is the only approved one. `OwnFrames` needs
all but the last: that a frame is of the right item rests on the order of the channel, that on what
the sender sends next, and that on `ready` being awaited and the peer being busy.
`DeclineStands` is in `Asking`, and `PairedRight` in `Pairs`. The lemmas first say what each step does to
one item (`Turns` on the sender's page, `Patches` on the receiver's, `Legs` on the channel); each part
then follows from these facts and not from thirty actions. `Pairs` showed
that `together` has to record a failing approval too: the first of two calls of `approve` for one item
succeeds, the second fails, and another item can be approved while the first is being sent.
`IInv` was model-checked with two calls of `approve` per item (5.9 million states).

Every invariant and every action property that a run checks is stated by a theorem. Only
model-checked: liveness (`ForgottenReturns` and the others) and the fairness half
of `ImplementsPipe` (the proof system has no rules for `ENABLED` here), and the
refuted claim, which is a counterexample.

## Findings

`claim_all_received` must find its violation; the quotation is in `PROJECT.json`. Two
approved files of one name can choose the same path, and the second `os.Create`
empties what the first had received, verified and acknowledged. The test at
`queue_commands_test.go:343` claims by its title that all pending files are received; the two files it
sends have different names (`first.txt`, `second.txt`), so that of files of one name only the
title speaks.

Seen in the models in the same way, and not among the runs:
an upload can be inside `io.Copy` to the `ResponseWriter` of a download handler
that has returned (`rendezvous.go:41` against 247-270); a receiver that took every
byte and hung up before `written` was advanced counts as a failure (250 against
331-333); `AbortForPeer` can report a transfer that completed after it was
selected (184 against 195-201); the grace for a late end call counts from creation
(404); a chunk slower than `TransferIdleTTL` fails although its bytes move
(`limits.go:37`); two connections from one address can settle in two network
rooms (`room.go:317`); a removal that cannot be saved may lose the snapshot of all
other items while `PersistError` says nothing (`queue.go:237`); and two files of
one name sent to one peer can be confirmed for each other (`transfer.go:1567`).

Of the relay: `Drop` can take a room out of the hub into which somebody stepped after
`Remove` found it empty (`conn.go:328`, `room.go:385`); two handlers at one peer's
roster can leave it the older one until a handler is next there alone (`room.go:245`, the exception
`raced` of `RosterCurrent`); a transfer begun while its receiver's `cleanup` is
under way waits for the watchdog (`conn.go:236`, the exception `late` of
`AbortedWithPeer`); and a connection whose ping failed may be read from and never written to again
(`conn.go:93`).

Of the queue and the transfers: a crash between removing the old snapshot and renaming
the new one loses every pending offer, though the rename alone would replace it (`queue.go:370`
against the comment at 107); the chunk timeout never applies to a payload, as the
frame reader has no deadline to set, so a receive whose sender is suspended never
ends (`transfer.go:1308` against `config.go:241`); and two folders of one name received at
once unpack into one directory (`transfer.go:1135`, the exception `shared` of `FoldersStay`), which
the demo at `docs/demo-simulation.md:100` and the folder test at
`queue_commands_test.go:240` only show one after the other.

Of the replay guard and the pins: `replay.go:12` gives as the reason for `replayTTL` that
an older envelope is refused for its timestamp, but one stamped ahead of the receiver's
clock is fresh for up to `freshnessFuture` longer than its nonce is kept (the exception of
`HandledOnce`). `known_peers_cmds.go:59` recommends `@trust` for a peer with a new key, but
the announcements of such a peer are dropped before they reach the table from which `@trust`
takes the key. When `Forget` or `Trust` cannot be saved the user is told of a
failure and the memory keeps the change until a restart undoes it
(`known_peers.go:200`). After `@forget` an old announcement under way pins the old key
again (`discovery.go:333`, the exception `clean` of `ForgottenReturns`). An announcement of
the former network may be entered after the table was cleared for the new one
(`discovery.go:353`).

Of the browser application: one send at a time goes to a peer so that two do not race for
the same `transfer_ready` (`useSession.ts:254-256`), but the receiver looks for the first item
that is approved, and with two of them that is not always the one being sent: the stream then
goes to the wrong item, whose key cannot open it (605, the exception `together` of
`PairedRight`). A `transfer_begin` that is never answered, because the relay refused it or the
socket was down, or an item that was declined after its transfer was begun, leaves the peer
busy for good (`useSession.ts:578`, 649; the exception of `QueueDrains`). A relayed item is shown as done when the
worker has taken the key, before a byte has come (622). A channel that drops while a
download is being prepared leaves that download open with nobody to end it, until the page
goes (739, the exception `overtaken` of `OwnFrames`). An approval that was under way when the
user declined the item goes through (972). And the receiver of a relayed transfer hears of its end
only from the data plane, as no browser ever sends `transfer_end`.

## Not modelled

Cryptography and encodings (key agreement, AEAD, frames, zip, JSON) are pure computation
and appear, where needed, as model values. Rendering, prompts, help, icons, themes,
configuration files and logging keep no protocol state. HTTP routing, CORS and
address parsing have no state. Build, install and release scripts are not part of
the running system. Plain messages between machines are an envelope that `ReplayGuard`
follows to its handler, which only displays it. Everything else that is not modelled
yet is in the plan.

## Plan

1. `RelayTransfer`, `OrderedPipe` and `RelayRooms` with their proofs (done).
2. `PendingQueue` with `DurableQueue` and its proofs, `LanTransfer` for files (done).
3. `RelayControl`, `ReplayGuard`, `KnownPeers` (done, with their proofs).
4. `LanFolders`, and the theorems for `LanTransfer` and `LanFolders` (done).
5. `WebSession` with its theorems (done); next
   a composition with `RelayControl`, which refuses and delays what `WebSession` waits for.
6. `RateLimiter`, `CancelSlot`, `RelayClient` (reconnect), `DirectLink` (WebRTC and the
   fallback), `Tabs`.
