# Verification of tailcat.app

tailcat.app is a browser application for private rooms (two people) and Group
Beta rooms (a host and up to nine guests) over Tailcat streams, ordered
bidirectional byte streams that a Go/WASM module dials and accepts.  This
directory holds TLA+ modules that model its protocols, the TLC configurations
that check them on small instances, and proofs checked by TLAPS.

    tlc -config GroupLogReconnect.cfg GroupLogMC.tla    # one run
    tlapm GroupLogProofs.tla                            # the proofs of a module

There is no server behind a room.  The host's page is the only authority of a
group room, and everything a guest knows it has read from one control stream; in
a private room two equal pages agree with nothing but short control streams that
have no answer other than being closed.  What can go wrong is therefore mostly in
the order in which streams fail, timers fire and frames arrive, and in handlers
that continue after an `await` in a page that has moved on.

## Inventory

| Component | State it keeps | Operations | Hard part | What makes it correct | Modelled |
|---|---|---|---|---|---|
| Group room log (`web/group-room.js`, `web/group-protocol.js`) | host: `members`, `nextSeq`, `replay`, a `deduper` and a `resumeAttempt` per member, `roomPaused`; guest: `lastSeq`, `members`, `pendingEvents`, `connection`, `recoveryActive` | `commitEvent`, `sendText`, `handleMemberFrame`, `handleOwnerFrame`, `acceptEvent`, `markMemberReconnecting`, `beginRecovery`, `acceptResume`, `removeMember`, `setRoomPaused`, `leave` | a stream fails at any frame; replay and new events overlap; resubmission after an ambiguous write; timers against a resumption | every guest sees the same events in the same order without a silent gap; a text is committed at most once, in its sender's order, and its sender learns the outcome | `GroupLog`, `RoomLog` |
| Group admission (`group-room.js`) | `pending`, `joinToken`, `joinsPaused`, `joinPolicyGeneration`, seats | `requestJoin`, `acceptJoinRequest`, `approvePending`, `answerAddressChallenge`, `rejectPending`, `rotateInvitation`, `setJoinsPaused`, `cancelJoin`, `close` | an approval awaits an address challenge on another stream while requests expire and policies change | seats are never oversold; nobody is admitted under an invitation that was withdrawn; every request ends | `GroupAdmission` |
| Transfer tickets (`group-room.js`) | `tickets`, waiters, tombstones, armed tickets of a recipient | `requestTransferTickets`, `issueTransferTickets`, `armTicket`, `resolveTicketArm`, `consumeTransferTicket`, `handleTicketConsume`, `pruneTickets`, `invalidate...` | three parties, two awaits, time-outs, revocation by a pause or a removal | one ticket opens one transfer, between the members it names, before it expires | `GroupTickets` |
| Heartbeat and watchdog (`group-room.js`) | ping sets, failure counter, `lastOwnerPingAt` | `startOwnerHeartbeat`, `startOwnerWatchdog` | late answers | a live stream is kept, a dead one is noticed | `Heartbeat`; in the others a stream that breaks |
| Frames and queues (`group-protocol.js`) | reader buffer, writer queue | `GroupFrameReader.read`, `GroupFrameWriter.send` | overflow while a write is pending | order kept, no hole, the limits count what is queued | `FrameWriter`; replay buffer and deduper in `GroupLog` |
| Private session (`web/app.js`) | `activeSession`, `pendingInboundHandshake`, `handshakeWaiter`, pending address and nonce | `connectToPeer`, `receiveHello...`, `disconnectPeer`, heartbeat, check after a resume | both sides connect at once; answers that come late or not at all | both sides end in the same session or in none; a late answer opens nothing | `PrivateSession` |
| Private text queue (`app.js`) | one queue per session | `sendText`, `receiveText` | a session ends under a queued text | order, no text crosses into another session | `PrivateText` |
| File transfer (`app.js`) | `activeFileTransfer`, `outgoingFileQueue`, staged items, auto-receive budget | `sendFileTransfer`, `receiveFile`, `processFileQueue`, cancelling, staging | decision dialogs, a failing last write, a session that changes under an await | what is shown as sent is stored; queues never stall; budgets hold | `PrivateFiles` |
| Group batches (`app.js`) | keyed scheduler, batch entries, status per recipient | `enqueueGroupFiles`, `processGroupFileBatch`, `sendGroupFileTransfer`, `cancelScope` | pause, revocation and cancellation in any await of a transfer | counters stay true, no slot idles, no stale task starts, nothing is written for a file that was withdrawn, every recipient has an outcome | `TransferScheduler` |
| File sinks (`web/file-sinks.js`, `web/opfs-worker.js`) | sink state, worker requests, open handles, reserved ids | create, `write`, `close`, `abort`, `remove`, clean-up after a reload | time-outs against late answers of the worker | a closed file is complete; no handle or file is left behind | `FileSinks` |
| Wake lock (`web/mobile-runtime.js`) | references, `pendingRequest`, `sentinel`, retry timer | `acquire`, `release`, `cleanup`, visibility | a request is pending while references change | held while needed, released otherwise | `WakeLock` |
| Go/WASM bridge (`client_js.go`, `main_js.go`) | `pending`, `connections`, `closed` | `reserveDial`, `finishFailedDial`, `finishSuccessfulDial`, `releaseConnection`, `close` | close while dialling | bound on streams, nothing outlives the session | `BridgeSession` |
| Private calls (`app.js`) | `currentCallId`, `pendingCallOffer`, `peerConnection`, `localMediaStream`, `liveGeneration`, two timers | `startLiveLink`, `showIncomingCall`, `answerIncomingCall`, `endLiveLink`, `attemptIceRestart` | a call ends under an await for the camera or the network; messages overtake one another | no camera stays on, one call at a time, a call that does not come about ends | `LiveCall` |
| Voice messages (`app.js`) | recorder, group outgoing voice | record, send, receive | browser media | - | no |
| i18n, markup, styles, QR, legal pages, build | none | rendering | none | - | no |

How they interact: `app.js` creates one `GroupRoomController` and one Tailcat
listener.  An incoming stream goes to `handleIncoming` (group) or
`routeIncomingConnection` (private).  The controller dials through a transport
the bridge gives it and reports events to the page by callbacks (`onEvent`,
`onStatus`, `onSnapshot`).  A group file transfer uses a stream of its own that a
ticket, obtained over the control streams, authorises; its receiver writes to a
file sink and holds the wake lock.  A private session is what texts and files
check after most awaits: they carry its id and stop when it is not
`activeSession` any more.

## Modules

| Module | Role |
|---|---|
| `RoomLog` | abstract specification: a log that only grows, a cursor per member, the fate of each text |
| `GroupLog`, `GroupLogMC` | the ordered room as the code builds it: host, guests, streams; and its instances |
| `GroupLogProofs` | theorems about GroupLog: types, the stay of a member, what it is delivered |
| `GroupTextProofs` | theorems about GroupLog: the fate and the order of texts, the refinement of RoomLog |
| `GroupTickets`, `GroupTicketsMC` | transfer tickets between the host and its members |
| `GroupTicketsProofs` | theorems about GroupTickets |
| `GroupAdmission`, `GroupAdmissionMC` | requests, approvals, invitations, the closing of the room |
| `GroupAdmissionProofs` | theorems about GroupAdmission |
| `PrivateSession`, `PrivateSessionMC` | handshake, session and heartbeat of two pages |
| `PrivateSessionProofs` | theorems about PrivateSession |
| `PrivateText` | the text queue of a private session |
| `PrivateFiles` | files between the two pages of a private room |
| `TransferScheduler` | the keyed scheduler, group batches, the sender of a group file |
| `FileSinks` | storage of received files, with and without the worker |
| `WakeLock` | the screen lock |
| `BridgeSession` | dials and streams of one client of the bridge |
| `BridgeSessionProofs` | theorems about BridgeSession |
| `FrameWriter` | the send queue of one control stream |
| `Heartbeat` | the pings of one group member |
| `LiveCall` | calls between the two pages of a private room |
| `PageParts`, `PagePartsMC` | the components of a page from `PrivateText` to `LiveCall`, side by side |
| `PagePartsProofs` | theorems about the parts of a page: locks, texts, batches, calls, private files |
| `PageBooksProofs` | theorems about what the parts of a page store and count, and their types |

A definition marked *Mutation* is a deliberately wrong variant of its neighbour,
the way a bug in the code would look.  No specification uses one; put in the
place of the neighbour it makes a property fail, which shows that the property
speaks of the code.

In all modules an action is what one page does between two awaits.  Where the
code goes on after an await, the continuation is an action of its own, and it
repeats exactly the checks the code repeats.

### GroupLog and the code

Both sides are modelled: the host's controller and each guest's controller.
`log` stands for all events committed (`nextSeq` is its length); the replay
buffer is its tail of `ReplayMax` events.  `status[m]` is `out` before approval,
`committing` while JOIN_ACCEPT is written, then the member's status, and `gone`
after removal, so a person who joins again is another element of `Member` (the
code draws a new member id).  `conn[m]` is the stream in `member.connection`,
`resume[m]` is `member.resumeAttempt` with the local `cursor` of its loop and
the end of the batch it is writing.  On the guest, `gconn[m]` is
`this.connection`, `phase[m]` tells `mode` and where `beginRecovery` is
suspended, `draft[m]` is what the page shows of a text, and the texts `sending`
are those in `pendingEvents`.

Streams are numbered per member in the order they are dialled; `up[m][s]` and
`down[m][s]` are the bytes under way.  A stream fails by `Break`, at any
moment; what it still carried may be read or lost (`Drop`).  A write onto a
broken stream goes nowhere, because the code learns of it later or not at all;
each side notices in its own action (`LoseMember`, `BeginRecovery`,
`AbandonResume`, `ResumeFailed`, `DropPending`).

`acceptResume`, which awaits each write, is `AcceptResume`, `ReplayEvent` and
`ReplayResync` per frame, and `ActivateResume`; anything may run in between, and
each step checks again what `ensureCurrentAttempt` checks.  `beginRecovery` is
`BeginRecovery`, `DialAgain`, `ResumeAccepted`, `Resubmit` per text and
`Recovered`.  A recovery that `sendText` begins closes the stream under
`guestLoop`, which still handles the frames its reader holds: `Reads` allows them
until `DialAgain`.

Abstracted: random ids are numbers, texts have no content, byte limits are item
limits, deadlines pass at any moment while their timer is armed.  Missed
heartbeats and queue overflows are broken streams.  JOIN_POLICY, PING/PONG and
the frames of tickets (`GroupTickets`) are not frames of this module.

### RoomLog

It has no streams: `Post` commits an event that the log so far admits, `Deliver`
moves a cursor by one event and confirms the text it passes, `Jump` stands for
joining and resynchronising, `Submit` and `Fail` are the sender's view.
`ImplementsRoom` maps `cursor` to `lastSeq` and takes the other variables as they
are.

### GroupTickets and the code

A ticket, the request that led to it and its transfer are one number `t`.
`ask[t]` is the sender's `requestTransferTickets`, `issued` is `issuedTickets`,
`arming[t]` is the await inside `issueTransferTickets` with its waiter and the
streams both parties had before it, `tickets[x]` is the map `tickets` of x, and
`use[t]` is the recipient's `consumeTransferTicket`.  `deal[t]` names the parties
and the streams the two requests were written to, which a time-out closes.
`consumed` and `revoked` are histories the properties need.

`issueTransferTickets` is `Issue` up to its await and `FinishArming` or
`FailArming` after it.  `Busy` is what makes the module worth having:
`ownerStreamLoop` awaits `handleMemberFrame`, so a member's next frame is not read
while its ticket is being armed.  A pause rejects the waiter, but
`issueTransferTickets` goes on only later, when the room may be open again; and as
both parties are still there, its `catch` takes the recipient's stream
although nothing was wrong with it (`FailArming` from "rejected").  An
acknowledgement without a waiter throws and costs a stream too
(`HearUnexpectedArmed`).

The control streams are those of GroupLog with less detail: each member has one
current stream, two queues, and a number that a resumption raises; the
replay of `acceptResume` is one frame that brings the member list up to date.
A member's deadline for a ticket lies behind the host's (it starts when the arm
arrives), so `ExpireArmed` needs the ticket to be gone at the host.  Tombstones
are taken to outlive the frames they absorb; bindings always match, so
what an honest sender never does (a second offer, another size) is left out.

### GroupAdmission and the code

`entry[g]` is the host's view of the request of `g`: `pending` and `approving` (in
`approvePendingTransaction`, before and during the address verification),
`committing` (JOIN_ACCEPT is being written), then the member's status.
`token` is the invitation the request came with, `gen` the
`joinPolicyGeneration` an approval was begun under, `proof` the open challenge
stream.  `Approve` reserves the seat, `AnswerAddressChallenge` is the applicant's
page, `Verified` repeats what the code checks after the await and writes
JOIN_ACCEPT, `Commit` adds the member, and `VerifyFails` and `CommitFails` are
its two error paths.  `Rejected` and `Dropped` are `rejectPending` and
`dropPending`; `Revoked` is `cancelPendingApprovals`, which both pauses call.
Expiry may meet an approval: `Expire` rejects it all the same, as the timer does.
`BeginClose` and `EndClose` are the two halves of `close()` around its await,
between which everything else still runs.  What was written to a stream before it
was closed may be read or lost (`ReadAnswer`, `ReadNoAnswer`).

### PrivateSession and the code

`page[p]` holds the globals: `pendingPeer` and `pendingNonce`, `waiter`
(`handshakeWaiter`), `candidate` (`pendingInboundHandshake`), `active`
(`activeSession`) and the failures and pings of the heartbeat.  `call[c]` is one
run of `connectToPeer`, whose nonce is `c`; the session a HELLO is answered with
carries the same number, because the code makes one per HELLO it accepts.

Every control message is a stream of its own; its sender learns only that the
receiver closed it.  `net` holds messages not yet read, and a message that is never
read is a lost one.  `open` holds ACK and CONFIRM streams whose sender awaits the
close: `AckEnds` and `ConfirmCloses` are what the code does afterwards, with
whatever the page has become in the meantime.  `Connect`, `Dial` and
`HandshakeFails` are the parts of `connectToPeer` between its awaits; in
particular it reads the pending nonce again after the first of them.  `Stop` ends
the room, `Crash` reloads the page (its address is remembered, nothing else is),
`Heartbeat`, `Pong`, `PingAnswered` and `PingFails` are the session's heartbeat,
and `ResumeCheck` is the check when a page comes back to the foreground.

### PrivateText, PrivateFiles and the code

`PrivateText` has one writer and one reader.  A text waits in the queue of the
session it was submitted in (`SendText`), is written when the one before it is
settled (`Start`), and ends by TEXT_ACK or a failure; `Leave` settles the whole
queue, also while the text in front awaits its acknowledgement.

`PrivateFiles` has both halves of the TCF1 exchange.  The sender: `Enqueue`,
`ProcessQueue` (which every path that ends a transfer calls), `Offer`,
`ReadAccept`, `WriteBody`, `ReadDone`, `SenderFails`, `CancelOutgoing`.  The
receiver: `ReadOffer`, `CheckCapacity`, `BeginDecision` (automatic within the
budget, which was looked at before the capacity was awaited, or by the user),
`PressSave`, `SinkCreated`, `Accept`, `ReadBody`, `FileReady`, `WriteDone`,
`CloseReceive`, `LeaveReceive`.  `EndSession` is a room that is stopped, which
cancels what is under way; `DropSession` is HELLO_CANCEL, which clears the peer
without stopping a file that is being moved, so that `Join` may begin a session
under it.  `file[f]` is the receiver's disk; `CloseReceive` takes the abort and the
removal of its sink to succeed, and how they fail is in `FileSinks` alone.

### TransferScheduler and the code

`sched` is the closure of `createKeyedTransferScheduler`: lanes by key (room and
recipient), the ready queue, running and pending counts; `Pumped`, `Enqueued`,
`TaskOver` and `CancelScope` are its functions, written as functions of that
record because the code runs a pump to its end in one step (`Shifted` are the
ready keys that a pump takes, `AllEnqueued` gives it the tasks of a batch).  `phase[t]` is where
`processGroupFileBatch` and `sendGroupFileTransfer` are suspended for one
recipient.  `PauseRoom`, `ResumeRoom`, `CloseRoom`, `RevokeMember` and
`CancelFile` fall between any two steps; `room.gen` is the transfer generation.
`BatchEnds` is the part after all tasks have settled, which fills in a status for
those that never ran.

`MayStart` is `assertGroupTransferMayStart`.  The code calls it before it asks for a
ticket (`GoOn`), when it has one (`Granted`), and after each await of the dial
(`Dialled`); then the connection is registered and it is not called again.  What
follows are two writes with an await between them: TCF_MAGIC, under way in phase
`magic`, and the frame with the OFFER (`Offer`, which has no guard on the room).
From the registration on (`OnWire`) a cancellation, a revocation and the end of the
room close the connection (`Cut`), and the task can only fail.  A pause does
not: it raises the generation and empties the queues, and what is on the wire goes
on.

So it is *not* true of the code that every offer is written in an open room of its
own generation: after `EnqueueGroupFiles`, `Granted`, `Dialled`, `PauseRoom`,
`Offer` one is written in a paused room.  The comment in `handleGroupStatus`
(`app.js:1376`) leaves room for it: "Transfers already on the wire may finish, but
queued recipients from an earlier generation must never start".  The offer does
no harm: the pause revokes its ticket, the receiver forgets it with the notice,
and a revoked ticket is never used (`NothingHeldAfterNotice`, `RevokedNeverUsed`).
`NoStaleTransfer` states what the code does keep, of a task in every await.
`StartsCurrent`: one that leaves its queue to run belongs to the open room and its
generation, though it is started by whichever step frees a slot.  This rests on the
pause emptying the queues before any slot can pass to a waiting task.
`WritesWanted`: no offer and no data is written for a file that was cancelled, whose
recipient was revoked, or whose room has closed.  This rests on the checks of the
dial and on the closing of connections, which must hand over to each other without
a gap; the mutant registers the connection one await later.

### FileSinks and the code

`sink[s]` is a `BaseFileSink` with its current operation and `calls[s]` the
operations chained behind it.  Each step of an operation awaits the storage
(`Await`, `StorageAnswers`, `Continue`).  In worker mode the request lies in
`inbox` until `WorkerHandles`; `RequestTimeout` rejects it in the page while the
worker may still carry it out, and `WorkerFails` ends the worker.  `Fail` is the
abort after a failed write or close, which may fail too.  `Reload` is a new page:
`Initialize` removes the files of the last one.  `excused` marks sinks whose
removal itself was refused or went unanswered: the code gives these up until the
next reload, on purpose.

### WakeLock and the code

`request` is `pendingRequest`: `asking` while the browser has not answered,
`dropping` while `request()` awaits the release of a lock nobody wants any more.
`Granted`, `RequestEnds`, `Taken` (the browser takes the lock back), `Retry`,
`Hide`, `Show` and `Cleanup` are the callbacks.  `WillingSpec` is a browser that
grants every request; it may take a lock back later.

### BridgeSession and the code

`closed`, `pending` and `connections` are the fields of `jsSession`; `dial[d]` is
the goroutine of one `dial()` and the stream it yields.  `ReserveDial`,
`FinishFailedDial`, `FinishSuccessfulDial`, `CloseStream` and `Close` are the
critical sections.  A dial may still succeed after its context was cancelled, and
`close()` gives its streams up one after the other (`GiveUp`) before it closes
the client.

### FrameWriter and the code

`frames` are the frames `send` accepted, with their fate; `writing` is the one
`connection.write` has, `counted` and `bytes` are `pendingFrames` and
`pendingBytes`.  The tail of promises is the order of `Turn`, and `Release` the
`finally` that lowers the counters: it runs some time after the write is over, when
whoever awaited the write may have sent again.  An overflow, a failed write or a
`close` sets `shut`; frames that still wait are dropped in their turn.

### Heartbeat and the code

`outstanding`, `stale` and `failures` are the fields of one member at the host,
`Tick` is the body of its interval, `ReadPong` the branch of `handleMemberFrame`
that accepts an answer, ignores a late one or ends the stream for a forged one.
The member answers every PING it reads (`ReadPing`), however late.

### LiveCall and the code

`phone[p]` holds the globals of a call; `task[p][c]` is `startLiveLink` or
`answerIncomingCall` of call c at its await, `redo[p][c]` is `attemptIceRestart`.
`liveGeneration` is the flag `fresh`, which `EndLiveLink` takes from all of them;
where the code looks at the generation the action does, and where it does not
(`Refused`, `RestartSent`, `RestartFails`) it goes on regardless.  `lost` are timers
that run although `rtcDisconnectTimer` has been given another one.  `on[p]` are
the streams of camera and microphone that have not been stopped.

### PageParts

The components of a page from `PrivateText` to `LiveCall` share no state: what one
needs of another (a session, a stream, storage) is nondeterministic within its
module.  `PageParts` checks them in one run: `part` is chosen in the initial state,
only that part moves, and each property is a conjunction over the parts.  The
behaviours are exactly those of the instances listed in the module.  The bounds of
the parts are its CONSTANTS: `PageParts.cfg` and `PagePartsMC` give them their values,
and the theorems hold for all of them.

## Runs

| Run | Checks | Instance | Distinct states |
|---|---|---|---|
| `group_log_reconnect` | TypeOK, MembershipInterval, NoGapAfterResume, NothingWithheld, ImplementsRoom | 1 member, 1 text of its own and 1 of the host, 3 streams, 1 pause, replay 1, deduper 2 | 615,239 |
| `group_log_members` | RosterAgrees | 2 members, one of which loses streams, 2 streams, replay 1 | 644,143 |
| `group_log_liveness` | NoDuplicateCommit, SubmissionOrder, FailedOnlyAfterResync, DraftsSettle, MembersConverge | 1 member, 2 texts, 2 streams, 2 toggles of the pause, replay 2, deduper 2, pending 2, fairness | 63,437 |
| `tickets_pause` | TypeOK, RevokedNeverUsed, GrantIsArmed, OutstandingBound, NothingHeldAfterNotice | 1 member and the host, 2 tickets, 2 streams, 2 toggles of the pause, cap 1 | 380,222 |
| `tickets_members` | NothingHeldAfterNotice | 2 members and the host, 1 ticket, 2 streams, cap 1 | 1,525,993 |
| `group_admission` | TypeOK, SeatBound, PendingHasToken, NoGhostMember, JoinAnswered | 2 applicants, 1 seat beside the host, 2 pending, 2 pauses or rotations, fairness | 196,958 |
| `private_session` | TypeOK, FailedNeverOpens, FreeAgain, OpenedByConfirm, NeverReplaced, HalfSessionEnds, ConnectReturns | 2 pages, 2 calls of `connectToPeer` in all, 1 stop, reload or resume, 2 heartbeats may fail, fairness | 152,600 |
| `page_parts` | TypeOK, SentMeansStored, NothingLeftBehind, OneAtATime, AutoBudget, NotStranded, DeliveredInOrder, BooksAgree, BatchSettled, NoStaleTransfer, NoUselessLock | see below | 1,284,532 |
| `stale_pause` | RecoveredPauseCurrent, violated | 1 member, 2 streams, 1 pause | about 900 |
| `unanswered_draft` | EveryDraftAnswered, violated | 1 member, 1 text, 1 of the host, replay 3, fairness | 19,098 |
| `mutual_wait` | NoMutualWait, violated | 2 members, 2 tickets, 1 stream | 21,538 |
| `wake_lost` | HeldAtRest, violated | 2 reasons, a browser that grants everything | 35 |

What the properties of each run say together:

* `group_log_reconnect`: whatever breaks between two recoveries, the log tells
  each stay as one interval, a resumed member has no gap it does not know of, an
  event is never withheld from a member that is online, and every step is a step
  of `RoomLog`.
* `group_log_members`: each member's list agrees with the log at the place it has
  reached.
* `group_log_liveness`: texts are committed once, in order until a pause ends; a
  text is called failed only where a resync jumped over it; every text is settled
  and whoever stays catches up.
* `tickets_...`: a revoked ticket is never used, what is granted is armed at its
  recipient, the cap holds although it is counted before an await, and nobody
  holds a ticket of a party it knows to be gone or of a room it knows to be paused.
* `group_admission`: overlapping approvals never oversell the room, no request of
  an older invitation can still be admitted, an applicant that believes to be a
  member although its admission was revoked sits on a closed stream, and
  everybody who asks is answered or finds the stream closed.
* `private_session`: an attempt reported as failed never becomes the session, a
  page without an attempt keeps nothing of one, the page dialled is in the session
  only after a confirmation, sessions do not replace each other, nobody stays alone
  in a session, and every connect returns.
* `page_parts`: both sides agree on what was stored; nothing unfinished is left
  behind; one file at a time; texts and frames arrive in order and without a
  hole; budgets, queues, counters and slots stay true under cancellation; no late
  heartbeat answer is taken for a forged one (`BooksAgree`); no camera stays on
  after its call, and a call is restarted once; no group task starts in a paused room or a
  later one, and none writes for a file that was withdrawn; every recipient has an
  outcome; the screen is not kept awake for nobody.

Parts of `page_parts`: two files from one page under two sessions, with one
automatic file per session (`sameWay`); one file each way (`bothWays`); three
texts of which two fit the queue, two sessions (`texts`); two batches for two
members with one slot (`batches`), one batch of two files (`files`), both with
two rooms and two pauses, closings, revocations or cancellations; one sink of
one chunk, four calls and a reload (`sinks`); two reasons referenced twice
(`wakeLock`); four dials of which two fit (`bridge`); four frames of one or two
bytes of which three or four bytes fit (`queue`); five pings over two streams,
of which three may go unanswered in a row (`heartbeat`); two calls, also of one
page each, with one disturbance or loss of the session (`calls`), and one call
with two (`restarts`).

Bounds.  Every bound is a constant that a guard mentions: `Max...` and `Active`
(the members whose streams may fail).  They limit what users and the network do,
never what the code does in answer, so a handler is never disabled by a bound; a
member whose streams are used up can still time out.  Three streams give two
recoveries, hence a late frame or an old attempt of the first during the second.
A replay buffer of one or two lets the same run replay completely, start a second
batch, and resynchronise.  A deduper as small as the pending queue is the
tightest pair for which duplicates are recognised: the code has 256 and 64.
For tickets two toggles let the room pause and go on within one arming; a second
stream lets a party be replaced under an await.  Two applicants for one
seat are the smallest competition, and two toggles let a pause and a rotation
fall into one approval.  Two calls of `connectToPeer` cross, follow one another,
or come from one page with a stop in between; the two failures a session needs to
end are `HEARTBEAT_FAILURE_LIMIT` as the code has it.  Deadlock is not
checked because a room in which everybody has left, or whose bounds are used up,
may stop.

Fairness is weak.  In `GroupLog` it is given to the handlers of frames that have
arrived, to the continuation of an await and to armed timers: the event loops of
both pages run.  A user's act (submit, leave, remove, pause, approve) and the
network (`Break`, `Drop`) get none.  `RecoveryTimeout` and `GraceTimeout` are
timers of `setTimeout`; without them a member that has no stream left could recover
for ever.  `PrivateSession` needs the timers only: the start of a dial or its
failure, the handshake's time-out, the heartbeat's interval and the end of a ping
by answer or time-out; a message may stay unread for ever.  `GroupAdmission` has
the reading of a request, the expiry timer, the deadline of a write, the end of a
stream, the answer to an applicant and the two closings; nobody at the host need
ever decide.

## Disagreements with the documentation

Each of the first four is a run that TLC refutes.

* `stale_pause`: `acceptResume` reads `roomPaused` when it writes RESUME_ACCEPT,
  `setRoomPaused` tells online members only, and activation does not send the
  state again.  A pause or unpause during the replay leaves the recovered
  member with the old value (a member that believes the room paused cannot send).
* `unanswered_draft`: the resync may come first and the event in answer to the
  resubmission after it; `acceptEvent` ignores it as old and the text stays
  pending.  What holds is `DraftsSettle`: unless a resync skipped it,
  every text is answered or its sender is out of the room.
* `mutual_wait`: two members that ask for a ticket to each other at the same time
  block each other's stream loop at the host.  Both acknowledge, neither
  acknowledgement is read, and after `ticketControlTimeoutMs` both streams are
  closed.  Until then the host reads nothing else of the two, no text and no
  heartbeat answer.  README.md:61 promises that a slow member does not block the
  room.
* `wake_lost`: a reason acquired while an unwanted lock is being released shares
  the pending request, which then answers that there is no lock; nobody asks
  again, so the page holds a reason and no lock.

Seen while modelling, without a run of their own:

* A resubmitted text whose event has left the replay buffer is answered
  DUPLICATE_EXPIRED and shown as failed although the others have it;
  `FailedOnlyAfterResync` says exactly when.
* Two pages that connect at once can each accept the other's HELLO, because
  `connectToPeer` does not look at a handshake that is already coming in; the
  comment at web/app.js:2274 excludes it ("Do not create two competing sessions").
  They may then enter different sessions; `HalfSessionEnds` shows that the
  heartbeat ends it.
* A text that was refused during a pause stays pending when its refusal is lost
  with the stream; after the pause it is submitted again and enters the log behind
  later texts of its sender (web/group-room.js:1500).  `SubmissionOrder` therefore
  speaks of rooms that were not reopened.
* A stop during the first await of `connectToPeer`, followed by another connect,
  makes the first call dial under the nonce of the second (web/app.js:2105).
* The comment at web/group-room.js:750 says a rotation must not close a stream
  once JOIN_ACCEPT is being written; `rotateInvitation` rejects with `force`
  (1796) and does.  `NoGhostMember` holds all the same.
* `attemptIceRestart` and the refusal in `answerIncomingCall` call `endLiveLink`
  after a failed await without looking at `liveGeneration` (web/app.js:5186, 5350):
  the remains of a call that was hung up end the call that follows it.
* The last timer of `attemptIceRestart` (5179) is stored over one that a second
  disconnection may have set; that one cannot be cleared any more, and ends a call
  that has recovered by then.
* A page rings until its user decides.  If the caller's RTC_HANGUP is lost or
  overtakes its RTC_OFFER, nothing else ends the ringing, and meanwhile the page
  answers every call with BUSY.  A callee that hangs up before its camera is
  granted tells nobody.
* While the host is closing, both pauses can still be toggled.
* In worker mode, a file whose handle the page cannot get after a successful INIT
  stays until the next reload.

## Proofs

`GroupLogProofs` proves, for all constants that satisfy `GroupLogAssumption`
(the limits are positive, the owner is not a member):

* `TypeCorrect`: `Spec => []TypeOK`.  TypeOK is inductive; there is one lemma per
  group of actions, on top of lemmas about pushing and relaying frames,
  sequences and the replay window.
* `StayIsInterval`: `Spec => []MembershipInterval`.  MembershipInterval is not
  inductive: it does not say why a member that has left is not spoken of
  again.  The invariant is `StayInv`: what the log says of a member fits
  its status (`StatusTold`: nothing while it is out or committing, MEMBER_JOINED
  but not MEMBER_LEFT while it is online or reconnecting), a resume attempt
  exists only for a member that is reconnecting (`ResumingAway`, without it
  the activation of an old attempt could revive a removed member), and
  MembershipInterval itself.
* `ResumedStreamHasNoGap`, `HostWithholdsNothing` and the action property
  `NobodyGoesBack`, from the invariant `DeliveryInv`, which says four things of
  each member.  `Placed`: a member dials only when its newest stream is broken, so
  only that one can be intact, and the host serves or resumes it nowhere else.
  `Order`: a frame that names an event follows one that leads up to it (`Chained`),
  no frame speaks of events that are not in the log (`Capped`), and the number of a
  RESYNC_REQUIRED is behind neither lastSeq nor any number sent before, on this
  stream or an older one (`Forward`, `Rising`, `Before`), which is why `lastSeq =
  frame.seq` is safe without a comparison.  `Asked`: a request to resume that is
  under way names no event its member has not applied.  `Covered`: the frames of
  an intact stream reach the end of the log, or the cursor of its replay.  The
  lemmas about queues say how these survive a frame that is written (`AppendFlow`)
  and one that is read (`ReadFlow`, `ElsewhereFlow`); a step then changes one
  member, and the others are bystanders that are sent one event at most.

`GroupTextProofs` proves, from the same assumptions:

* `RepeatsAreApart`: a text enters the log again only after `DedupeMax` other texts
  of its sender.  The invariant is `DedupeInv`: the deduper holds the newest
  texts of its member, each once (`Kept`).
* `CommittedOnce`: `MaxText <= DedupeMax => (Spec => []NoDuplicateCommit)`.  A member
  submits again, after a reconnection, whatever it has seen no answer to; the
  host recognises it by the last `dedupeMaxItems` texts of that member.  A text that
  a resynchronisation skipped is never answered (see the disagreements above),
  so after that many further texts a reconnection does commit it again, and the
  hypothesis cannot be dropped.  `MaxText` is the model's bound on what a member
  sends; the hypothesis says that it sends no more than the deduper remembers.
* `FailureMeansSkipped`: `Spec => []FailedOnlyAfterResync`, from `TextInv`, which
  follows each text of a member: it has one copy on its way (`Written`), to a host
  that listens there (`Heeded`); one that was refused is not on its way any more
  (`Refused`), and its sender reads the refusal after every event that was sent
  before it (`Settled`).
* `RoomImplemented`: `Spec /\ []NoDuplicateCommit => ImplementsRoom`, and with
  `CommittedOnce` also `RoomImplementedInFull`, without the second conjunct.  The
  simulation needs two more facts (`RoomInv`): what the host's books say of
  somebody is what the log says last of their presence (`Announced`), because
  RoomLog has no books, and texts are submitted in their order (`InTurn`).
  `EveryStep` sorts the steps of GroupLog: one announces an event, moves a cursor,
  settles a text, or is a stutter of RoomLog.
* `TextsKeepTheirOrder`: `Spec /\ []NoDuplicateCommit => []SubmissionOrder`, and with
  `CommittedOnce` also `TextsKeepTheirOrderInFull`.  The invariant `OrderInv` speaks of
  the texts of a member that still wait for their commit (`Owed`): they come after
  all that the log holds (`Ahead`), each submission under way follows those made
  before it (`Lined`), and all are on the stream their sender writes to as long as
  that is intact (`Carried`), which is what makes a new text come last.
* `ConfirmedIsCommitted`: what a sender is shown as delivered is in the log.
* `RosterFollowsLog`: `Spec => []RosterAgrees`.  The reference, `RosterAfter`, is a
  recursive function over the log; `GroupLogProofs` proves its recursion equation
  (`RosterRecursion`) and that appending an event leaves the earlier lists alone.
  It does so by the least number at which two solutions would differ,
  because the library's induction theorems take an operator.  `RosterInv` then
  says that the host's books are the list at the end of the log, that each list
  under way to a member (`Tells`) is the one at the event it comes with, and
  that what a member keeps is the one at its lastSeq (`Informed`).

`BridgeSessionProofs` proves, for any finite set of dials and any natural bound
(`BridgeAssumption`, an assumption of each theorem):

* `StreamsBounded`: never more than `maxSessionStreams` streams and dials, and
  the counters agree with what they count.  The bound alone is not inductive,
  because the code compares it with its counters: the invariant `BridgeInv`
  carries both, and each action's lemma shows how one dial enters or leaves the
  two finite sets that are counted.
* `SessionLeavesNothing`: no stream is open once the client is being closed.  It
  needs `CloseOrder`: after the close, a stream still open is one that close() has
  yet to reach.
* `BridgeTypeCorrect`: the type invariant, from the same invariant.

`GroupAdmissionProofs` proves, for any finite set of applicants and any limits
(`AdmissionAssumption`):

* `SeatsBounded`, `WaitingHoldTheToken`, `NoGhosts` and the type invariant.
  An approval awaits twice, and only what is counted during the awaits makes it
  sound: `Reserved` counts the applicants being approved or committed with the
  members, `Sound` says what holds of one request (a waiting one carries the
  token that is valid; the stream of one that is gone is closed; nobody has a
  request that has not sent one).  Together they are `AdmissionInv`.

`GroupTicketsProofs` proves, for any members, limits and bounds
(`GroupTicketsAssumption`):

* `RevokedStaysUnused`, `GrantsAreArmed`, `OutstandingIsBounded`,
  `NoticeClearsTickets` and the type invariant.  What host and member know of a
  ticket is linked by the frames between them, so the invariant `TicketInv` says
  what each frame in flight still means when it is read: a request that is
  unread names a ticket nothing else names (`UpInv`, `AskedOnce`), a CONSUMED
  that says ok names a consumed ticket and a MEMBER_LEFT a member that is gone
  (`DownInv`), a pause in flight to a recipient was sent before the arm of any
  ticket that is issued (`PauseOrder`), and an armed recipient holds what is
  issued (`Held`).

`PrivateSessionProofs` proves, for any pages, not only two, and any bounds
(`SessionAssumption`):

* `FailedStaysClosed`, `AttemptsLeaveNothing`, `ConfirmOpens`, the action
  property `SessionsAreNotReplaced` and the type invariant.  The awaits of a
  handshake let other calls, other pages and late messages in between;
  the invariant `SessionInv` says whose each nonce and session number is: a
  message of a handshake is about a call that was dialled (`Honest`), whatever
  carries the nonce a page waits under is about the call that waits (`Owned`),
  and nobody has seen a CONFIRM its caller has not sent (`Confirmed`).  Steps
  that only give something up are treated alike; the six that take something up
  (a connect, its dial, each message of the handshake) have a lemma each.

`PagePartsProofs` proves, of the parts of a page and for any bounds:

* `LockIsWanted` (`WakeLock`): the screen is kept awake only for somebody.  `LockInv`
  says when the held lock and the one that is being acquired are still wanted.
* `DeliveryIsInOrder`: of `PrivateText`, that texts are displayed once and in their
  order (`TextInv`: which session a text belongs to, what may still become of it, and
  that the queue holds the later ones), and of `FrameWriter`, that the stream gets the
  accepted frames without a hole (`QueueInv`: the shape of the queue, its order, and
  what is left when the writer ends).
* `BatchesSettle` (`TransferScheduler`), from `BatchInv`, for any recipients and
  files.  The lemma `TaskEffect` says what a step of a task may do: a file that has
  an outcome keeps it.
* `OneTransferAtATime`, `BudgetsHold` and `NobodyStranded` (`PrivateFiles` and
  `LiveCall`), for any number of files of either page and any budget, assuming that
  files and pages are distinct and none of them is "none" (`Apart`) and that the
  budget is a number (`FileBounds`).  Of files, `FileInv` says what the disk
  holds, by what its receiver has done and its sender believes (`Kept`); that
  nothing is paid before its decision (`Due`); that `activeFileTransfer` names the one
  that runs (`Occupied`); that files wait once each and somebody goes on with the
  queue (`Queued`; a cancelled one leaves it by its index); and that the automatic
  files of this and of earlier sessions are counted (`Charged`).  Of calls, `CallInv`
  ties the two pages by what is in the mail (`Linked`) and each page's state to the
  tasks it awaits (`InStep`, `Stages`).

`PageBooksProofs` proves, from these and of the other parts:

* `StoredWhenSent` and `NothingIsLeft` add the storage and the bridge.  `SinkInv`
  says of a sink that lost neither an answer nor a removal that its operation and
  the answer to it tell what is on disk and open (`Sound`), and that the
  worker has at most the request it awaits (`Asked`), so that a late answer is
  never taken for another one's; of the others nothing is claimed, as in the
  code.  The invariant of the bridge is the one of `BridgeSessionProofs`, instantiated.
* `BooksAreKept`: what a part counts, to admit or refuse, is what there is.  Of the
  scheduler, for any distinct recipients and any limits (`BatchBounds`), `SchedInv`
  says that a lane that runs nothing has something queued and is among the ready
  keys (`ReadyFits`), that a task is in one lane, that of its room and recipient, and
  once (`LaneFits`), that `active` counts the lanes that run a task and `pending` the
  tasks in hand (`Booked`), and that a key is left ready only when all slots are taken
  (`FullIfReady`).  A pump is the hard step: `Shifted` says which ready keys it takes
  by what the earlier ones have started, and the proof finds the number of keys it
  stops at.  Of the frame queue, `QueueBooks` says that it holds as many frames and
  bytes as it has counted, on top of `QueueInv`; of the heartbeat, `BeatInv` says that
  the pings under way, to the member and back, are the stale ones in their order with
  the outstanding one behind them, for any limit (`BeatBounds`), so that the host's
  lists are never cut; of the bridge it
  is `CountersHonest` and `StreamBound` of `BridgeSessionProofs`.
* `TransfersAreWanted`, the action property of `TransferScheduler`, under the same
  assumptions.  Two invariants carry it.  `Waits`: a waiting task is in the queue
  of its room and recipient, and that room is the present one, open, and at the
  generation the task was given in.  It needs the books above: that a pump starts only
  what is queued, and that a cancelled scope has nothing left in a queue.  `WantedInv`:
  a task whose connection is open is at a file that nobody has withdrawn.  Each event
  that withdraws files closes their connections in the same step, and the step to
  `magic` has just looked.
* `PagesTyped`: the type invariant of every part, which bounds what a part counts.
  Most of it is in the invariants above.  Two parts needed more.  Of the sinks it is
  claimed of all of them, those that lost an answer included: `SizesInv` says that of
  one sink the worker has at most one write and one request that is awaited
  (`InLine`), so that a chunk it writes after the page has given up is the last one
  and nothing is stored beyond the file's size (`Fits`, `Told`), for any sizes
  (`SinkBounds`).  Of the scheduler, `SchedBounds` says that the generation of a
  room counts no more than the events so far, so that the one a batch was selected
  in is within its bound, and that a task is at a file of its batch or has passed
  the last one.

TLC checked each of these invariants on a run's instance before it was proved.

Model-checked only: liveness under fairness, which is out of the prover's reach
(`DraftsSettle`, `MembersConverge`, `HalfSessionEnds`, `ConnectReturns` and
`JoinAnswered`).  Every other property of the passing runs is stated by a theorem.

## Not modelled

* The silence the watchdog of a group member measures (`lastOwnerPingAt`), a
  time; in `GroupLog` a stream that ends is one behaviour whatever ended it.
* Encoding, length prefixes and the reader of frames.  Transport buffers have no
  capacity, so a write that blocks for ever appears only as a broken stream.
* The receiving half of a group file (the same `receiveFile`, with a ticket).
* Sinks of the save picker, capacity estimates, ownership of storage between
  tabs, overlapping requests within the worker.
* The methods of one bridge stream, the listener and promise plumbing.
* Reuse of a controller across lifecycles (`lifecycleEpoch`), the rate limit of
  handshake replies, the refusal of a HELLO by a page in a group room.
* Switching cameras within a call: what `replaceTrack` does on a connection that
  is closed meanwhile is up to the browser.
* Voice messages, whose recording the browser drives; rendering, localisation, QR
  codes, build scripts, and the Tailcat transport itself, of which only "an ordered
  stream that may fail" is used.

## Plan

What is left, in this order:

1. `BridgeStream`: read, write and close of one stream, with callbacks that are
   released under a pending operation.
2. The receiving half of a group transfer, composed with `GroupTickets`, and group
   voice messages, which take the same way.
