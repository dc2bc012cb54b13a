----------------------------- MODULE PageParts ------------------------------
(***************************************************************************)
(* The parts of a page that keep their state to themselves, checked        *)
(* together: a behaviour is one of one part, `part', and the others stand  *)
(* still.  What a part needs of the others - a session, a stream, storage  *)
(* - is nondeterministic within it.                                        *)
(*                                                                         *)
(*   sameWay    PrivateFiles, two files from a to b, two sessions          *)
(*   bothWays   PrivateFiles, one file each way                            *)
(*   texts      PrivateText                                                *)
(*   batches    TransferScheduler, two batches of one file                 *)
(*   files      TransferScheduler, a batch of two files                    *)
(*   sinks      FileSinks                                                  *)
(*   wakeLock   WakeLock                                                   *)
(*   bridge     BridgeSession                                              *)
(*   queue      FrameWriter                                                *)
(*   heartbeat  Heartbeat                                                  *)
(*   calls      LiveCall, two calls and one disturbance                    *)
(*   restarts   LiveCall, one call and two disturbances                    *)
(***************************************************************************)
EXTENDS Integers, Sequences, FiniteSets, TLC

CONSTANTS
  x1, x2,                 \* files, batches, or the pages of a call
  y,                      \* a file of the other page
  MaxPending, AutoItems,                                   \* private files
  MaxText, TextLimit, TextSessions,                        \* texts
  Recipients, Maximum, MaximumPending, MaxRoom, MaxEvents, \* batches, files
  Sinks, Size, MaxCalls, MaxReload,                        \* sinks
  Reason, MaxAcquire,                                      \* wakeLock
  Dial, maxSessionStreams,                                 \* bridge
  Length, FrameLimit, ByteLimit, MaxSend,                  \* queue
  heartbeatFailureLimit, MaxPing, MaxStream                \* heartbeat

ASSUME TextBounds == /\ MaxText \in Nat \ {0}
                     /\ TextLimit \in Nat
                     /\ TextSessions \in Nat \ {0}
ASSUME LockBounds == MaxAcquire \in Nat
ASSUME QueueBounds == /\ Length \subseteq Nat \ {0}
                      /\ FrameLimit \in Nat
                      /\ ByteLimit \in Nat
                      /\ MaxSend \in Nat

\* Two files of one page, batches or pages of a call; files of different pages,
\* each of them a file; and what they are bounded by.
ASSUME Apart == x1 # x2 /\ x1 # y /\ "none" \notin {x1, x2, y}
ASSUME FileBounds == AutoItems \in Nat
ASSUME BatchBounds == /\ Recipients \in Seq({Recipients[i] : i \in DOMAIN Recipients})
                      /\ \A i, j \in DOMAIN Recipients :
                           Recipients[i] = Recipients[j] => i = j
                      /\ Maximum \in Nat
                      /\ MaximumPending \in Nat
                      /\ MaxRoom \in Nat \ {0}
                      /\ MaxEvents \in Nat
ASSUME SinkBounds == /\ Size \in Nat
                     /\ MaxCalls \in Nat
                     /\ MaxReload \in Nat
ASSUME BeatBounds == /\ heartbeatFailureLimit \in Nat \ {0}
                     /\ MaxPing \in Nat
                     /\ MaxStream \in Nat \ {0}
ASSUME BridgeBounds == IsFiniteSet(Dial) /\ maxSessionStreams \in Nat

VARIABLES part,
          session, joined, queue, active, budget, snd, rcv, line, taken, file,
          writer, last, text, wire, shown,
          sched, room, entry, phase, at, status, events,
          mode, ready, sink, calls, inbox, worker, handle, disk, reserved,
          excused, reloads,
          refs, visible, held, request, retry, disposed,
          closed, pending, connections, giveUp, client, dial,
          frames, writing, counted, bytes, shut, finish, written,
          online, outstanding, stale, failures, sent, stream, down, up,
          phone, caller, task, redo, mail, on, trouble

\* Private files `moved' from the pages `from', in so many sessions.
Moving(moved, from, sessions) == INSTANCE PrivateFiles WITH
  Pages <- {"a", "b"}, Files <- moved, From <- from, None <- "none",
  MaxSession <- sessions

Texts == INSTANCE PrivateText WITH
  MaxFrames <- TextLimit, MaxSession <- TextSessions,
  session <- writer, line <- wire

\* Group batches of so many files each.
Sending(batches, count) == INSTANCE TransferScheduler WITH
  Batches <- batches, FileCount <- count

Storage == INSTANCE FileSinks
Lock == INSTANCE WakeLock
Bridge == INSTANCE BridgeSession
Queue == INSTANCE FrameWriter WITH maxFrames <- FrameLimit, maxBytes <- ByteLimit
Beat == INSTANCE Heartbeat

\* At most so many calls and disturbances.
Calling(number, troubles) == INSTANCE LiveCall WITH
  Pages <- {x1, x2}, MaxCall <- number, MaxTrouble <- troubles

filesVars == <<session, joined, queue, active, budget, snd, rcv, line, taken, file>>
textVars == <<writer, last, text, wire, shown>>
schedVars == <<sched, room, entry, phase, at, status, events>>
sinkVars == <<mode, ready, sink, calls, inbox, worker, handle, disk, reserved,
              excused, reloads>>
lockVars == <<refs, visible, held, request, retry, disposed>>
bridgeVars == <<closed, pending, connections, giveUp, client, dial>>
queueVars == <<frames, writing, counted, bytes, shut, finish, written>>
beatVars == <<online, outstanding, stale, failures, sent, stream, down, up>>
callVars == <<phone, caller, task, redo, mail, on, trouble>>
deviceVars == <<sinkVars, lockVars, callVars>>
streamVars == <<bridgeVars, queueVars, beatVars>>
vars == <<part, filesVars, textVars, schedVars, deviceVars, streamVars>>

\* Who sends: one page both files, or each page one.
FromA == [f \in {x1, x2} |-> "a"]
FromBoth == [f \in {x1, y} |-> IF f = x1 THEN "a" ELSE "b"]

\* What the variables of a part are in a behaviour of another one.
Off == "off"
FilesOff == session = Off /\ joined = Off /\ queue = Off /\ active = Off
            /\ budget = Off /\ snd = Off /\ rcv = Off /\ line = Off
            /\ taken = Off /\ file = Off
TextsOff == writer = Off /\ last = Off /\ text = Off /\ wire = Off
            /\ shown = Off
SchedOff == sched = Off /\ room = Off /\ entry = Off /\ phase = Off /\ at = Off
            /\ status = Off /\ events = Off
SinkOff == mode = Off /\ ready = Off /\ sink = Off /\ calls = Off /\ inbox = Off
           /\ worker = Off /\ handle = Off /\ disk = Off /\ reserved = Off
           /\ excused = Off /\ reloads = Off
LockOff == refs = Off /\ visible = Off /\ held = Off /\ request = Off
           /\ retry = Off /\ disposed = Off
BridgeOff == closed = Off /\ pending = Off /\ connections = Off /\ giveUp = Off
             /\ client = Off /\ dial = Off
QueueOff == frames = Off /\ writing = Off /\ counted = Off /\ bytes = Off
            /\ shut = Off /\ finish = Off /\ written = Off
BeatOff == online = Off /\ outstanding = Off /\ stale = Off /\ failures = Off
           /\ sent = Off /\ stream = Off /\ down = Off /\ up = Off
CallOff == phone = Off /\ caller = Off /\ task = Off /\ redo = Off /\ mail = Off
           /\ on = Off /\ trouble = Off

Init ==
  /\ part \in {"sameWay", "bothWays", "texts", "batches", "files", "sinks",
              "wakeLock", "bridge", "queue", "heartbeat", "calls", "restarts"}
  /\ CASE part = "sameWay" -> Moving({x1, x2}, FromA, 2)!Init
       [] part = "bothWays" -> Moving({x1, y}, FromBoth, 1)!Init
       [] OTHER -> FilesOff
  /\ IF part = "texts" THEN Texts!Init ELSE TextsOff
  /\ CASE part = "batches" -> Sending({x1, x2}, 1)!Init
       [] part = "files" -> Sending({x1}, 2)!Init
       [] OTHER -> SchedOff
  /\ IF part = "sinks" THEN Storage!Init ELSE SinkOff
  /\ IF part = "wakeLock" THEN Lock!Init ELSE LockOff
  /\ IF part = "bridge" THEN Bridge!Init ELSE BridgeOff
  /\ IF part = "queue" THEN Queue!Init ELSE QueueOff
  /\ IF part = "heartbeat" THEN Beat!Init ELSE BeatOff
  /\ CASE part = "calls" -> Calling(2, 1)!Init
       [] part = "restarts" -> Calling(1, 2)!Init
       [] OTHER -> CallOff

Next ==
  /\ UNCHANGED part
  /\ \/ /\ \/ part = "sameWay" /\ Moving({x1, x2}, FromA, 2)!Next
           \/ part = "bothWays" /\ Moving({x1, y}, FromBoth, 1)!Next
        /\ UNCHANGED <<textVars, schedVars, deviceVars, streamVars>>
     \/ /\ part = "texts"
        /\ Texts!Next
        /\ UNCHANGED <<filesVars, schedVars, deviceVars, streamVars>>
     \/ /\ \/ part = "batches" /\ Sending({x1, x2}, 1)!Next
           \/ part = "files" /\ Sending({x1}, 2)!Next
        /\ UNCHANGED <<filesVars, textVars, deviceVars, streamVars>>
     \/ /\ part = "sinks"
        /\ Storage!Next
        /\ UNCHANGED <<filesVars, textVars, schedVars, lockVars, callVars, streamVars>>
     \/ /\ part = "wakeLock"
        /\ Lock!Next
        /\ UNCHANGED <<filesVars, textVars, schedVars, sinkVars, callVars, streamVars>>
     \/ /\ part = "bridge"
        /\ Bridge!Next
        /\ UNCHANGED <<filesVars, textVars, schedVars, deviceVars, queueVars, beatVars>>
     \/ /\ part = "queue"
        /\ Queue!Next
        /\ UNCHANGED <<filesVars, textVars, schedVars, deviceVars, bridgeVars, beatVars>>
     \/ /\ part = "heartbeat"
        /\ Beat!Next
        /\ UNCHANGED <<filesVars, textVars, schedVars, deviceVars, bridgeVars, queueVars>>
     \/ /\ \/ part = "calls" /\ Calling(2, 1)!Next
           \/ part = "restarts" /\ Calling(1, 2)!Next
        /\ UNCHANGED <<filesVars, textVars, schedVars, sinkVars, lockVars, streamVars>>

Spec == Init /\ [][Next]_vars

-----------------------------------------------------------------------------
\* The type invariant of the part.
TypeOK == CASE part = "sameWay" -> Moving({x1, x2}, FromA, 2)!TypeOK
            [] part = "bothWays" -> Moving({x1, y}, FromBoth, 1)!TypeOK
            [] part = "texts" -> Texts!TypeOK
            [] part = "batches" -> Sending({x1, x2}, 1)!TypeOK
            [] part = "files" -> Sending({x1}, 2)!TypeOK
            [] part = "sinks" -> Storage!TypeOK
            [] part = "wakeLock" -> Lock!TypeOK
            [] part = "bridge" -> Bridge!TypeOK
            [] part = "queue" -> Queue!TypeOK
            [] part = "heartbeat" -> Beat!TypeOK
            [] part = "calls" -> Calling(2, 1)!TypeOK
            [] part = "restarts" -> Calling(1, 2)!TypeOK

\* What processOutgoingFile shows as sent the receiver has stored, and a sink
\* that is closed has every chunk on disk: both sides of "the file is there",
\* with a stream, a decision and a storage that fail at any point between.
SentMeansStored ==
  /\ part = "sameWay" => Moving({x1, x2}, FromA, 2)!SentMeansStored
  /\ part = "bothWays" => Moving({x1, y}, FromBoth, 1)!SentMeansStored
  /\ part = "sinks" => Storage!ClosedIsComplete

\* A receiver that has ended, and a sink that was aborted, removed or never
\* created, leave no unfinished file: also when the sink is created after the
\* decision is taken elsewhere, or a write or close of it fails.  No stream is
\* open once the session's client is being closed, whenever its dial ends; and
\* no camera is on but for the call in progress.
NothingLeftBehind ==
  /\ part = "sameWay" => Moving({x1, x2}, FromA, 2)!NoOrphanFile
  /\ part = "bothWays" => Moving({x1, y}, FromBoth, 1)!NoOrphanFile
  /\ part = "sinks" => Storage!NothingLeft
  /\ part = "bridge" => Bridge!NothingOutlives
  /\ part = "calls" => Calling(2, 1)!NothingLeftOn
  /\ part = "restarts" => Calling(1, 2)!NothingLeftOn

\* A page moves one private file at a time, and activeFileTransfer names it; it
\* does not ring while it is in a call.
OneAtATime ==
  /\ part = "sameWay" => Moving({x1, x2}, FromA, 2)!OneAtATime
  /\ part = "bothWays" => Moving({x1, y}, FromBoth, 1)!OneAtATime
  /\ part = "calls" => Calling(2, 1)!OneCall
  /\ part = "restarts" => Calling(1, 2)!OneCall

\* No session pays for more automatic files than its budget allows, although
\* the budget is looked at before an await and charged after it; and a disturbed
\* call is restarted at most once by each page, although timers may be lost.
AutoBudget ==
  /\ part = "sameWay" => Moving({x1, x2}, FromA, 2)!AutoBudget
  /\ part = "bothWays" => Moving({x1, y}, FromBoth, 1)!AutoBudget
  /\ part = "calls" => Calling(2, 1)!RestartedOnce
  /\ part = "restarts" => Calling(1, 2)!RestartedOnce

\* While outgoing files wait, the page moves one or is about to start one; and a
\* call that has not come about is under its timer.
NotStranded ==
  /\ part = "sameWay" => Moving({x1, x2}, FromA, 2)!QueueNotStranded
  /\ part = "bothWays" => Moving({x1, y}, FromBoth, 1)!QueueNotStranded
  /\ part = "calls" => Calling(2, 1)!UnderTimer
  /\ part = "restarts" => Calling(1, 2)!UnderTimer

\* The texts shown as delivered were displayed once each, in order; and a
\* control stream carries the frames its writer accepted, in order and without
\* a hole, although the queue overflows or closes while one is being written.
DeliveredInOrder ==
  /\ part = "texts" => Texts!DeliveredInOrder
  /\ part = "queue" => Queue!NoHoleWritten

\* What a part keeps count of, to admit or refuse, agrees with what there is:
\* the scheduler's counters with its lanes, with no task waiting while a slot
\* is free; those of a session with its dials and streams, which keep their
\* bound; those of a writer with its queue; and the host's lists of pings with
\* the pings under way, so that no late answer is taken for a forged one.
BooksAgree ==
  /\ part = "batches" => Sending({x1, x2}, 1)!CountersHonest /\ Sending({x1, x2}, 1)!NoIdleSlot
  /\ part = "files" => Sending({x1}, 2)!CountersHonest /\ Sending({x1}, 2)!NoIdleSlot
  /\ part = "bridge" => Bridge!CountersHonest /\ Bridge!StreamBound
  /\ part = "queue" => Queue!CountersHonest
  /\ part = "heartbeat" => Beat!LateAnswersKnown

\* No group file that waited starts in a room that is paused, or was paused or
\* replaced since it was queued; and no offer and no data is written once the
\* file is cancelled, its recipient revoked or the room replaced.
NoStaleTransfer ==
  [][/\ part = "batches" => Sending({x1, x2}, 1)!StartsCurrent /\ Sending({x1, x2}, 1)!WritesWanted
     /\ part = "files" => Sending({x1}, 2)!StartsCurrent /\ Sending({x1}, 2)!WritesWanted]_vars

\* A batch that is over has an outcome for every recipient and file.
BatchSettled ==
  /\ part = "batches" => Sending({x1, x2}, 1)!BatchSettled
  /\ part = "files" => Sending({x1}, 2)!BatchSettled

\* The screen is never kept awake for nobody.
NoUselessLock == part = "wakeLock" => Lock!NoUselessLock

=============================================================================
