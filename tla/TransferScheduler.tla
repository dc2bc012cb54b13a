------------------------- MODULE TransferScheduler --------------------------
(***************************************************************************)
(* Sending files to the members of a group (src/web/app.js): a batch is    *)
(* one task per recipient, and createKeyedTransferScheduler runs the tasks *)
(* of one recipient one after the other and those of at most Maximum       *)
(* recipients at once.  A task sends the batch's files in turn.  It looks  *)
(* at the room again after every await until a file's connection is        *)
(* registered, and not between the two writes of the offer: from then on   *)
(* whoever withdraws the file closes the connection.                       *)
(*                                                                         *)
(* The room is paused, resumed, closed and replaced, members are revoked   *)
(* and files cancelled between any two steps.                              *)
(*                                                                         *)
(* Abstracted: the awaits between the ticket and the connection (wake      *)
(* lock, transport, dial), each followed by the same check, are the phase  *)
(* "dialing".  A task then awaits the write of TCF_MAGIC ("magic"), the    *)
(* decision on the OFFER it writes next ("offered"), and the receiver's    *)
(* verification of the data ("sending"); "cut" is any of these awaits once *)
(* the connection is closed under it, and an answer that had been read by  *)
(* then is a step before the closing.  A pump is one step, as in the code. *)
(* Every member is selected, and a recipient that is not online is one     *)
(* that was revoked.                                                       *)
(***************************************************************************)
EXTENDS Integers, Sequences, FiniteSets

CONSTANTS Batches,          \* batches, each given to the scheduler once
          Recipients,       \* a sequence: the members that receive
          FileCount,        \* files in a batch
          Maximum,          \* APP_CONFIG.group.maxParallelRecipients
          MaximumPending,   \* MAX_PENDING_FILES, for tasks
          MaxRoom,          \* bound: rooms one after the other
          MaxEvents         \* bound: pauses, closings, revocations and
                            \* cancellations, together

VARIABLES sched,     \* the scheduler's own state
          room,      \* roomId, whether sending is possible, and generation
          entry,     \* the files of each batch
          phase,     \* of each task
          at,        \* the file each task has come to
          status,    \* shown for each recipient and file
          events     \* of those bounded by MaxEvents, so far

vars == <<sched, room, entry, phase, at, status, events>>

Member == {Recipients[i] : i \in DOMAIN Recipients}
FileNo == 1 .. FileCount
Task == Batches \X Member
Key == (1 .. MaxRoom) \X Member
NoTask == <<>>

NoLane == [exists |-> FALSE, task |-> NoTask, queue |-> <<>>]
NoEntry == [room |-> 0, gen |-> 0, listed |-> FALSE, cancelled |-> {}, invalid |-> {}]

Init == /\ sched = [lanes |-> [k \in Key |-> NoLane], ready |-> <<>>,
                    active |-> 0, pending |-> 0]
        /\ room = [id |-> 1, open |-> TRUE, gen |-> 0]
        /\ entry = [b \in Batches |-> NoEntry]
        /\ phase = [t \in Task |-> "none"]
        /\ at = [t \in Task |-> 0]
        /\ status = [t \in Task |-> [f \in FileNo |-> "none"]]
        /\ events = 0

-----------------------------------------------------------------------------
\* Whether pump starts the lane of the i-th ready key when it takes that key.
Starts(s, i) ==
  LET lane == s.lanes[s.ready[i]] IN
  /\ lane.exists
  /\ lane.task = NoTask
  /\ lane.queue # <<>>
  /\ \A j \in 1 .. i - 1 : s.ready[j] # s.ready[i]

\* The ready keys pump takes: those that find a slot free.
Shifted(s) == {i \in DOMAIN s.ready :
                s.active + Cardinality({j \in 1 .. i - 1 : Starts(s, j)}) < Maximum}

\* pump: while there is room, keys are taken off the ready ones; each starts
\* the oldest task of its lane, or is dropped if the lane is gone, busy or empty.
Pumped(s) ==
  LET started == {s.ready[i] : i \in {j \in Shifted(s) : Starts(s, j)}}
  IN [s EXCEPT !.ready = SubSeq(@, Cardinality(Shifted(s)) + 1, Len(@)),
               !.active = @ + Cardinality(started),
               !.lanes = [k \in Key |->
                 IF k \in started
                 THEN [s.lanes[k] EXCEPT !.task = Head(s.lanes[k].queue), !.queue = Tail(@)]
                 ELSE s.lanes[k]]]

\* enqueue: a task the full queue refuses is rejected, one of a new key opens
\* a lane.
Enqueued(s, k, t) ==
  IF s.pending >= MaximumPending THEN s
  ELSE Pumped([s EXCEPT !.pending = @ + 1,
                        !.ready = IF s.lanes[k].exists THEN @ ELSE Append(@, k),
                        !.lanes[k].exists = TRUE,
                        !.lanes[k].queue = Append(@, t)])

\* Mutation: a lane that runs dry takes its slot along.
TaskOverDry(s, k) ==
  LET lane == s.lanes[k] IN
  IF lane.queue # <<>>
  THEN [s EXCEPT !.pending = @ - 1,
                 !.lanes[k].task = Head(lane.queue),
                 !.lanes[k].queue = Tail(@)]
  ELSE [s EXCEPT !.pending = @ - 1, !.active = @ - 1, !.lanes[k] = NoLane]

\* The running task of lane k is settled: the lane goes on with its next one,
\* or it is deleted and its slot given to another.
TaskOver(s, k) ==
  LET lane == s.lanes[k] IN
  IF lane.queue # <<>>
  THEN [s EXCEPT !.pending = @ - 1,
                 !.lanes[k].task = Head(lane.queue),
                 !.lanes[k].queue = Tail(@)]
  ELSE Pumped([s EXCEPT !.pending = @ - 1, !.active = @ - 1, !.lanes[k] = NoLane])

Waiting(s, scope) ==
  UNION {{s.lanes[<<scope, r>>].queue[i] : i \in DOMAIN s.lanes[<<scope, r>>].queue}
         : r \in Member}

\* cancelScope: the waiting tasks of a room are thrown away, those that run
\* go on.
CancelScope(s, scope) ==
  LET Emptied(k) == IF k[1] # scope \/ s.lanes[k].queue = <<>> THEN s.lanes[k]
                    ELSE IF s.lanes[k].task = NoTask THEN NoLane
                    ELSE [s.lanes[k] EXCEPT !.queue = <<>>]
  IN Pumped([s EXCEPT !.pending = @ - Cardinality(Waiting(s, scope)),
                      !.lanes = [k \in Key |-> Emptied(k)]])

Running(s) == {s.lanes[k].task : k \in Key} \ {NoTask}
LaneOf(t) == <<entry[t[1]].room, t[2]>>

-----------------------------------------------------------------------------
\* assertGroupTransferMayStart for file f of a batch whose entries are e.
MayStart(e, r, f) ==
  /\ f \notin e.cancelled
  /\ e.gen = room.gen
  /\ e.room = room.id
  /\ room.open
  /\ r \notin e.invalid

\* The task goes on to the first file from f that may start; the ones it
\* passes over have failed, and with none left its operation is over.
\* `st' is the status of the task's files.
GoOn(t, e, f, st) ==
  LET startable == {g \in f .. FileCount : MayStart(e, t[2], g)}
      next == IF startable = {} THEN FileCount + 1
              ELSE CHOOSE g \in startable : \A h \in startable : g <= h
  IN [at |-> next,
      phase |-> IF startable = {} THEN "over" ELSE "ticket",
      status |-> [g \in FileNo |-> IF g \in f .. next - 1 THEN "failed" ELSE st[g]]]

\* The scheduler becomes s: the tasks that now begin come to their first file.
Scheduled(s, ent, ph, rejected) ==
  LET begun == Running(s) \ Running(sched)
      On(t) == GoOn(t, ent[t[1]], 1, status[t])
  IN /\ sched' = s
     /\ phase' = [t \in Task |-> IF t \in begun THEN On(t).phase
                                 ELSE IF t \in rejected THEN "settled" ELSE ph[t]]
     /\ at' = [t \in Task |-> IF t \in begun THEN On(t).at ELSE at[t]]
     /\ status' = [t \in Task |-> IF t \in begun THEN On(t).status ELSE status[t]]

\* The tasks of batch b are given to the scheduler, recipient by recipient.
AllEnqueued(b) ==
  LET after[i \in 0 .. Len(Recipients)] ==
        IF i = 0 THEN sched
        ELSE Enqueued(after[i - 1], <<room.id, Recipients[i]>>, <<b, Recipients[i]>>)
  IN after[Len(Recipients)]

\* enqueueGroupFiles and the synchronous part of processGroupFileBatch.
EnqueueGroupFiles(b) ==
  LET fresh == [NoEntry EXCEPT !.room = room.id, !.gen = room.gen, !.listed = TRUE]
      ent == [entry EXCEPT ![b] = fresh]
      s == AllEnqueued(b)
      tasks == {b} \X Member
      kept == {t \in tasks : t \in Running(s) \/ t \in Waiting(s, room.id)}
  IN /\ entry[b] = NoEntry
     /\ room.open
     /\ entry' = ent
     /\ Scheduled(s, ent, [t \in Task |-> IF t \in kept THEN "waiting" ELSE phase[t]],
                  tasks \ kept)
     /\ UNCHANGED <<room, events>>

\* The file the task has come to ends with st; the task goes on.
FileEnds(t, st) ==
  LET on == GoOn(t, entry[t[1]], at[t] + 1, [status[t] EXCEPT ![at[t]] = st])
  IN /\ phase' = [phase EXCEPT ![t] = on.phase]
     /\ at' = [at EXCEPT ![t] = on.at]
     /\ status' = [status EXCEPT ![t] = on.status]
     /\ UNCHANGED <<sched, room, entry, events>>

\* Mutation: a connection is registered once TCF_MAGIC is written.
OnWireLate == {"offered", "sending"}

\* The phases of a task whose connection is in groupTransferConnections: it is
\* registered, and open.
OnWire == {"magic", "offered", "sending"}

\* The phases once the connections of these tasks are closed.
Cut(tasks) ==
  [t \in Task |-> IF t \in tasks /\ phase[t] \in OnWire THEN "cut" ELSE phase[t]]

\* The task has awaited something it asked for, and the file may still start.
Proceed(t, from, to) ==
  /\ phase[t] = from
  /\ MayStart(entry[t[1]], t[2], at[t])
  /\ phase' = [phase EXCEPT ![t] = to]
  /\ UNCHANGED <<sched, room, entry, at, status, events>>

\* requestTransferTickets has granted one.
Granted(t) == Proceed(t, "ticket", "dialing")

\* The transport is there and dialled: the connection is registered, and
\* TCF_MAGIC is being written.
Dialled(t) == Proceed(t, "dialing", "magic")

\* TCF_MAGIC is written, and now the offer: the room is not looked at, so that
\* the offer may be one of a room paused in between.
Offer(t) ==
  /\ phase[t] = "magic"
  /\ phase' = [phase EXCEPT ![t] = "offered"]
  /\ UNCHANGED <<sched, room, entry, at, status, events>>

\* The recipient accepts, and the data is sent to the end; a pause no longer
\* stops it.
Accepted(t) ==
  /\ phase[t] = "offered"
  /\ phase' = [phase EXCEPT ![t] = "sending"]
  /\ UNCHANGED <<sched, room, entry, at, status, events>>

Rejected(t) == phase[t] = "offered" /\ FileEnds(t, "rejected")

\* DONE has come and agrees.
Done(t) == phase[t] = "sending" /\ FileEnds(t, "complete")

\* The await of the task throws: refused, cancelled, timed out, or the room
\* is no longer the one of the file.
Fails(t) ==
  /\ phase[t] \in {"ticket", "dialing", "magic", "offered", "sending", "cut"}
  /\ FileEnds(t, "failed")

\* The operation has returned to the scheduler.
TaskSettles(t) ==
  /\ phase[t] = "over"
  /\ Scheduled(TaskOver(sched, LaneOf(t)), entry, [phase EXCEPT ![t] = "settled"], {})
  /\ UNCHANGED <<room, entry, events>>

\* Mutation: a recipient whose task never ran keeps no status.
BatchEndsBare(b) ==
  /\ entry[b].listed
  /\ \A r \in Member : phase[<<b, r>>] = "settled"
  /\ entry' = [entry EXCEPT ![b].listed = FALSE]
  /\ UNCHANGED <<sched, room, phase, at, status, events>>

\* The rest of processGroupFileBatch, once every task is settled: recipients
\* without a status have failed.
BatchEnds(b) ==
  /\ entry[b].listed
  /\ \A r \in Member : phase[<<b, r>>] = "settled"
  /\ entry' = [entry EXCEPT ![b].listed = FALSE]
  /\ status' = [t \in Task |-> [f \in FileNo |->
                  IF t[1] = b /\ status[t][f] = "none" THEN "failed" ELSE status[t][f]]]
  /\ UNCHANGED <<sched, room, phase, at, events>>

-----------------------------------------------------------------------------
\* The room stops the tasks that wait; ent are the entries and ph the phases
\* meanwhile.
StopWaiting(ent, ph) ==
  /\ Scheduled(CancelScope(sched, room.id), ent, ph, Waiting(sched, room.id))
  /\ entry' = ent

\* One of the events that are bounded.
Event == /\ events < MaxEvents
         /\ events' = events + 1

\* handleGroupStatus("ROOM_PAUSED"): what is on the wire goes on.
PauseRoom ==
  /\ Event
  /\ room.open
  /\ room' = [room EXCEPT !.open = FALSE, !.gen = @ + 1]
  /\ StopWaiting(entry, phase)

ResumeRoom ==
  /\ room.id # 0
  /\ ~room.open
  /\ room' = [room EXCEPT !.open = TRUE]
  /\ UNCHANGED <<sched, entry, phase, at, status, events>>

\* handleGroupClosed, which cancels every listed file and closes every
\* connection; the next room may be opened.
CloseRoom ==
  /\ Event
  /\ room.id < MaxRoom
  /\ room' = [id |-> room.id + 1, open |-> TRUE, gen |-> room.gen + 1]
  /\ StopWaiting([b \in Batches |-> IF entry[b].listed
                                    THEN [entry[b] EXCEPT !.cancelled = FileNo]
                                    ELSE entry[b]],
                 Cut(Task))

\* cancelGroupTransferConnections for one member.
RevokeMember(r) ==
  /\ Event
  /\ \E b \in Batches : entry[b].listed /\ r \notin entry[b].invalid
  /\ entry' = [b \in Batches |-> IF entry[b].listed
                                 THEN [entry[b] EXCEPT !.invalid = @ \cup {r}]
                                 ELSE entry[b]]
  /\ phase' = Cut(Batches \X {r})
  /\ UNCHANGED <<sched, room, at, status>>

\* The cancel button of a file, which closes the connections it is sent on.
CancelFile(b, f) ==
  /\ Event
  /\ entry[b].listed
  /\ f \notin entry[b].cancelled
  /\ entry' = [entry EXCEPT ![b].cancelled = @ \cup {f}]
  /\ phase' = Cut({t \in {b} \X Member : at[t] = f})
  /\ UNCHANGED <<sched, room, at, status>>

Next == \/ \E t \in Task : \/ Granted(t)
                           \/ Dialled(t)
                           \/ Offer(t)
                           \/ Accepted(t)
                           \/ Rejected(t)
                           \/ Done(t)
                           \/ Fails(t)
                           \/ TaskSettles(t)
        \/ \E b \in Batches : \/ EnqueueGroupFiles(b)
                              \/ BatchEnds(b)
                              \/ \E f \in FileNo : CancelFile(b, f)
        \/ \E r \in Member : RevokeMember(r)
        \/ PauseRoom
        \/ ResumeRoom
        \/ CloseRoom

Spec == Init /\ [][Next]_vars

-----------------------------------------------------------------------------
TypeOK ==
  /\ sched \in [lanes : [Key -> [exists : BOOLEAN, task : Task \cup {NoTask},
                                 queue : Seq(Task)]],
                ready : Seq(Key), active : 0 .. Maximum, pending : 0 .. MaximumPending]
  /\ room \in [id : 1 .. MaxRoom, open : BOOLEAN, gen : 0 .. MaxEvents]
  /\ entry \in [Batches -> [room : 0 .. MaxRoom, gen : 0 .. MaxEvents,
                            listed : BOOLEAN, cancelled : SUBSET FileNo,
                            invalid : SUBSET Member]]
  /\ phase \in [Task -> {"none", "waiting", "ticket", "dialing", "magic", "offered",
                         "sending", "cut", "over", "settled"}]
  /\ events \in 0 .. MaxEvents
  /\ at \in [Task -> 0 .. FileCount + 1]
  /\ status \in [Task -> [FileNo -> {"none", "rejected", "complete", "failed"}]]

\* The scheduler's counters stay true to its lanes, through cancellations too:
\* a counter that drifts blocks every later transfer or lifts the limit.
CountersHonest ==
  /\ sched.active = Cardinality(Running(sched))
  /\ sched.active <= Maximum
  /\ sched.pending = sched.active
                     + Cardinality(UNION {Waiting(sched, i) : i \in 1 .. MaxRoom})

\* No transfer waits while a slot is free: whichever task ends or is cancelled,
\* a lane that has only waiting tasks sees all slots taken.
NoIdleSlot ==
  (\E k \in Key : sched.lanes[k].queue # <<>> /\ sched.lanes[k].task = NoTask) =>
    sched.active = Maximum

\* The comment of handleGroupStatus: "queued recipients from an earlier
\* generation must never start while/after this pause transition."  A task that
\* leaves its queue, without being thrown away, is one of the room and of the
\* generation of that moment, and the room is open.
StartsCurrent ==
  \A t \in Task : phase[t] = "waiting" /\ phase'[t] \notin {"waiting", "settled"} =>
    /\ room'.open
    /\ entry'[t[1]].room = room'.id
    /\ entry'[t[1]].gen = room'.gen

\* Nobody has withdrawn the file the task has come to: it is not cancelled, its
\* recipient not revoked, and the room is the one it was given to.
Wanted(t) ==
  /\ at[t] \notin entry[t[1]].cancelled
  /\ t[2] \notin entry[t[1]].invalid
  /\ entry[t[1]].room = room.id

\* No offer and no data is written for a file that was withdrawn, in whichever
\* await of the task that was: those of the dial look again, and in those after
\* it the connection is closed.
WritesWanted ==
  \A t \in Task : phase'[t] # phase[t] /\ phase'[t] \in {"offered", "sending"} =>
    Wanted(t)

NoStaleTransfer == [][StartsCurrent /\ WritesWanted]_vars

\* A batch that is over has an outcome for every recipient and every file.
BatchSettled ==
  \A t \in Task : entry[t[1]] # NoEntry /\ ~entry[t[1]].listed =>
    \A f \in FileNo : status[t][f] # "none"

=============================================================================
