------------------------------ MODULE GroupLog ------------------------------
(***************************************************************************)
(* The ordered room of Group Beta (web/group-room.js): the host commits    *)
(* text and membership events to one numbered log and relays them to every *)
(* online member over that member's own control stream; a member whose     *)
(* stream fails dials a new one, resumes from the last number it applied   *)
(* and resubmits every text it has no answer for.                          *)
(*                                                                         *)
(* Covered: admission from JOIN_ACCEPT to its commit, text submission,     *)
(* deduplication, relaying, stream loss on either side, resumption with    *)
(* replay or resynchronisation, removal, grace and recovery timeouts,      *)
(* leaving, and pausing the room.                                          *)
(*                                                                         *)
(* Abstracted: an identifier that the code draws at random is a number, a  *)
(* text has no content, the byte limits of the buffers are item limits,    *)
(* and a deadline may pass at any moment while the timer it belongs to is  *)
(* armed.  A write that fails, a queue that overflows, a missed heartbeat  *)
(* and a silent host all appear as a broken stream that a side notices     *)
(* later.  Frames of tickets and heartbeats are not modelled here.         *)
(***************************************************************************)
EXTENDS Integers, Sequences, FiniteSets

CONSTANTS
    Member,        \* applicants and members other than the host
    Owner,         \* the host's own member id
    ReplayMax,     \* config.replayMaxItems
    DedupeMax,     \* config.dedupeMaxItems
    PendingMax,    \* config.sendQueueMaxFrames, as sendText applies it
    MaxText,       \* bound: texts one member submits
    MaxOwnerText,  \* bound: texts the host submits
    MaxStream,     \* bound: control streams one member opens
    Active,        \* bound: the members that submit, whose streams fail and who redial
    MaxToggle      \* bound: times the host pauses or unpauses the room

ASSUME GroupLogAssumption ==
    /\ Owner \notin Member
    /\ ReplayMax \in Nat \ {0}
    /\ DedupeMax \in Nat \ {0}
    /\ PendingMax \in Nat \ {0}
    /\ MaxText \in Nat
    /\ MaxOwnerText \in Nat
    /\ MaxStream \in Nat \ {0}
    /\ Active \subseteq Member
    /\ MaxToggle \in Nat

VARIABLES
    log,        \* the host's committed events; the index is the event's seq
    status,     \* status[m]: where the host has m
    admission,  \* admission[m]: the admissionSeq of m
    conn,       \* conn[m]: the stream the host serves m on, 0 when none
    resume,     \* resume[m]: the host's transactional resume attempt
    dedupe,     \* dedupe[m]: the host's recent client event ids of m
    paused,     \* the host's roomPaused
    toggles,    \* how often paused has changed

    phase,      \* phase[m]: what m's own controller is doing
    gconn,      \* gconn[m]: the stream m's guestLoop reads
    dials,      \* dials[m]: streams m has opened; the newest is dials[m]
    lastSeq,    \* lastSeq[m]: seq of the last event m applied
    roster,     \* roster[m]: m's copy of the member list
    draft,      \* draft[m][k]: what m's user sees of m's k-th text
    resubmit,   \* resubmit[m]: pending texts the recovery has yet to write again
    gpaused,    \* gpaused[m]: m's copy of roomPaused
    skipped,    \* history: the seqs a RESYNC_REQUIRED made m jump over

    up,         \* up[m][s]: frames in flight to the host on stream s of m
    down,       \* down[m][s]: frames in flight to m on stream s of m
    broken      \* broken[m]: the streams of m that one side has closed or lost

hostVars  == <<log, status, admission, conn, resume, dedupe, paused, toggles>>
guestVars == <<phase, gconn, dials, lastSeq, roster, draft, resubmit, gpaused, skipped>>
netVars   == <<up, down, broken>>
vars == <<hostVars, guestVars, netVars>>

-----------------------------------------------------------------------------
(* Events, frames and member lists *)

Text   == 1..MaxText
Stream == 1..MaxStream

\* A MEMBER_STATE event is named by the status it announces.
Event ==
    [type : {"TEXT"}, who : Member \cup {Owner}, id : Nat]
      \cup
    [type : {"MEMBER_JOINED", "MEMBER_LEFT", "MEMBER_RECONNECTING", "MEMBER_ONLINE"},
     who : Member, id : {0}]

Presence == {"absent", "online", "reconnecting"}
Roster   == [Member -> Presence]

GuestFrame ==
    [type : {"RESUME_REQUEST"}, lastSeq : Nat]
      \cup [type : {"TEXT_SUBMIT"}, id : Text]
      \cup [type : {"LEAVE"}]

HostFrame ==
    [type : {"JOIN_ACCEPT", "RESYNC_REQUIRED"}, seq : Nat, roster : Roster]
      \cup [type : {"RESUME_ACCEPT"}, currentSeq : Nat, paused : BOOLEAN]
      \cup [type : {"ROOM_EVENT"}, seq : Nat]
      \cup [type : {"ACTION_REJECTED"}, id : Text]
      \cup [type : {"ROOM_PAUSE"}, paused : BOOLEAN]
      \cup [type : {"RESUME_REJECT", "REMOVED"}]

\* ROOM_EVENT carries the frozen event; it is found again in log by its seq.
RoomEvent(n) == [type |-> "ROOM_EVENT", seq |-> n]

NoResume == [stream |-> 0, cursor |-> 0, upto |-> 0]

HostTypeOK ==
    /\ log \in Seq(Event)
    /\ status \in [Member -> {"out", "committing", "online", "reconnecting", "gone"}]
    /\ admission \in [Member -> Nat]
    /\ conn \in [Member -> Stream \cup {0}]
    /\ resume \in [Member -> [stream : Stream \cup {0}, cursor : Nat, upto : Nat]]
    /\ dedupe \in [Member -> SUBSET [id : Text, seq : Nat]]
    /\ paused \in BOOLEAN
    /\ toggles \in Nat

GuestTypeOK ==
    /\ phase \in [Member -> {"out", "joining", "member", "recovering", "waiting",
                             "resubmitting", "closed"}]
    /\ gconn \in [Member -> Stream \cup {0}]
    /\ dials \in [Member -> Stream \cup {0}]
    /\ lastSeq \in [Member -> Nat]
    /\ roster \in [Member -> Roster]
    /\ draft \in [Member -> [Text -> {"unsent", "sending", "delivered", "failed"}]]
    /\ resubmit \in [Member -> SUBSET Text]
    /\ gpaused \in [Member -> BOOLEAN]
    /\ skipped \in [Member -> SUBSET Nat]

NetTypeOK ==
    /\ up \in [Member -> [Stream -> Seq(GuestFrame)]]
    /\ down \in [Member -> [Stream -> Seq(HostFrame)]]
    /\ broken \in [Member -> SUBSET Stream]

TypeOK == HostTypeOK /\ GuestTypeOK /\ NetTypeOK

Init ==
    /\ log = <<>>
    /\ status = [m \in Member |-> "out"]
    /\ admission = [m \in Member |-> 0]
    /\ conn = [m \in Member |-> 0]
    /\ resume = [m \in Member |-> NoResume]
    /\ dedupe = [m \in Member |-> {}]
    /\ paused = FALSE
    /\ toggles = 0
    /\ phase = [m \in Member |-> "out"]
    /\ gconn = [m \in Member |-> 0]
    /\ dials = [m \in Member |-> 0]
    /\ lastSeq = [m \in Member |-> 0]
    /\ roster = [m \in Member |-> [x \in Member |-> "absent"]]
    /\ draft = [m \in Member |-> [k \in Text |-> "unsent"]]
    /\ resubmit = [m \in Member |-> {}]
    /\ gpaused = [m \in Member |-> FALSE]
    /\ skipped = [m \in Member |-> {}]
    /\ up = [m \in Member |-> [s \in Stream |-> <<>>]]
    /\ down = [m \in Member |-> [s \in Stream |-> <<>>]]
    /\ broken = [m \in Member |-> {}]

\* Mutation: an applicant that has not been admitted yet is listed.
ListedEarly(x) == CASE status[x] \in {"online", "reconnecting"} -> status[x]
                    [] status[x] = "committing" -> "online"
                    [] OTHER -> "absent"

\* The member list the host sends: everyone in its members map.
Listed(x) == IF status[x] \in {"online", "reconnecting"} THEN status[x] ELSE "absent"
HostRoster == [x \in Member |-> Listed(x)]

\* What acceptEvent does to a member list.
Apply(r, e) ==
    CASE e.type = "MEMBER_JOINED"       -> [r EXCEPT ![e.who] = "online"]
      [] e.type = "MEMBER_LEFT"         -> [r EXCEPT ![e.who] = "absent"]
      [] e.type = "MEMBER_RECONNECTING" -> [r EXCEPT ![e.who] = "reconnecting"]
      [] e.type = "MEMBER_ONLINE"       -> [r EXCEPT ![e.who] = "online"]
      [] OTHER                          -> r

\* acceptEvent throws on an event about somebody who is not in its list.
Acceptable(r, e) ==
    e.type \in {"TEXT", "MEMBER_RECONNECTING", "MEMBER_ONLINE"} /\ e.who # Owner
        => r[e.who] # "absent"

-----------------------------------------------------------------------------
(* Streams *)

\* A frame written to a stream that is already broken goes nowhere.
Push(q, m, s, f) ==
    IF s = 0 \/ s \in broken[m] THEN q ELSE [q EXCEPT ![m][s] = Append(@, f)]

\* Frame f on the stream of every member the host counts as online.
Relay(f, st, cn) ==
    [m \in Member |->
        [s \in Stream |->
            IF st[m] = "online" /\ cn[m] = s /\ s \notin broken[m]
            THEN Append(down[m][s], f)
            ELSE down[m][s]]]

\* commitEvent: number the event, keep it, relay it to the online members.
\* st and cn are the members' states as the caller has just left them.
\* (The caller may put further frames of its own into the resulting queues.)
Commit(e) == log' = Append(log, e)
Relayed(st, cn) == Relay(RoomEvent(Len(log) + 1), st, cn)

\* The replay buffer holds the newest ReplayMax events.
InReplay(n) == n \in 1..Len(log) /\ n > Len(log) - ReplayMax

\* replay.after(cursor) is null when an event after cursor has been evicted.
CanReplay(cursor) == cursor = Len(log) \/ InReplay(cursor + 1)

-----------------------------------------------------------------------------
(* Host: admission *)

\* approvePendingTransaction up to the JOIN_ACCEPT write (the address of the
\* applicant has been verified; the stream of its JOIN_REQUEST is stream 1).
ApproveJoin(m) ==
    /\ status[m] = "out"
    /\ ~paused
    /\ status' = [status EXCEPT ![m] = "committing"]
    /\ admission' = [admission EXCEPT ![m] = Len(log)]
    /\ phase' = [phase EXCEPT ![m] = "joining"]
    /\ gconn' = [gconn EXCEPT ![m] = 1]
    /\ dials' = [dials EXCEPT ![m] = 1]
    /\ down' = Push(down, m, 1,
                    [type   |-> "JOIN_ACCEPT", seq |-> Len(log),
                     roster |-> [HostRoster EXCEPT ![m] = "online"]])
    /\ UNCHANGED <<log, conn, resume, dedupe, paused, toggles,
                   lastSeq, roster, draft, resubmit, gpaused, skipped, up, broken>>

\* Mutation: the event is relayed before the member counts as online.
CommitAdmissionLate(m) ==
    /\ status[m] = "committing"
    /\ ~paused
    /\ status' = [status EXCEPT ![m] = "online"]
    /\ conn' = [conn EXCEPT ![m] = 1]
    /\ Commit([type |-> "MEMBER_JOINED", who |-> m, id |-> 0])
    /\ down' = Relayed(status, conn)
    /\ UNCHANGED <<admission, resume, dedupe, paused, toggles, guestVars, up, broken>>

\* The write of JOIN_ACCEPT has finished: the admission commits.
CommitAdmission(m) ==
    /\ status[m] = "committing"
    /\ ~paused
    /\ status' = [status EXCEPT ![m] = "online"]
    /\ conn' = [conn EXCEPT ![m] = 1]
    /\ Commit([type |-> "MEMBER_JOINED", who |-> m, id |-> 0])
    /\ down' = Relayed(status', conn')
    /\ UNCHANGED <<admission, resume, dedupe, paused, toggles, guestVars, up, broken>>

\* Mutation: the applicant's stream is left open.
DropPendingOpen(m) ==
    /\ status[m] = "committing"
    /\ 1 \in broken[m] \/ up[m][1] # <<>>
    /\ status' = [status EXCEPT ![m] = "gone"]
    /\ up' = [up EXCEPT ![m][1] = <<>>]
    /\ UNCHANGED <<log, admission, conn, resume, dedupe, paused, toggles, guestVars, down, broken>>

\* dropPending: the applicant's stream failed, or it spoke, before the commit.
DropPending(m) ==
    /\ status[m] = "committing"
    /\ 1 \in broken[m] \/ up[m][1] # <<>>
    /\ status' = [status EXCEPT ![m] = "gone"]
    /\ broken' = [broken EXCEPT ![m] = @ \cup {1}]
    /\ up' = [up EXCEPT ![m][1] = <<>>]
    /\ UNCHANGED <<log, admission, conn, resume, dedupe, paused, toggles, guestVars, down>>

-----------------------------------------------------------------------------
(* Host: its own texts, pausing, losing and removing members *)

OwnerTexts == {n \in 1..Len(log) : log[n].type = "TEXT" /\ log[n].who = Owner}

\* sendText on the host.
OwnerText ==
    /\ ~paused
    /\ Cardinality(OwnerTexts) < MaxOwnerText
    /\ Commit([type |-> "TEXT", who |-> Owner, id |-> Cardinality(OwnerTexts) + 1])
    /\ down' = Relayed(status, conn)
    /\ UNCHANGED <<status, admission, conn, resume, dedupe, paused, toggles, guestVars, up, broken>>

\* setRoomPaused.  Pausing cancels an admission that has not committed; only
\* the members that are online now are told.
SetRoomPaused ==
    /\ toggles < MaxToggle
    /\ toggles' = toggles + 1
    /\ paused' = ~paused
    /\ LET cancelled == {m \in Member : status[m] = "committing" /\ paused'}
       IN  /\ status' = [m \in Member |-> IF m \in cancelled THEN "gone" ELSE status[m]]
           /\ broken' = [m \in Member |-> IF m \in cancelled THEN broken[m] \cup {1} ELSE broken[m]]
           /\ up' = [m \in Member |-> IF m \in cancelled THEN [up[m] EXCEPT ![1] = <<>>] ELSE up[m]]
    /\ down' = Relay([type |-> "ROOM_PAUSE", paused |-> paused'], status, conn)
    /\ UNCHANGED <<log, admission, conn, resume, dedupe, guestVars>>

\* markMemberReconnecting after a stream error, an overflow or missed heartbeats.
LoseMember(m) ==
    /\ status[m] = "online"
    /\ conn[m] \in broken[m]
    /\ status' = [status EXCEPT ![m] = "reconnecting"]
    /\ conn' = [conn EXCEPT ![m] = 0]
    /\ Commit([type |-> "MEMBER_RECONNECTING", who |-> m, id |-> 0])
    /\ down' = Relayed(status', conn')
    /\ up' = [up EXCEPT ![m][conn[m]] = <<>>]
    /\ UNCHANGED <<admission, resume, dedupe, paused, toggles, guestVars, broken>>

\* removeMember: the host's decision (REMOVED is sent) or the member's LEAVE
\* or the grace timer (nothing is sent).  The streams it holds are closed.
Remove(m, notify) ==
    /\ status' = [status EXCEPT ![m] = "gone"]
    /\ conn' = [conn EXCEPT ![m] = 0]
    /\ resume' = [resume EXCEPT ![m] = NoResume]
    /\ broken' = [broken EXCEPT ![m] = @ \cup ({conn[m], resume[m].stream} \ {0})]
    /\ Commit([type |-> "MEMBER_LEFT", who |-> m, id |-> 0])
    /\ down' = LET told == Relayed(status', conn')
               IN  IF notify THEN Push(told, m, conn[m], [type |-> "REMOVED"]) ELSE told
    /\ up' = [up EXCEPT ![m] = [s \in Stream |->
                IF s \in {conn[m], resume[m].stream} THEN <<>> ELSE @[s]]]
    /\ UNCHANGED <<admission, dedupe, paused, toggles, guestVars>>

RemoveMember(m) ==
    /\ status[m] \in {"online", "reconnecting"}
    /\ Remove(m, status[m] = "online")

GraceTimeout(m) ==
    /\ status[m] = "reconnecting"
    /\ Remove(m, FALSE)

-----------------------------------------------------------------------------
(* Host: resuming a member *)

\* Mutation: whoever was once admitted may resume.
ResumableForever(m, f) ==
    /\ status[m] \in {"online", "reconnecting", "gone"}
    /\ resume[m] = NoResume
    /\ admission[m] <= f.lastSeq
    /\ f.lastSeq <= Len(log)

\* What acceptResume demands before it accepts.
Resumable(m, f) ==
    /\ status[m] \in {"online", "reconnecting"}
    /\ resume[m] = NoResume
    /\ admission[m] <= f.lastSeq
    /\ f.lastSeq <= Len(log)

\* The first frame of a stream the host has not served yet.
Opens(m, s, type) ==
    /\ s \notin {conn[m], resume[m].stream}
    /\ up[m][s] # <<>>
    /\ Head(up[m][s]).type = type

\* acceptResume refuses: RESUME_REJECT, then the stream is closed.
RejectResume(m, s) ==
    /\ Opens(m, s, "RESUME_REQUEST")
    /\ ~Resumable(m, Head(up[m][s]))
    /\ down' = Push(down, m, s, [type |-> "RESUME_REJECT"])
    /\ broken' = [broken EXCEPT ![m] = @ \cup {s}]
    /\ up' = [up EXCEPT ![m][s] = <<>>]
    /\ UNCHANGED <<hostVars, guestVars>>

\* Mutation: a member still online is resumed without being marked first.
NeverServed(m) == FALSE

StillServed(m) == status[m] = "online"

\* acceptResume up to its first await.  A member the host still counts as
\* online is first marked reconnecting, which closes its old stream.
AcceptResume(m, s) ==
    /\ Opens(m, s, "RESUME_REQUEST")
    /\ Resumable(m, Head(up[m][s]))
    /\ LET last == Head(up[m][s]).lastSeq
           accept(n) == [type |-> "RESUME_ACCEPT", currentSeq |-> n, paused |-> paused]
       IN  /\ resume' = [resume EXCEPT ![m] = [stream |-> s, cursor |-> last, upto |-> last]]
           /\ status' = [status EXCEPT ![m] = "reconnecting"]
           /\ conn' = [conn EXCEPT ![m] = 0]
           /\ IF StillServed(m)
              THEN /\ Commit([type |-> "MEMBER_RECONNECTING", who |-> m, id |-> 0])
                   /\ down' = Push(Relayed(status', conn'), m, s, accept(Len(log) + 1))
                   /\ broken' = [broken EXCEPT ![m] = @ \cup ({conn[m]} \ {0})]
                   /\ up' = [up EXCEPT ![m][s] = Tail(@), ![m][conn[m]] = <<>>]
              ELSE /\ down' = Push(down, m, s, accept(Len(log)))
                   /\ up' = [up EXCEPT ![m][s] = Tail(@)]
                   /\ UNCHANGED <<log, broken>>
    /\ UNCHANGED <<admission, dedupe, paused, toggles, guestVars>>

\* One write of the replay loop: the next event of the batch taken from the
\* replay buffer, a new batch, or RESYNC_REQUIRED when the buffer no longer
\* reaches back to the cursor.  Anything may happen between two writes.
ReplayEvent(m) ==
    LET a == resume[m]
        batch == IF a.cursor < a.upto THEN a.upto ELSE Len(log)
    IN  /\ a # NoResume
        /\ a.cursor < Len(log)
        /\ a.cursor < a.upto \/ CanReplay(a.cursor)
        /\ resume' = [resume EXCEPT ![m].cursor = a.cursor + 1, ![m].upto = batch]
        /\ down' = Push(down, m, a.stream, RoomEvent(a.cursor + 1))
        /\ UNCHANGED <<log, status, admission, conn, dedupe, paused, toggles, guestVars, up, broken>>

ReplayResync(m) ==
    LET a == resume[m]
    IN  /\ a # NoResume
        /\ a.cursor = a.upto
        /\ a.cursor < Len(log)
        /\ ~CanReplay(a.cursor)
        /\ resume' = [resume EXCEPT ![m].cursor = Len(log), ![m].upto = Len(log)]
        /\ down' = Push(down, m, a.stream,
                        [type |-> "RESYNC_REQUIRED", seq |-> Len(log), roster |-> HostRoster])
        /\ UNCHANGED <<log, status, admission, conn, dedupe, paused, toggles, guestVars, up, broken>>

\* Mutation: the batch in hand is enough.
BatchWritten(a) == a.cursor = a.upto

CaughtUp(a) == a.cursor = Len(log)

\* The replay has caught up with the log: the attempt becomes the member's
\* stream, in the same turn as the loop's last comparison.
ActivateResume(m) ==
    LET a == resume[m]
    IN  /\ a # NoResume
        /\ CaughtUp(a)
        /\ status' = [status EXCEPT ![m] = "online"]
        /\ conn' = [conn EXCEPT ![m] = a.stream]
        /\ resume' = [resume EXCEPT ![m] = NoResume]
        /\ Commit([type |-> "MEMBER_ONLINE", who |-> m, id |-> 0])
        /\ down' = Relayed(status', conn')
        /\ UNCHANGED <<admission, dedupe, paused, toggles, guestVars, up, broken>>

\* A write of the attempt failed: it is given up and its stream closed.
AbandonResume(m) ==
    LET a == resume[m]
    IN  /\ a # NoResume
        /\ a.stream \in broken[m]
        /\ resume' = [resume EXCEPT ![m] = NoResume]
        /\ up' = [up EXCEPT ![m][a.stream] = <<>>]
        /\ UNCHANGED <<log, status, admission, conn, dedupe, paused, toggles, guestVars, down, broken>>

-----------------------------------------------------------------------------
(* Host: frames of an online member (ownerStreamLoop, handleMemberFrame) *)

Hears(m, type) ==
    /\ status[m] = "online" /\ conn[m] # 0
    /\ up[m][conn[m]] # <<>>
    /\ Head(up[m][conn[m]]).type = type

Consume(m) == up' = [up EXCEPT ![m][conn[m]] = Tail(@)]

\* Mutation: the oldest entry is forgotten one entry too early.
RememberOneLess(d, k, n) ==
    LET all == d \cup {[id |-> k, seq |-> n]}
        oldest == CHOOSE e \in all : \A f \in all : e.seq <= f.seq
    IN  IF Cardinality(all) >= DedupeMax THEN all \ {oldest} ELSE all

\* The deduper forgets its oldest entry when it grows past DedupeMax.
Remember(d, k, n) ==
    LET all == d \cup {[id |-> k, seq |-> n]}
        oldest == CHOOSE e \in all : \A f \in all : e.seq <= f.seq
    IN  IF Cardinality(all) > DedupeMax THEN all \ {oldest} ELSE all

Prior(m, k) == {e \in dedupe[m] : e.id = k}

Rejection(k) == [type |-> "ACTION_REJECTED", id |-> k]

\* While the room is paused a submission is answered before the deduper is asked.
RejectPausedText(m) ==
    /\ Hears(m, "TEXT_SUBMIT")
    /\ paused
    /\ Consume(m)
    /\ down' = Push(down, m, conn[m], Rejection(Head(up[m][conn[m]]).id))
    /\ UNCHANGED <<hostVars, guestVars, broken>>

\* Mutation: the room's number of the event in place of the sender's.
AgainBySeq(k, e) == IF InReplay(e.seq) THEN RoomEvent(e.seq) ELSE Rejection(e.seq)

\* A text already committed: its event again, or DUPLICATE_EXPIRED once the
\* replay buffer has dropped it.
Again(k, e) == IF InReplay(e.seq) THEN RoomEvent(e.seq) ELSE Rejection(k)

AnswerDuplicate(m) ==
    /\ Hears(m, "TEXT_SUBMIT")
    /\ ~paused
    /\ LET k == Head(up[m][conn[m]]).id
       IN  \E e \in Prior(m, k) :
             down' = Push(down, m, conn[m], Again(k, e))
    /\ Consume(m)
    /\ UNCHANGED <<hostVars, guestVars, broken>>

CommitText(m) ==
    /\ Hears(m, "TEXT_SUBMIT")
    /\ ~paused
    /\ LET k == Head(up[m][conn[m]]).id
       IN  /\ Prior(m, k) = {}
           /\ Commit([type |-> "TEXT", who |-> m, id |-> k])
           /\ dedupe' = [dedupe EXCEPT ![m] = Remember(@, k, Len(log) + 1)]
    /\ down' = Relayed(status, conn)
    /\ Consume(m)
    /\ UNCHANGED <<status, admission, conn, resume, paused, toggles, guestVars, broken>>

HearLeave(m) ==
    /\ Hears(m, "LEAVE")
    /\ Remove(m, FALSE)

-----------------------------------------------------------------------------
(* Member: frames of the host (guestLoop, handleOwnerFrame) *)

\* When a write of sendText failed, guestLoop still handles the frames that its
\* reader holds already, but none any more once the recovery has dialled.
Reads(m, type) ==
    /\ phase[m] \in {"joining", "member", "recovering"}
    /\ gconn[m] # 0
    /\ down[m][gconn[m]] # <<>>
    /\ Head(down[m][gconn[m]]).type = type

Received(m) == Head(down[m][gconn[m]])
Advance(m) == down' = [down EXCEPT ![m][gconn[m]] = Tail(@)]

Pending(m) == {k \in Text : draft[m][k] = "sending"}

Joined(m) ==
    /\ phase[m] = "joining"
    /\ Reads(m, "JOIN_ACCEPT")
    /\ phase' = [phase EXCEPT ![m] = "member"]
    /\ lastSeq' = [lastSeq EXCEPT ![m] = Received(m).seq]
    /\ roster' = [roster EXCEPT ![m] = Received(m).roster]
    /\ Advance(m)
    /\ UNCHANGED <<hostVars, gconn, dials, draft, resubmit, gpaused, skipped, up, broken>>

\* acceptEvent: an event already applied is ignored, the next one is applied,
\* and the member's own text is confirmed.
ReadEvent(m) ==
    /\ phase[m] # "joining"
    /\ Reads(m, "ROOM_EVENT")
    /\ LET n == Received(m).seq
           e == log[n]
       IN  \/ /\ n <= lastSeq[m]
              /\ UNCHANGED <<lastSeq, roster, draft>>
           \/ /\ n = lastSeq[m] + 1
              /\ Acceptable(roster[m], e)
              /\ lastSeq' = [lastSeq EXCEPT ![m] = n]
              /\ roster' = [roster EXCEPT ![m] = Apply(@, e)]
              /\ draft' = IF e.type = "TEXT" /\ e.who = m /\ e.id \in Pending(m)
                          THEN [draft EXCEPT ![m][e.id] = "delivered"]
                          ELSE draft
    /\ Advance(m)
    /\ UNCHANGED <<hostVars, phase, gconn, dials, resubmit, gpaused, skipped, up, broken>>

\* A number out of order, or an event about an unknown member: the stream is
\* closed and, unless a recovery is already running, one begins.
ReadUnusableEvent(m) ==
    /\ phase[m] # "joining"
    /\ Reads(m, "ROOM_EVENT")
    /\ LET n == Received(m).seq
       IN  /\ n > lastSeq[m]
           /\ n # lastSeq[m] + 1 \/ ~Acceptable(roster[m], log[n])
    /\ phase' = [phase EXCEPT ![m] = IF @ = "member" THEN "recovering" ELSE @]
    /\ broken' = [broken EXCEPT ![m] = @ \cup {gconn[m]}]
    /\ down' = [down EXCEPT ![m][gconn[m]] = <<>>]
    /\ UNCHANGED <<hostVars, gconn, dials, lastSeq, roster, draft, resubmit, gpaused, skipped, up>>

ReadResync(m) ==
    /\ Reads(m, "RESYNC_REQUIRED")
    /\ lastSeq' = [lastSeq EXCEPT ![m] = Received(m).seq]
    /\ roster' = [roster EXCEPT ![m] = Received(m).roster]
    /\ skipped' = [skipped EXCEPT ![m] = @ \cup (lastSeq[m] + 1 .. Received(m).seq)]
    /\ Advance(m)
    /\ UNCHANGED <<hostVars, phase, gconn, dials, draft, resubmit, gpaused, up, broken>>

\* Mutation: a rejection counts even when the text is no longer pending.
ReadRejectionBlindly(m) ==
    /\ Reads(m, "ACTION_REJECTED")
    /\ draft' = [draft EXCEPT ![m][Received(m).id] = "failed"]
    /\ Advance(m)
    /\ UNCHANGED <<hostVars, phase, gconn, dials, lastSeq, roster, resubmit, gpaused, skipped, up, broken>>

\* ACTION_REJECTED withdraws the pending event; the user sees it fail.
ReadRejection(m) ==
    /\ Reads(m, "ACTION_REJECTED")
    /\ LET k == Received(m).id
       IN  draft' = IF k \in Pending(m) THEN [draft EXCEPT ![m][k] = "failed"] ELSE draft
    /\ Advance(m)
    /\ UNCHANGED <<hostVars, phase, gconn, dials, lastSeq, roster, resubmit, gpaused, skipped, up, broken>>

ReadPause(m) ==
    /\ Reads(m, "ROOM_PAUSE")
    /\ gpaused' = [gpaused EXCEPT ![m] = Received(m).paused]
    /\ Advance(m)
    /\ UNCHANGED <<hostVars, phase, gconn, dials, lastSeq, roster, draft, resubmit, skipped, up, broken>>

\* close() on a member: every stream it holds is closed, nothing is kept.
Quit(m) ==
    /\ phase' = [phase EXCEPT ![m] = "closed"]
    /\ broken' = [broken EXCEPT ![m] = @ \cup 1..dials[m]]
    /\ down' = [down EXCEPT ![m] = [s \in Stream |-> <<>>]]
    /\ resubmit' = [resubmit EXCEPT ![m] = {}]
    /\ UNCHANGED <<hostVars, gconn, dials, lastSeq, roster, draft, gpaused, skipped>>

ReadRemoved(m) ==
    /\ Reads(m, "REMOVED")
    /\ Quit(m)
    /\ UNCHANGED up

-----------------------------------------------------------------------------
(* Member: submitting, leaving, losing the host and recovering *)

Unsent(m) == {k \in Text : draft[m][k] = "unsent"}

\* sendText on a member.  A full pending queue fails the text at once.
SubmitText(m) ==
    /\ m \in Active
    /\ phase[m] = "member"
    /\ ~gpaused[m]
    /\ \E k \in Unsent(m) :
        /\ \A j \in Unsent(m) : k <= j
        /\ \/ /\ Cardinality(Pending(m)) < PendingMax
              /\ draft' = [draft EXCEPT ![m][k] = "sending"]
              /\ up' = Push(up, m, gconn[m], [type |-> "TEXT_SUBMIT", id |-> k])
           \/ /\ Cardinality(Pending(m)) >= PendingMax
              /\ draft' = [draft EXCEPT ![m][k] = "failed"]
              /\ UNCHANGED up
    /\ UNCHANGED <<hostVars, phase, gconn, dials, lastSeq, roster, resubmit, gpaused, skipped, down, broken>>

Leave(m) ==
    /\ phase[m] = "member"
    /\ up' = Push(up, m, gconn[m], [type |-> "LEAVE"])
    /\ Quit(m)

\* The applicant's stream ends before JOIN_ACCEPT has been read.
FailJoin(m) ==
    /\ phase[m] = "joining"
    /\ 1 \in broken[m]
    /\ down[m][1] = <<>>
    /\ Quit(m)
    /\ UNCHANGED up

\* beginRecovery, after the end of the stream or a write that failed.
BeginRecovery(m) ==
    /\ phase[m] = "member"
    /\ gconn[m] \in broken[m]
    /\ phase' = [phase EXCEPT ![m] = "recovering"]
    /\ UNCHANGED <<hostVars, gconn, dials, lastSeq, roster, draft, resubmit, gpaused, skipped, netVars>>

\* One attempt of the recovery: a new stream and RESUME_REQUEST on it.  The old
\* stream is closed on this side and guestLoop has met its end.
DialAgain(m) ==
    /\ m \in Active
    /\ phase[m] = "recovering"
    /\ dials[m] < MaxStream
    /\ phase' = [phase EXCEPT ![m] = "waiting"]
    /\ dials' = [dials EXCEPT ![m] = @ + 1]
    /\ up' = Push(up, m, dials[m] + 1, [type |-> "RESUME_REQUEST", lastSeq |-> lastSeq[m]])
    /\ down' = [down EXCEPT ![m][gconn[m]] = <<>>]
    /\ UNCHANGED <<hostVars, gconn, lastSeq, roster, draft, resubmit, gpaused, skipped, broken>>

\* The answer on the newest stream.
Answered(m, type) ==
    /\ dials[m] # 0 /\ down[m][dials[m]] # <<>>
    /\ Head(down[m][dials[m]]).type = type

\* Mutation: nothing is written again.
ResumeAcceptedOnly(m) ==
    /\ phase[m] = "waiting"
    /\ Answered(m, "RESUME_ACCEPT")
    /\ phase' = [phase EXCEPT ![m] = "resubmitting"]
    /\ resubmit' = [resubmit EXCEPT ![m] = {}]
    /\ UNCHANGED <<hostVars, gconn, dials, lastSeq, roster, draft, gpaused, skipped, netVars>>

\* RESUME_ACCEPT: the texts pending now will be written again.
ResumeAccepted(m) ==
    /\ phase[m] = "waiting"
    /\ Answered(m, "RESUME_ACCEPT")
    /\ phase' = [phase EXCEPT ![m] = "resubmitting"]
    /\ resubmit' = [resubmit EXCEPT ![m] = Pending(m)]
    /\ UNCHANGED <<hostVars, gconn, dials, lastSeq, roster, draft, gpaused, skipped, netVars>>

\* Mutation: newest first.
NewestOf(S) == {k \in S : \A j \in S : j <= k}

OldestOf(S) == {k \in S : \A j \in S : k <= j}

\* One write of that loop, oldest first.
Resubmit(m) ==
    /\ phase[m] = "resubmitting"
    /\ \E k \in OldestOf(resubmit[m]) :
        /\ resubmit' = [resubmit EXCEPT ![m] = @ \ {k}]
        /\ up' = Push(up, m, dials[m], [type |-> "TEXT_SUBMIT", id |-> k])
    /\ UNCHANGED <<hostVars, phase, gconn, dials, lastSeq, roster, draft, gpaused, skipped, down, broken>>

\* The new stream replaces the old one and the pause state that came with
\* RESUME_ACCEPT is taken over.
Recovered(m) ==
    LET s == dials[m]
    IN  /\ phase[m] = "resubmitting"
        /\ resubmit[m] = {}
        /\ Answered(m, "RESUME_ACCEPT")
        /\ phase' = [phase EXCEPT ![m] = "member"]
        /\ gconn' = [gconn EXCEPT ![m] = s]
        /\ gpaused' = [gpaused EXCEPT ![m] = Head(down[m][s]).paused]
        /\ down' = [down EXCEPT ![m][s] = Tail(@)]
        /\ UNCHANGED <<hostVars, dials, lastSeq, roster, draft, resubmit, skipped, up, broken>>

\* RESUME_REJECT, the end of the stream or a write that failed: try again later.
ResumeFailed(m) ==
    LET s == dials[m]
    IN  /\ \/ phase[m] = "waiting" /\ down[m][s] = <<>> /\ s \in broken[m]
           \/ phase[m] = "waiting" /\ Answered(m, "RESUME_REJECT")
           \/ phase[m] = "resubmitting" /\ s \in broken[m]
        /\ phase' = [phase EXCEPT ![m] = "recovering"]
        /\ resubmit' = [resubmit EXCEPT ![m] = {}]
        /\ broken' = [broken EXCEPT ![m] = @ \cup {s}]
        /\ down' = [down EXCEPT ![m][s] = <<>>]
        /\ UNCHANGED <<hostVars, gconn, dials, lastSeq, roster, draft, gpaused, skipped, up>>

RecoveryTimeout(m) ==
    /\ phase[m] \in {"recovering", "waiting", "resubmitting"}
    /\ Quit(m)
    /\ UNCHANGED up

-----------------------------------------------------------------------------
(* Network *)

\* A stream in use fails, or a watchdog closes it.
Break(m, s) ==
    /\ m \in Active
    /\ s <= dials[m]
    /\ s \notin broken[m]
    /\ broken' = [broken EXCEPT ![m] = @ \cup {s}]
    /\ UNCHANGED <<hostVars, guestVars, up, down>>

\* What a broken stream still carried to one side is lost.
Drop(m, s) ==
    /\ s \in broken[m]
    /\ \/ /\ up[m][s] # <<>>
          /\ up' = [up EXCEPT ![m][s] = <<>>]
          /\ UNCHANGED down
       \/ /\ down[m][s] # <<>>
          /\ down' = [down EXCEPT ![m][s] = <<>>]
          /\ UNCHANGED up
    /\ UNCHANGED <<hostVars, guestVars, broken>>

-----------------------------------------------------------------------------
HostAction(m) ==
    \/ ApproveJoin(m)
    \/ CommitAdmission(m)
    \/ DropPending(m)
    \/ LoseMember(m)
    \/ RemoveMember(m)
    \/ GraceTimeout(m)
    \/ \E s \in Stream : RejectResume(m, s) \/ AcceptResume(m, s)
    \/ ReplayEvent(m)
    \/ ReplayResync(m)
    \/ ActivateResume(m)
    \/ AbandonResume(m)
    \/ RejectPausedText(m)
    \/ AnswerDuplicate(m)
    \/ CommitText(m)
    \/ HearLeave(m)

GuestAction(m) ==
    \/ Joined(m)
    \/ ReadEvent(m)
    \/ ReadUnusableEvent(m)
    \/ ReadResync(m)
    \/ ReadRejection(m)
    \/ ReadPause(m)
    \/ ReadRemoved(m)
    \/ SubmitText(m)
    \/ Leave(m)
    \/ FailJoin(m)
    \/ BeginRecovery(m)
    \/ DialAgain(m)
    \/ ResumeAccepted(m)
    \/ Resubmit(m)
    \/ Recovered(m)
    \/ ResumeFailed(m)
    \/ RecoveryTimeout(m)

Next ==
    \/ OwnerText
    \/ SetRoomPaused
    \/ \E m \in Member : HostAction(m)
    \/ \E m \in Member : GuestAction(m)
    \/ \E m \in Member, s \in Stream : Break(m, s) \/ Drop(m, s)

Spec == Init /\ [][Next]_vars

\* The event loops of both sides run, and their timers fire while armed;
\* nothing is assumed of the users and of the network.
Fairness ==
    \A m \in Member :
        /\ WF_vars(CommitAdmission(m)) /\ WF_vars(DropPending(m))
        /\ WF_vars(LoseMember(m)) /\ WF_vars(GraceTimeout(m))
        /\ WF_vars(\E s \in Stream : RejectResume(m, s) \/ AcceptResume(m, s))
        /\ WF_vars(ReplayEvent(m) \/ ReplayResync(m) \/ ActivateResume(m) \/ AbandonResume(m))
        /\ WF_vars(RejectPausedText(m) \/ AnswerDuplicate(m) \/ CommitText(m) \/ HearLeave(m))
        /\ WF_vars(Joined(m) \/ ReadEvent(m) \/ ReadUnusableEvent(m) \/ ReadResync(m)
                     \/ ReadRejection(m) \/ ReadPause(m) \/ ReadRemoved(m))
        /\ WF_vars(FailJoin(m)) /\ WF_vars(BeginRecovery(m)) /\ WF_vars(DialAgain(m))
        /\ WF_vars(ResumeAccepted(m) \/ Resubmit(m) \/ Recovered(m) \/ ResumeFailed(m)) /\ WF_vars(RecoveryTimeout(m))

FairSpec == Spec /\ Fairness

-----------------------------------------------------------------------------
(* Properties *)

IsText(n, m, k) == log[n].type = "TEXT" /\ log[n].who = m /\ log[n].id = k

\* A text is committed at most once, however often it is resubmitted after a
\* lost stream (the deduplication of handleMemberFrame).
NoDuplicateCommit ==
    \A m \in Member : \A i, j \in 1..Len(log) :
        log[i].type = "TEXT" /\ log[i].who = m /\ log[j] = log[i] => i = j

\* The log tells each member's stay as one interval: it joins once, is only
\* spoken of (its texts, its losses and resumptions) after that, and never
\* again once it has left.  A late frame of an old stream, an old timer or an
\* old resume attempt would break this.
MembershipInterval ==
    /\ \A i, j \in 1..Len(log) : log[j].who = log[i].who =>
        /\ log[i].type = "MEMBER_JOINED" => i <= j
        /\ log[i].type = "MEMBER_LEFT" => j <= i
    /\ \A i \in 1..Len(log) : log[i].who # Owner =>
        \E j \in 1..Len(log) : log[j].type = "MEMBER_JOINED" /\ log[j].who = log[i].who

\* Until the room is reopened after a pause, the texts of one member enter the
\* log in the order it submitted them, also when some of them had to be written
\* again on a new stream.  (Later, a text that was refused during the pause may
\* come last: when the refusal is lost with the stream, it is submitted again.)
SubmissionOrder ==
    toggles < 2 => \A m \in Member : \A i, j \in 1..Len(log) :
        /\ log[i].type = "TEXT" /\ log[i].who = m
        /\ log[j].type = "TEXT" /\ log[j].who = m
        /\ i < j
        => log[i].id <= log[j].id

RosterAfter[n \in Nat] ==
    IF n = 0 THEN [x \in Member |-> "absent"] ELSE Apply(RosterAfter[n - 1], log[n])

\* A member's list of the others is the one the log gives at the last event
\* it applied, whether it got there by JOIN_ACCEPT, events, replay or resync.
RosterAgrees ==
    \A m \in Member : phase[m] \in {"member", "recovering", "waiting", "resubmitting"} =>
        \A x \in Member \ {m} : roster[m][x] = RosterAfter[lastSeq[m]][x]

Numbered(f) == f.type \in {"ROOM_EVENT", "RESYNC_REQUIRED"}

\* On a resumed stream no event number is missing: replay, batches taken from
\* the buffer while events keep being committed, and the relay that takes
\* over at activation follow each other without a gap.
NoGapAfterResume ==
    \A m \in Member : phase[m] = "member" /\ gconn[m] > 1 =>
        LET q == down[m][gconn[m]]
        IN  \A i \in DOMAIN q : q[i].type = "ROOM_EVENT" =>
                \/ q[i].seq <= lastSeq[m] + 1
                \/ \E j \in 1..(i - 1) : Numbered(q[j]) /\ q[j].seq >= q[i].seq - 1

\* The host owes nothing to an online member whose stream is intact: what it
\* has applied and what is on its way reach the end of the log.
NothingWithheld ==
    \A m \in Member :
        /\ status[m] = "online" /\ phase[m] = "member"
        /\ conn[m] = gconn[m] /\ conn[m] \notin broken[m]
        => \/ lastSeq[m] = Len(log)
           \/ \E i \in DOMAIN down[m][conn[m]] :
                  Numbered(down[m][conn[m]][i]) /\ down[m][conn[m]][i].seq = Len(log)

\* A text that its sender was told has failed is in the log only if a resync
\* made the sender jump over its event.
FailedOnlyAfterResync ==
    \A m \in Member, k \in Text : draft[m][k] = "failed" =>
        \A n \in 1..Len(log) : IsText(n, m, k) => n \in skipped[m]

Room == INSTANCE RoomLog WITH cursor <- lastSeq

\* What the room promises once streams, replay and recovery are taken away:
\* every step of this module is a step of RoomLog or leaves its state alone.
ImplementsRoom == Room!Spec

\* No text is lost in a reconnection: a text that was written to the host gets
\* its answer, unless the member is out of the room or a resync skipped it.
DraftsSettle ==
    \A m \in Member, k \in Text :
        draft[m][k] = "sending" ~>
            \/ draft[m][k] \in {"delivered", "failed"}
            \/ phase[m] = "closed"
            \/ \E n \in skipped[m] : IsText(n, m, k)

\* Whoever is still in the room in the end has applied the whole log and is
\* served by the host: no member stays behind or connected to nobody.
MembersConverge ==
    <>[](\A m \in Member : phase[m] \in {"out", "closed"}
            \/ /\ phase[m] = "member" /\ status[m] = "online" /\ conn[m] = gconn[m]
               /\ lastSeq[m] = Len(log))

\* As tests/e2e/group-controller.spec.js has it, "a recovered guest applies
\* current room and join pause state": with no ROOM_PAUSE on its way, an
\* online member's copy of roomPaused is the host's.
RecoveredPauseCurrent ==
    \A m \in Member :
        /\ status[m] = "online" /\ phase[m] = "member"
        /\ conn[m] = gconn[m] /\ conn[m] \notin broken[m]
        /\ \A i \in DOMAIN down[m][conn[m]] : down[m][conn[m]][i].type # "ROOM_PAUSE"
        => gpaused[m] = paused

\* sendText keeps an ambiguous text "for exactly-once replay ... instead of
\* reporting a permanent failure", which promises an answer: a submitted text
\* is eventually confirmed or fails, as long as its member stays in the room.
EveryDraftAnswered ==
    \A m \in Member, k \in Text :
        draft[m][k] = "sending" ~> (draft[m][k] # "sending" \/ phase[m] = "closed")
=============================================================================
