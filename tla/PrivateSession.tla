--------------------------- MODULE PrivateSession ---------------------------
(***************************************************************************)
(* The private room's handshake, session and heartbeat (src/web/app.js):   *)
(* connectToPeer dials a page with HELLO, the page answers HELLO_ACK with  *)
(* a fresh session, HELLO_CONFIRM opens it on both sides, and afterwards   *)
(* SESSION_PING, SESSION_END and HELLO_CANCEL decide when a side leaves.   *)
(*                                                                         *)
(* Every control message is a stream of its own, and the only answer to    *)
(* one is that the receiver closes it.  `net' holds the messages not yet   *)
(* read; one that stays there is late or lost.  `open' holds the ACK and   *)
(* CONFIRM streams whose sender still awaits the close: these are the      *)
(* awaits after which the code looks at its globals again.                 *)
(*                                                                         *)
(* Abstracted: an address is the page, which reopens with the same one     *)
(* (the remembered key); a nonce is the number of the connectToPeer call   *)
(* that drew it and a session the number of the call whose HELLO it        *)
(* answers; times, statuses and capabilities are left out, and so is the   *)
(* refusal by a page that is in a group room.                              *)
(***************************************************************************)
EXTENDS Integers, FiniteSets

CONSTANTS Pages,          \* the pages, each with its address
          NoPage,         \* the empty address
          MaxCalls,       \* bound: connectToPeer calls
          MaxEvents,      \* bound: rooms stopped, pages closed, and returns
                          \* to the foreground, together
          FailureLimit    \* HEARTBEAT_FAILURE_LIMIT

ASSUME SessionAssumption ==
  /\ NoPage \notin Pages
  /\ {MaxCalls, FailureLimit} \subseteq Nat \ {0}
  /\ MaxEvents \in Nat

VARIABLES page,        \* what each page keeps
          call,        \* the connectToPeer calls made so far
          net,         \* control messages not yet read
          open,        \* ACK and CONFIRM streams their sender waits for
          events       \* of those bounded by MaxEvents, so far

vars == <<page, call, net, open, events>>

Calls == 1 .. MaxCalls
Number == 0 .. MaxCalls          \* 0 is the empty nonce and session

NoWaiter == [call |-> 0, addr |-> NoPage, nonce |-> 0, confirm |-> 0]
NoCandidate == [peer |-> NoPage, nonce |-> 0, session |-> 0]
NoSession == NoCandidate
NoPing == [session |-> 0, answered |-> FALSE]
PingKinds == {"heartbeat", "resume"}

Kinds == {"HELLO", "ACK", "REJECT", "CONFIRM", "CANCEL", "END"}

Message(kind, from, to, nonce, session, of) ==
  [kind |-> kind, from |-> from, to |-> to, nonce |-> nonce,
   session |-> session, of |-> of]

EmptyPage ==
  [listening |-> FALSE, pendingPeer |-> NoPage, pendingNonce |-> 0,
   waiter |-> NoWaiter, candidate |-> NoCandidate, active |-> NoSession,
   failures |-> 0, ping |-> [k \in PingKinds |-> NoPing]]

Unused == [page |-> NoPage, to |-> NoPage, st |-> "unused"]

Init == /\ page = [p \in Pages |-> [EmptyPage EXCEPT !.listening = TRUE]]
        /\ call = [c \in Calls |-> Unused]
        /\ net = {}
        /\ open = {}
        /\ events = 0

InSession(p) == page[p].active # NoSession

-----------------------------------------------------------------------------
\* setPeerConnected: the session replaces whatever was pending and its
\* heartbeat starts afresh.  A waiter is left for its caller to settle.
Connected(ps, peer, nonce, session) ==
  [ps EXCEPT !.active = [peer |-> peer, nonce |-> nonce, session |-> session],
             !.pendingPeer = NoPage, !.pendingNonce = 0,
             !.failures = 0, !.ping["heartbeat"] = NoPing]

\* settleHandshake(error), and the catch of connectToPeer that follows it.
Unwaited(ps) ==
  [ps EXCEPT !.waiter = NoWaiter, !.pendingPeer = NoPage, !.pendingNonce = 0]

\* clearPeer: the session, the attempt and the candidate all go.
Cleared(ps) ==
  [Unwaited(ps) EXCEPT !.active = NoSession, !.candidate = NoCandidate,
                       !.failures = 0, !.ping["heartbeat"] = NoPing]

\* cancelRemoteHandshake: only a waiter that already sent CONFIRM has
\* something to withdraw.
Withdrawal(p, w) ==
  IF w.confirm = 0 THEN {}
  ELSE {Message("CANCEL", p, w.addr, w.nonce, w.confirm, w.call)}

\* The calls once those in C have returned false.
Failed(C) == [c \in Calls |-> IF c \in C THEN [call[c] EXCEPT !.st = "failed"]
                              ELSE call[c]]

WaiterCall(p) == {page[p].waiter.call} \ {0}

\* Page p becomes ps, and the call whose waiter it held has failed.
Settle(p, ps) ==
  /\ page' = [page EXCEPT ![p] = ps]
  /\ call' = Failed(WaiterCall(p))

-----------------------------------------------------------------------------
\* connectToPeer up to its first await: nothing may be pending, but an
\* inbound candidate does not stop it.
Connect(p, q) ==
  \E c \in Calls :
    /\ c = 1 + Cardinality({d \in Calls : call[d] # Unused})
    /\ p # q
    /\ ~InSession(p)
    /\ page[p].waiter = NoWaiter
    /\ page[p].pendingNonce = 0
    /\ page' = [page EXCEPT ![p].pendingPeer = q, ![p].pendingNonce = c]
    /\ call' = [call EXCEPT ![c] = [page |-> p, to |-> q, st |-> "starting"]]
    /\ UNCHANGED <<net, open, events>>

\* startRoom threw: the call forgets whatever is pending by now.
StartFails(c) ==
  LET p == call[c].page IN
  /\ call[c].st = "starting"
  /\ ~page[p].listening
  /\ page' = [page EXCEPT ![p].pendingPeer = NoPage, ![p].pendingNonce = 0]
  /\ call' = Failed({c})
  /\ UNCHANGED <<net, open, events>>

\* startRoom returned: the call waits under the nonce that is pending NOW,
\* which a stop or another call may have changed, and sends HELLO.  A waiter
\* already there is superseded; the catch of its call then settles this one.
Dial(c) ==
  LET p == call[c].page
      nonce == page[p].pendingNonce
      waiter == [call |-> c, addr |-> call[c].to, nonce |-> nonce, confirm |-> 0]
      superseded == page[p].waiter # NoWaiter
      ps == [page[p] EXCEPT !.listening = TRUE]
  IN /\ call[c].st = "starting"
     /\ page' = [page EXCEPT ![p] = IF superseded THEN Unwaited(ps)
                                    ELSE [ps EXCEPT !.waiter = waiter]]
     /\ call' = IF superseded THEN Failed({c} \cup WaiterCall(p))
                ELSE [call EXCEPT ![c].st = "waiting"]
     /\ net' = net \cup Withdrawal(p, page[p].waiter)
                   \cup {Message("HELLO", p, call[c].to, nonce, 0, c)}
     /\ UNCHANGED <<open, events>>

\* Mutation: once CONFIRM is under way no timer is left.
HandshakeFailsUnconfirmed(p) ==
  /\ page[p].waiter # NoWaiter
  /\ page[p].waiter.confirm = 0
  /\ Settle(p, Unwaited(page[p]))
  /\ UNCHANGED <<net, open, events>>

\* The waiter is settled with an error: its timer, the confirm timer, or the
\* HELLO stream failing or ending without a confirmation.
HandshakeFails(p) ==
  /\ page[p].waiter # NoWaiter
  /\ Settle(p, Unwaited(page[p]))
  /\ net' = net \cup Withdrawal(p, page[p].waiter)
  /\ UNCHANGED <<open, events>>

-----------------------------------------------------------------------------
\* A control message is read: the room is open and the stream accepted.
Reads(p, m) == m \in net /\ m.to = p /\ page[p].listening

\* receiveHello's answer.  A HELLO without a nonce is not answered at all.
HelloAnswer(p, m) ==
  LET a == page[p].active
      busy == page[p].pendingNonce # 0 \/ page[p].candidate # NoCandidate
      reject == Message("REJECT", p, m.from, m.nonce, 0, m.of)
  IN CASE m.nonce = 0 -> {}
       [] m.nonce # 0 /\ a # NoSession ->
            IF a.peer = m.from /\ a.nonce = m.nonce
            THEN {Message("ACK", p, m.from, m.nonce, a.session, m.of)}
            ELSE {reject}
       [] OTHER ->
            IF busy THEN {reject}
            ELSE {Message("ACK", p, m.from, m.nonce, m.of, m.of)}

\* receiveHello up to the await of its reply.
ReceiveHello(p, m) ==
  LET answer == HelloAnswer(p, m)
      acks == {a \in answer : a.kind = "ACK"}
      candidate == [peer |-> m.from, nonce |-> m.nonce, session |-> m.of]
      fresh == acks # {} /\ ~InSession(p)
  IN /\ Reads(p, m)
     /\ m.kind = "HELLO"
     /\ page' = [page EXCEPT ![p].candidate = IF fresh THEN candidate ELSE @]
     /\ net' = (net \ {m}) \cup answer
     /\ open' = open \cup acks
     /\ UNCHANGED <<call, events>>

\* Mutation: the candidate is left to its timer.
AckEndsOnly(m) ==
  /\ m \in open
  /\ m.kind = "ACK"
  /\ open' = open \ {m}
  /\ UNCHANGED <<page, call, net, events>>

\* Mutation: an ACK that was taken opens the session.
AckEndsConnected(m) ==
  LET chosen == [peer |-> m.to, nonce |-> m.nonce, session |-> m.session] IN
  /\ m \in open
  /\ m.kind = "ACK"
  /\ open' = open \ {m}
  /\ page' = [page EXCEPT ![m.from] =
       IF @.candidate = chosen /\ ~InSession(m.from)
       THEN Connected([@ EXCEPT !.candidate = NoCandidate], m.to, m.nonce, m.session)
       ELSE @]
  /\ UNCHANGED <<call, net, events>>

\* The ACK stream ended, well or not: receiveHello's finally clause.
AckEnds(m) ==
  LET p == m.from
      mine == page[p].candidate = [peer |-> m.to, nonce |-> m.nonce,
                                   session |-> m.session]
  IN /\ m \in open
     /\ m.kind = "ACK"
     /\ open' = open \ {m}
     /\ page' = [page EXCEPT ![p].candidate =
                   IF mine /\ ~InSession(p) THEN NoCandidate ELSE @]
     /\ UNCHANGED <<call, net, events>>

\* The candidate's own timer.
CandidateTimeout(p) ==
  /\ page[p].candidate # NoCandidate
  /\ page' = [page EXCEPT ![p].candidate = NoCandidate]
  /\ UNCHANGED <<call, net, open, events>>

\* receiveHelloAck up to the await of CONFIRM.
ReceiveAck(p, m) ==
  LET w == page[p].waiter
      wanted == /\ w # NoWaiter
                /\ m.nonce = page[p].pendingNonce
                /\ m.nonce = w.nonce
                /\ m.from = page[p].pendingPeer
                /\ m.from = w.addr
      confirm == Message("CONFIRM", p, m.from, m.nonce, m.session, w.call)
  IN /\ Reads(p, m)
     /\ m.kind = "ACK"
     /\ page' = [page EXCEPT ![p].waiter.confirm =
                   IF wanted THEN m.session ELSE @]
     /\ net' = (net \ {m}) \cup (IF wanted THEN {confirm} ELSE {})
     /\ open' = open \cup (IF wanted THEN {confirm} ELSE {})
     /\ UNCHANGED <<call, events>>

\* Mutation: nothing is looked at again after the await.
ConfirmClosesBlindly(m) ==
  /\ m \in open
  /\ m.kind = "CONFIRM"
  /\ m \in net => ~page[m.to].listening
  /\ open' = open \ {m}
  /\ net' = net \ {m}
  /\ page' = [page EXCEPT ![m.from] =
       Connected([@ EXCEPT !.waiter = NoWaiter], m.to, m.nonce, m.session)]
  /\ call' = [c \in Calls |-> IF c = page[m.from].waiter.call
                             THEN [call[c] EXCEPT !.st = "connected"] ELSE call[c]]
  /\ UNCHANGED events

\* Mutation: only the waiter is looked at again.
ConfirmClosesForWaiter(m) ==
  LET p == m.from
      w == page[p].waiter
  IN /\ m \in open
     /\ m.kind = "CONFIRM"
     /\ m \in net => ~page[m.to].listening
     /\ open' = open \ {m}
     /\ net' = net \ {m}
     /\ IF w.call = m.of
        THEN /\ page' = [page EXCEPT ![p] =
                  Connected([@ EXCEPT !.waiter = NoWaiter],
                            m.to, m.nonce, m.session)]
             /\ call' = [call EXCEPT ![w.call].st = "connected"]
        ELSE UNCHANGED <<page, call>>
     /\ UNCHANGED events

\* The CONFIRM stream was closed by the peer: receiveHelloAck resumes and
\* looks at its globals again.  A peer whose room is closed closes the stream
\* too, without having read it.
ConfirmCloses(m) ==
  LET p == m.from
      w == page[p].waiter
      current == /\ w.call = m.of
                 /\ w.nonce = page[p].pendingNonce
                 /\ w.addr = page[p].pendingPeer
                 /\ ~InSession(p)
  IN /\ m \in open
     /\ m.kind = "CONFIRM"
     /\ m \in net => ~page[m.to].listening
     /\ open' = open \ {m}
     /\ net' = net \ {m}
     /\ IF current
        THEN /\ page' = [page EXCEPT ![p] =
                  Connected([page[p] EXCEPT !.waiter = NoWaiter],
                            m.to, m.nonce, m.session)]
             /\ call' = [call EXCEPT ![w.call].st = "connected"]
        ELSE UNCHANGED <<page, call>>
     /\ UNCHANGED events

\* The CONFIRM stream failed under its sender.
ConfirmFails(m) ==
  LET p == m.from
      mine == page[p].waiter.call = m.of
  IN /\ m \in open
     /\ m.kind = "CONFIRM"
     /\ open' = open \ {m}
     /\ IF mine
        THEN /\ Settle(p, Unwaited(page[p]))
             /\ net' = net \cup Withdrawal(p, page[p].waiter)
        ELSE UNCHANGED <<page, call, net>>
     /\ UNCHANGED events

\* receiveHelloConfirm: the candidate becomes the session.
ReceiveConfirm(p, m) ==
  LET chosen == [peer |-> m.from, nonce |-> m.nonce, session |-> m.session]
      repeated == page[p].active = chosen
      accepted == ~InSession(p) /\ page[p].candidate = chosen
  IN /\ Reads(p, m)
     /\ m.kind = "CONFIRM"
     /\ page' = [page EXCEPT ![p] =
          IF accepted THEN Connected([@ EXCEPT !.candidate = NoCandidate],
                                     m.from, m.nonce, m.session)
          ELSE IF repeated THEN [@ EXCEPT !.failures = 0]
          ELSE @]
     /\ net' = net \ {m}
     /\ UNCHANGED <<call, open, events>>

\* receiveHelloCancel: the candidate goes, or else the session it became.
ReceiveCancel(p, m) ==
  LET named == [peer |-> m.from, nonce |-> m.nonce, session |-> m.session]
      candidate == page[p].candidate = named
      session == ~candidate /\ page[p].active = named
  IN /\ Reads(p, m)
     /\ m.kind = "CANCEL"
     /\ IF session THEN Settle(p, Cleared(page[p]))
        ELSE /\ page' = [page EXCEPT ![p].candidate =
                           IF candidate THEN NoCandidate ELSE @]
             /\ UNCHANGED call
     /\ net' = (net \ {m}) \cup
               (IF session THEN Withdrawal(p, page[p].waiter) ELSE {})
     /\ UNCHANGED <<open, events>>

\* receiveHelloReject.
ReceiveReject(p, m) ==
  LET w == page[p].waiter
      mine == w # NoWaiter /\ m.nonce = page[p].pendingNonce /\ m.nonce = w.nonce
  IN /\ Reads(p, m)
     /\ m.kind = "REJECT"
     /\ IF mine THEN Settle(p, Unwaited(page[p])) ELSE UNCHANGED <<page, call>>
     /\ net' = (net \ {m}) \cup (IF mine THEN Withdrawal(p, w) ELSE {})
     /\ UNCHANGED <<open, events>>

\* SESSION_END of the session in force; any other is refused.
ReceiveEnd(p, m) ==
  LET mine == InSession(p) /\ page[p].active.session = m.session
  IN /\ Reads(p, m)
     /\ m.kind = "END"
     /\ IF mine THEN Settle(p, Cleared(page[p])) ELSE UNCHANGED <<page, call>>
     /\ net' = (net \ {m}) \cup
               (IF mine THEN Withdrawal(p, page[p].waiter) ELSE {})
     /\ UNCHANGED <<open, events>>

-----------------------------------------------------------------------------
\* startRoom alone: the user opens the room again.
StartRoom(p) ==
  /\ ~page[p].listening
  /\ page' = [page EXCEPT ![p].listening = TRUE]
  /\ UNCHANGED <<call, net, open, events>>

\* stopRoom, by the user or the idle timer: SESSION_END is sent without
\* waiting for it, the listener closes and clearPeer drops the rest.  A call
\* still in startRoom is not stopped and will open the room again.
Stop(p) ==
  LET a == page[p].active
      end == IF a = NoSession THEN {}
             ELSE {Message("END", p, a.peer, a.nonce, a.session, 0)}
  IN /\ events < MaxEvents
     /\ page[p].listening
     /\ Settle(p, [Cleared(page[p]) EXCEPT !.listening = FALSE])
     /\ net' = net \cup end \cup Withdrawal(p, page[p].waiter)
     /\ events' = events + 1
     /\ UNCHANGED open

\* The page is closed or reloaded: everything it kept is gone, unannounced.
Crash(p) ==
  /\ events < MaxEvents
  /\ page' = [page EXCEPT ![p] = EmptyPage]
  /\ call' = Failed({c \in Calls : /\ call[c].page = p
                                   /\ call[c].st \in {"starting", "waiting"}})
  /\ open' = {m \in open : m.from # p}
  /\ events' = events + 1
  /\ UNCHANGED net

-----------------------------------------------------------------------------
\* SESSION_PING leaves: the heartbeat's timer, with none of its own in flight.
Heartbeat(p) ==
  /\ InSession(p)
  /\ page[p].ping["heartbeat"] = NoPing
  /\ page' = [page EXCEPT ![p].ping["heartbeat"] =
                [session |-> page[p].active.session, answered |-> FALSE]]
  /\ UNCHANGED <<call, net, open, events>>

\* The page returns to the foreground and checks its session.
ResumeCheck(p) ==
  /\ events < MaxEvents
  /\ InSession(p)
  /\ page[p].ping["resume"] = NoPing
  /\ page' = [page EXCEPT ![p].ping["resume"] =
                [session |-> page[p].active.session, answered |-> FALSE]]
  /\ events' = events + 1
  /\ UNCHANGED <<call, net, open>>

\* Mutation: a page answers every SESSION_PING.
PongAlways(p, q, k) ==
  /\ page[p].ping[k] # NoPing
  /\ ~page[p].ping[k].answered
  /\ page[q].listening
  /\ q # p
  /\ page' = [page EXCEPT ![p].ping[k].answered = TRUE]
  /\ UNCHANGED <<call, net, open, events>>

\* A page answers SESSION_PONG for the session it is in, and for no other.
Pong(p, q, k) ==
  /\ page[p].ping[k] # NoPing
  /\ ~page[p].ping[k].answered
  /\ page[q].listening
  /\ page[q].active.session = page[p].ping[k].session
  /\ q # p
  /\ page' = [page EXCEPT ![p].ping[k].answered = TRUE]
  /\ UNCHANGED <<call, net, open, events>>

\* The PONG is read; it counts only if the session is still the one asked.
PingAnswered(p, k) ==
  LET ping == page[p].ping[k] IN
  /\ ping.answered
  /\ page' = [page EXCEPT ![p].ping[k] = NoPing,
                          ![p].failures =
                IF page[p].active.session = ping.session THEN 0 ELSE @]
  /\ UNCHANGED <<call, net, open, events>>

\* A heartbeat failed while a call or a moving file, which take the peer,
\* show that it is there.
HeartbeatExcused(p) ==
  /\ page[p].ping["heartbeat"] # NoPing
  /\ page[page[p].active.peer].active.session = page[p].active.session
  /\ page' = [page EXCEPT ![p].ping["heartbeat"] = NoPing, ![p].failures = 0]
  /\ UNCHANGED <<call, net, open, events>>

\* Mutation: one failure too many is allowed.
PingFailsOnce(p, k) ==
  LET ping == page[p].ping[k]
      current == InSession(p) /\ page[p].active.session = ping.session
      lost == current /\ (k = "resume" \/ page[p].failures >= FailureLimit)
      done == [page[p] EXCEPT !.ping[k] = NoPing]
  IN /\ ping # NoPing
     /\ IF lost THEN Settle(p, Cleared(done))
        ELSE /\ page' = [page EXCEPT ![p] =
                  IF current THEN [done EXCEPT !.failures = @ + 1] ELSE done]
             /\ UNCHANGED call
     /\ UNCHANGED <<net, open, events>>

\* releaseLostPeer: a resume check releases at once, a heartbeat at its limit.
PingFails(p, k) ==
  LET ping == page[p].ping[k]
      current == InSession(p) /\ page[p].active.session = ping.session
      lost == current /\ (k = "resume" \/ page[p].failures + 1 >= FailureLimit)
      done == [page[p] EXCEPT !.ping[k] = NoPing]
      counts == current /\ k = "heartbeat"
  IN /\ ping # NoPing
     /\ IF lost THEN Settle(p, Cleared(done))
        ELSE /\ page' = [page EXCEPT ![p] =
                  IF counts THEN [done EXCEPT !.failures = @ + 1] ELSE done]
             /\ UNCHANGED call
     /\ net' = net \cup (IF lost THEN Withdrawal(p, page[p].waiter) ELSE {})
     /\ UNCHANGED <<open, events>>

-----------------------------------------------------------------------------
Receive == \E p \in Pages, m \in net :
  \/ ReceiveHello(p, m)
  \/ ReceiveAck(p, m)
  \/ ReceiveConfirm(p, m)
  \/ ReceiveCancel(p, m)
  \/ ReceiveReject(p, m)
  \/ ReceiveEnd(p, m)

ControlEnds == \E m \in open : AckEnds(m) \/ ConfirmCloses(m) \/ ConfirmFails(m)

Pinging == \E p \in Pages :
  \/ Heartbeat(p)
  \/ ResumeCheck(p)
  \/ HeartbeatExcused(p)
  \/ \E k \in PingKinds : PingAnswered(p, k) \/ PingFails(p, k)
  \/ \E q \in Pages, k \in PingKinds : Pong(p, q, k)

Next == \/ \E p, q \in Pages : Connect(p, q)
        \/ \E c \in Calls : StartFails(c) \/ Dial(c)
        \/ \E p \in Pages : HandshakeFails(p) \/ CandidateTimeout(p)
        \/ \E p \in Pages : StartRoom(p) \/ Stop(p) \/ Crash(p)
        \/ Receive
        \/ ControlEnds
        \/ Pinging

\* What the timers of a page guarantee: an attempt is settled, an awaited
\* stream ends, the heartbeat's timer fires and each of its pings has an
\* outcome.  Nothing is assumed of the network or of the user.
Timers ==
  /\ \A c \in Calls : WF_vars(StartFails(c) \/ Dial(c))
  /\ \A p \in Pages :
       /\ WF_vars(HandshakeFails(p))
       /\ WF_vars(Heartbeat(p))
       /\ WF_vars(PingAnswered(p, "heartbeat") \/ PingFails(p, "heartbeat"))

Spec == Init /\ [][Next]_vars /\ Timers

-----------------------------------------------------------------------------
Sessions == [peer : Pages \cup {NoPage}, nonce : Number, session : Number]
Pings == [session : Number, answered : BOOLEAN]

PageStates ==
  [listening : BOOLEAN, pendingPeer : Pages \cup {NoPage},
   pendingNonce : Number,
   waiter : [call : Number, addr : Pages \cup {NoPage}, nonce : Number,
             confirm : Number],
   candidate : Sessions, active : Sessions,
   failures : 0 .. (FailureLimit - 1), ping : [PingKinds -> Pings]]

Messages == [kind : Kinds, from : Pages, to : Pages, nonce : Number,
             session : Number, of : Number]

\* Every variable keeps its shape; in particular a page never sits in a
\* session with HEARTBEAT_FAILURE_LIMIT failures, and only ACK and CONFIRM
\* streams are awaited.
TypeOK ==
  /\ page \in [Pages -> PageStates]
  /\ call \in [Calls -> [page : Pages \cup {NoPage}, to : Pages \cup {NoPage},
                        st : {"unused", "starting", "waiting", "connected",
                              "failed"}]]
  /\ net \subseteq Messages
  /\ open \subseteq {m \in Messages : m.kind \in {"ACK", "CONFIRM"}}
  /\ events \in 0 .. MaxEvents

Busy(p) == \E c \in Calls : call[c].page = p /\ call[c].st \in {"starting", "waiting"}

\* An attempt connectToPeer reported as failed never becomes the session of
\* the page that made it, however late its ACK or its CONFIRM comes back.
FailedNeverOpens ==
  \A c \in Calls : call[c].st = "failed" =>
                     page[call[c].page].active.session # c

\* A page is free again once nothing runs: without a connectToPeer in
\* progress no nonce and no waiter is left behind (either would refuse every
\* later connection), and a candidate outlives its ACK only beside a session.
FreeAgain ==
  \A p \in Pages :
    /\ ~Busy(p) => page[p].pendingNonce = 0 /\ page[p].waiter = NoWaiter
    /\ page[p].candidate # NoCandidate =>
         \/ InSession(p)
         \/ \E m \in open : m.kind = "ACK" /\ m.from = p
                            /\ m.session = page[p].candidate.session

\* A session in force is left before another begins: a page goes from one
\* to none and from none to one, whatever handshakes cross.
NeverReplaced ==
  [][\A p \in Pages : InSession(p) =>
       page'[p].active \in {page[p].active, NoSession}]_vars

\* A HELLO alone opens nothing: while the page that dialled still waits for
\* its first ACK, the page it dialled is not in the session it offered.
OpenedByConfirm ==
  \A p, q \in Pages :
    LET s == page[q].active.session IN
    (InSession(q) /\ p # q /\ page[p].waiter.call = s) =>
      page[p].waiter.confirm = s

\* Half a session does not last: a page alone in its session is joined by
\* its peer or leaves, by the cancellation, the end, or lost heartbeats.
HalfSessionEnds ==
  \A p \in Pages :
    LET alone == /\ InSession(p)
                 /\ \A q \in Pages \ {p} :
                      page[q].active.session # page[p].active.session
    IN alone ~> ~alone

\* Every connectToPeer returns.
ConnectReturns ==
  \A c \in Calls : (call[c].st \in {"starting", "waiting"})
                    ~> (call[c].st \in {"connected", "failed"})

=============================================================================
