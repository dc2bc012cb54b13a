---------------------------- MODULE GroupTickets ----------------------------
(***************************************************************************)
(* Transfer tickets of Group Beta (web/group-room.js).  A sender asks the  *)
(* host for a ticket; the host issues it, arms the recipient and waits for *)
(* the recipient's acknowledgement before it grants the ticket; the        *)
(* recipient of an offer asks the host to consume the ticket before it     *)
(* takes any byte.  Pausing the room and removing a member revoke tickets. *)
(*                                                                         *)
(* The host reads the frames of one member one after the other and handles *)
(* each to its end (ownerStreamLoop awaits handleMemberFrame), so while it *)
(* arms a ticket for a sender it does not read that sender's stream.       *)
(*                                                                         *)
(* Abstracted: a request, the ticket it leads to and its transfer share    *)
(* one number; sizes, kinds and capabilities always match; the resumption  *)
(* of a member, which GroupLog details, is its two ends; a deadline passes *)
(* at any moment while its timer is armed; the offer of a granted ticket   *)
(* reaches the recipient at any later moment, or never.                    *)
(***************************************************************************)
EXTENDS Integers, Sequences, FiniteSets

CONSTANTS
    Member,          \* members other than the host
    Owner,           \* the host
    MaxOutstanding,  \* config.maxOutstandingTicketsPerMember
    MaxTicket,       \* bound: tickets asked for
    MaxStream,       \* bound: control streams one member opens
    MaxToggle        \* bound: times the host pauses or unpauses the room

ASSUME GroupTicketsAssumption ==
    /\ Owner \notin Member
    /\ MaxOutstanding \in Nat \ {0}
    /\ MaxTicket \in Nat
    /\ MaxStream \in Nat \ {0}
    /\ MaxToggle \in Nat

VARIABLES
    status,   \* status[m]: where the host has m
    paused,   \* the host's roomPaused
    toggles,  \* how often paused has changed
    issued,   \* the host's issuedTickets
    arming,   \* arming[t]: the host's issueTransferTickets for t while it waits
    consumed, \* history: tickets the host has consumed
    revoked,  \* history: tickets issued when the room paused or a party was removed

    ask,      \* ask[t]: the sender's request
    use,      \* use[t]: the recipient's consumeTransferTicket
    deal,     \* deal[t]: sender, recipient and the streams their requests went to
    tickets,  \* tickets[x]: the tickets x is armed with
    view,     \* view[m]: m's copy of the member list
    gpaused,  \* gpaused[m]: m's copy of roomPaused
    left,     \* members whose own controller has closed

    gen,      \* gen[m]: the number of m's newest stream
    open,     \* open[m]: neither side has closed or lost it
    up,       \* up[m]: frames in flight to the host on that stream
    down      \* down[m]: frames in flight to m on that stream

hostVars  == <<status, paused, toggles, issued, arming, consumed, revoked>>
guestVars == <<ask, use, deal, tickets, view, gpaused, left>>
netVars   == <<gen, open, up, down>>
vars == <<hostVars, guestVars, netVars>>

-----------------------------------------------------------------------------
(* Tickets, frames and streams *)

Who      == Member \cup {Owner}
Ticket   == 1..MaxTicket
Presence == {"online", "reconnecting", "gone"}

NoDeal == [from |-> Owner, to |-> Owner, asked |-> 0, consuming |-> 0]
Idle   == [state |-> "idle", from |-> 0, to |-> 0]

GuestFrame == [type : {"REQUEST", "ARMED", "CONSUME"}, ticket : Ticket]

HostFrame ==
    [type : {"ARM"}, ticket : Ticket]
      \cup [type : {"RESPONSE", "CONSUMED"}, ticket : Ticket, ok : BOOLEAN]
      \cup [type : {"ROOM_PAUSE"}, paused : BOOLEAN]
      \cup [type : {"MEMBER_STATE"}, who : Member, status : {"online", "reconnecting"}]
      \cup [type : {"MEMBER_LEFT"}, who : Member]
      \cup [type : {"ROSTER"}, view : [Member -> Presence]]
      \cup [type : {"REMOVED"}]

TypeOK ==
    /\ status \in [Member -> Presence]
    /\ paused \in BOOLEAN /\ toggles \in Nat
    /\ issued \subseteq Ticket /\ consumed \subseteq Ticket /\ revoked \subseteq Ticket
    /\ arming \in [Ticket -> [state : {"idle", "waiting", "armed", "rejected"}, from : Nat, to : Nat]]
    /\ ask \in [Ticket -> {"none", "asked", "granted", "failed"}]
    /\ use \in [Ticket -> {"none", "consuming", "accepted", "refused"}]
    /\ deal \in [Ticket -> [from : Who, to : Who, asked : Nat, consuming : Nat]]
    /\ tickets \in [Who -> SUBSET Ticket]
    /\ view \in [Member -> [Member -> Presence]]
    /\ gpaused \in [Member -> BOOLEAN]
    /\ left \subseteq Member
    /\ gen \in [Member -> 1..MaxStream]
    /\ open \in [Member -> BOOLEAN]
    /\ up \in [Member -> Seq(GuestFrame)]
    /\ down \in [Member -> Seq(HostFrame)]

\* Everybody has joined and nothing is under way.
Init ==
    /\ status = [m \in Member |-> "online"]
    /\ paused = FALSE /\ toggles = 0
    /\ issued = {} /\ consumed = {} /\ revoked = {}
    /\ arming = [t \in Ticket |-> Idle]
    /\ ask = [t \in Ticket |-> "none"]
    /\ use = [t \in Ticket |-> "none"]
    /\ deal = [t \in Ticket |-> NoDeal]
    /\ tickets = [x \in Who |-> {}]
    /\ view = [m \in Member |-> [x \in Member |-> "online"]]
    /\ gpaused = [m \in Member |-> FALSE]
    /\ left = {}
    /\ gen = [m \in Member |-> 1]
    /\ open = [m \in Member |-> TRUE]
    /\ up = [m \in Member |-> <<>>]
    /\ down = [m \in Member |-> <<>>]

\* A frame written to a stream that is closed goes nowhere.
Push(q, x, f) == IF x \in Member /\ open[x] THEN [q EXCEPT ![x] = Append(@, f)] ELSE q

\* Frame f to every member that is online by st and whose stream is open.
Relay(q, st, f) ==
    [m \in Member |-> IF st[m] = "online" /\ open[m] THEN Append(q[m], f) ELSE q[m]]

Stream(x) == IF x = Owner THEN 0 ELSE gen[x]

\* The host serves x on the stream it served x on before an await.
Online(x)    == x \in Member => status[x] = "online"
Serves(x, n) == Online(x) /\ Stream(x) = n

Parties(t) == {deal[t].from, deal[t].to}

-----------------------------------------------------------------------------
(* Host: issuing a ticket and arming its recipient *)

Outstanding(x) == {t \in issued : deal[t].from = x}

\* Mutation: a ticket counts once its recipient has answered.
RefusedLate(from, to) ==
    \/ paused
    \/ ~Online(to)
    \/ Cardinality({t \in Outstanding(from) : arming[t] = Idle}) >= MaxOutstanding

Refused(from, to) ==
    \/ paused
    \/ ~Online(to)
    \/ Cardinality(Outstanding(from)) >= MaxOutstanding

\* issueTransferTickets up to its await.  The host arms itself without one.
Issue(t, from, to) ==
    /\ issued' = issued \cup {t}
    /\ IF to = Owner
       THEN /\ tickets' = [tickets EXCEPT ![Owner] = @ \cup {t}]
            /\ down' = Push(down, from, [type |-> "RESPONSE", ticket |-> t, ok |-> TRUE])
            /\ UNCHANGED arming
       ELSE /\ arming' = [arming EXCEPT ![t] =
                   [state |-> "waiting", from |-> Stream(from), to |-> Stream(to)]]
            /\ down' = Push(down, to, [type |-> "ARM", ticket |-> t])
            /\ UNCHANGED tickets

\* The stream loop of m is inside the handler of m's ticket request.
Busy(m) == \E t \in Ticket :
    arming[t] # Idle /\ deal[t].from = m /\ arming[t].from = gen[m]

Hears(m, type) ==
    /\ status[m] = "online"
    /\ ~Busy(m)
    /\ up[m] # <<>>
    /\ Head(up[m]).type = type

Heard(m) == Head(up[m]).ticket
Consume(m) == up' = [up EXCEPT ![m] = Tail(@)]

HandleTicketRequest(m) ==
    /\ Hears(m, "REQUEST")
    /\ LET t == Heard(m)
       IN  IF Refused(m, deal[t].to)
           THEN /\ down' = Push(down, m, [type |-> "RESPONSE", ticket |-> t, ok |-> FALSE])
                /\ UNCHANGED <<issued, arming, tickets>>
           ELSE Issue(t, m, deal[t].to)
    /\ Consume(m)
    /\ UNCHANGED <<status, paused, toggles, consumed, revoked,
                   ask, use, deal, view, gpaused, left, gen, open>>

\* A fresh number for the next request.
Fresh == {t \in Ticket : ask[t] = "none" /\ \A u \in Ticket : u < t => ask[u] # "none"}

\* requestTransferTickets on the host, which issues without asking.
OwnerRequest ==
    /\ \E t \in Fresh, m \in Member :
        /\ deal' = [deal EXCEPT ![t] = [NoDeal EXCEPT !.to = m]]
        /\ IF Refused(Owner, m)
           THEN /\ ask' = [ask EXCEPT ![t] = "failed"]
                /\ UNCHANGED <<issued, arming, tickets, down>>
           ELSE /\ ask' = [ask EXCEPT ![t] = "asked"]
                /\ Issue(t, Owner, m)
    /\ UNCHANGED <<status, paused, toggles, consumed, revoked, use, view, gpaused, left, gen, open, up>>

\* markMemberReconnecting: the stream is closed and the others are told.
LostStatus(m) == [status EXCEPT ![m] = "reconnecting"]
LostDown(m) ==
    Relay(down, LostStatus(m), [type |-> "MEMBER_STATE", who |-> m, status |-> "reconnecting"])
Lost(m) ==
    /\ status' = LostStatus(m)
    /\ open' = [open EXCEPT ![m] = FALSE]
    /\ up' = [up EXCEPT ![m] = <<>>]

\* TRANSFER_ARMED finds its waiter.
HearArmed(m) ==
    /\ Hears(m, "ARMED")
    /\ arming[Heard(m)].state = "waiting"
    /\ arming' = [arming EXCEPT ![Heard(m)].state = "armed"]
    /\ Consume(m)
    /\ UNCHANGED <<status, paused, toggles, issued, consumed, revoked, guestVars, gen, open, down>>

\* TRANSFER_ARMED finds no waiter: the handler throws and the stream is given up.
HearUnexpectedArmed(m) ==
    /\ Hears(m, "ARMED")
    /\ arming[Heard(m)].state # "waiting"
    /\ Lost(m)
    /\ down' = LostDown(m)
    /\ UNCHANGED <<paused, toggles, issued, arming, consumed, revoked, guestVars, gen>>

\* What is written to the sender when issueTransferTickets has returned.
Answer(t, ok, q) ==
    IF deal[t].from = Owner
    THEN /\ ask' = [ask EXCEPT ![t] = IF ok THEN "granted" ELSE "failed"]
         /\ down' = q
    ELSE /\ down' = IF Serves(deal[t].from, arming[t].from)
                    THEN Push(q, deal[t].from, [type |-> "RESPONSE", ticket |-> t, ok |-> ok])
                    ELSE q
         /\ UNCHANGED ask

BothServed(t) == /\ Serves(deal[t].from, arming[t].from)
                 /\ Serves(deal[t].to, arming[t].to)

\* Mutation: the ticket is put back after the await.
FinishArmingBlindly(t) ==
    /\ arming[t].state = "armed"
    /\ LET ok == BothServed(t) /\ ~paused
       IN  /\ issued' = IF ok THEN issued \cup {t} ELSE issued \ {t}
           /\ Answer(t, ok, down)
    /\ arming' = [arming EXCEPT ![t] = Idle]
    /\ UNCHANGED <<status, paused, toggles, consumed, revoked,
                   use, deal, tickets, view, gpaused, left, gen, open, up>>

\* Mutation: the ticket is granted as soon as its recipient has been told.
FinishArmingEarly(t) ==
    /\ arming[t].state \in {"waiting", "armed"}
    /\ LET ok == BothServed(t) /\ ~paused /\ t \in issued
       IN  /\ issued' = IF ok THEN issued ELSE issued \ {t}
           /\ Answer(t, ok, down)
    /\ arming' = [arming EXCEPT ![t] = Idle]
    /\ UNCHANGED <<status, paused, toggles, consumed, revoked,
                   use, deal, tickets, view, gpaused, left, gen, open, up>>

\* The write of the arm has settled and the recipient has answered: the ticket
\* is granted if it is still issued and both parties are where they were.
FinishArming(t) ==
    /\ arming[t].state = "armed"
    /\ LET ok == BothServed(t) /\ ~paused /\ t \in issued
       IN  /\ issued' = IF ok THEN issued ELSE issued \ {t}
           /\ Answer(t, ok, down)
    /\ arming' = [arming EXCEPT ![t] = Idle]
    /\ UNCHANGED <<status, paused, toggles, consumed, revoked,
                   use, deal, tickets, view, gpaused, left, gen, open, up>>

\* The waiter timed out, which closes the recipient's stream, or was rejected
\* by a pause or a removal.  If both parties are still there, the recipient is
\* marked reconnecting either way.
FailArming(t) ==
    LET to == deal[t].to
    IN  /\ arming[t].state \in {"waiting", "rejected"}
        /\ issued' = issued \ {t}
        /\ arming' = [arming EXCEPT ![t] = Idle]
        /\ IF BothServed(t)
           THEN /\ Lost(to)
                /\ Answer(t, FALSE, LostDown(to))
           ELSE /\ open' = [open EXCEPT ![to] =
                       @ /\ ~(arming[t].state = "waiting" /\ arming[t].to = gen[to])]
                /\ Answer(t, FALSE, down)
                /\ UNCHANGED <<status, up>>
        /\ UNCHANGED <<paused, toggles, consumed, revoked,
                       use, deal, tickets, view, gpaused, left, gen>>

-----------------------------------------------------------------------------
(* Host: consuming, expiry, pausing, losing, removing and resuming members *)

\* consumeIssuedTicket.
Consumable(t) == t \in issued /\ ~paused /\ Online(deal[t].from)

HandleTicketConsume(m) ==
    /\ Hears(m, "CONSUME")
    /\ LET t == Heard(m)
       IN  /\ issued' = IF Consumable(t) THEN issued \ {t} ELSE issued
           /\ consumed' = IF Consumable(t) THEN consumed \cup {t} ELSE consumed
           /\ down' = Push(down, m, [type |-> "CONSUMED", ticket |-> t, ok |-> Consumable(t)])
    /\ Consume(m)
    /\ UNCHANGED <<status, paused, toggles, arming, revoked, guestVars, gen, open>>

\* pruneTickets at the host, for a ticket past its deadline.
Expire(t) ==
    /\ t \in issued
    /\ arming[t] = Idle
    /\ issued' = issued \ {t}
    /\ tickets' = [tickets EXCEPT ![Owner] = @ \ {t}]
    /\ UNCHANGED <<status, paused, toggles, arming, consumed, revoked,
                   ask, use, deal, view, gpaused, left, netVars>>

\* The waiters of these tickets are rejected; issueTransferTickets goes on later.
RejectWaiters(S) ==
    arming' = [t \in Ticket |->
        IF t \in S /\ arming[t].state = "waiting"
        THEN [arming[t] EXCEPT !.state = "rejected"]
        ELSE arming[t]]

\* setRoomPaused, with invalidateAllTickets when it pauses.
SetRoomPaused ==
    /\ toggles < MaxToggle
    /\ toggles' = toggles + 1
    /\ paused' = ~paused
    /\ IF paused'
       THEN /\ revoked' = revoked \cup issued
            /\ issued' = {}
            /\ tickets' = [tickets EXCEPT ![Owner] = {}]
            /\ RejectWaiters(Ticket)
       ELSE UNCHANGED <<revoked, issued, tickets, arming>>
    /\ down' = Relay(down, status, [type |-> "ROOM_PAUSE", paused |-> paused'])
    /\ UNCHANGED <<status, consumed, ask, use, deal, view, gpaused, left, gen, open, up>>

LoseMember(m) ==
    /\ status[m] = "online"
    /\ ~open[m]
    /\ Lost(m)
    /\ down' = LostDown(m)
    /\ UNCHANGED <<paused, toggles, issued, arming, consumed, revoked, guestVars, gen>>

\* removeMember with invalidateMemberTickets: by the host, for a member that
\* has left, or when its grace time is over.
RemoveMember(m) ==
    LET its == {t \in Ticket : m \in Parties(t)}
        st  == [status EXCEPT ![m] = "gone"]
    IN  /\ status[m] # "gone"
        /\ status' = st
        /\ revoked' = revoked \cup (issued \cap its)
        /\ issued' = issued \ its
        /\ tickets' = [tickets EXCEPT ![Owner] = @ \ its]
        /\ RejectWaiters(its)
        /\ open' = [open EXCEPT ![m] = FALSE]
        /\ up' = [up EXCEPT ![m] = <<>>]
        /\ down' = LET told == Relay(down, st, [type |-> "MEMBER_LEFT", who |-> m])
                   IN  IF status[m] = "online" THEN Push(told, m, [type |-> "REMOVED"]) ELSE told
        /\ UNCHANGED <<paused, toggles, consumed, ask, use, deal, view, gpaused, left, gen>>

\* The member's part of a pause: invalidateAllTickets on its own page.
ForgetAll(m) ==
    /\ tickets' = [tickets EXCEPT ![m] = {}]
    /\ ask' = [t \in Ticket |->
           IF deal[t].from = m /\ ask[t] = "asked" THEN "failed" ELSE ask[t]]
    /\ use' = [t \in Ticket |->
           IF deal[t].to = m /\ use[t] = "consuming" THEN "refused" ELSE use[t]]

\* The member dials again and takes over the pause state of RESUME_ACCEPT.
BeginResume(m) ==
    /\ m \notin left
    /\ status[m] = "reconnecting"
    /\ ~open[m]
    /\ gen[m] < MaxStream
    /\ gen' = [gen EXCEPT ![m] = @ + 1]
    /\ open' = [open EXCEPT ![m] = TRUE]
    /\ up' = [up EXCEPT ![m] = <<>>]
    /\ down' = [down EXCEPT ![m] = <<>>]
    /\ gpaused' = [gpaused EXCEPT ![m] = paused]
    /\ IF paused THEN ForgetAll(m) ELSE UNCHANGED <<tickets, ask, use>>
    /\ UNCHANGED <<hostVars, deal, view, left>>

\* acceptResume activates: the replay, or the resync, has brought the member
\* list up to date, and everybody is told that the member is back.
FinishResume(m) ==
    LET st == [status EXCEPT ![m] = "online"]
    IN  /\ status[m] = "reconnecting"
        /\ open[m]
        /\ status' = st
        /\ down' = Relay([down EXCEPT ![m] = Append(@, [type |-> "ROSTER", view |-> status])], st,
                         [type |-> "MEMBER_STATE", who |-> m, status |-> "online"])
        /\ UNCHANGED <<paused, toggles, issued, arming, consumed, revoked, guestVars, gen, open, up>>

-----------------------------------------------------------------------------
(* Sender: asking for a ticket *)

\* requestTransferTickets on a member.
Request(m) ==
    /\ m \notin left
    /\ ~gpaused[m]
    /\ \E t \in Fresh, x \in Who \ {m} :
        /\ deal' = [deal EXCEPT ![t] = [from |-> m, to |-> x, asked |-> gen[m], consuming |-> 0]]
        /\ ask' = [ask EXCEPT ![t] = "asked"]
        /\ up' = Push(up, m, [type |-> "REQUEST", ticket |-> t])
    /\ UNCHANGED <<hostVars, use, tickets, view, gpaused, left, gen, open, down>>

Reads(m, type) ==
    /\ m \notin left
    /\ down[m] # <<>>
    /\ Head(down[m]).type = type

Received(m) == Head(down[m])
Advance(m) == down' = [down EXCEPT ![m] = Tail(@)]

\* Mutation: a failure is stored as the host worded it.
ReadResponseVerbatim(m) ==
    /\ Reads(m, "RESPONSE")
    /\ LET t == Received(m).ticket
       IN  ask' = IF ask[t] # "asked" THEN ask
                  ELSE [ask EXCEPT ![t] = IF Received(m).ok THEN "granted" ELSE "UNAVAILABLE"]
    /\ Advance(m)
    /\ UNCHANGED <<hostVars, use, deal, tickets, view, gpaused, left, gen, open, up>>

\* resolveTicketRequest; an answer nobody waits for any more is absorbed.
ReadResponse(m) ==
    /\ Reads(m, "RESPONSE")
    /\ LET t == Received(m).ticket
       IN  ask' = IF ask[t] # "asked" THEN ask
                  ELSE [ask EXCEPT ![t] = IF Received(m).ok THEN "granted" ELSE "failed"]
    /\ Advance(m)
    /\ UNCHANGED <<hostVars, use, deal, tickets, view, gpaused, left, gen, open, up>>

\* The request times out and takes the stream it was written to with it.
RequestTimeout(t) ==
    LET m == deal[t].from
    IN  /\ ask[t] = "asked"
        /\ m # Owner
        /\ ask' = [ask EXCEPT ![t] = "failed"]
        /\ open' = [open EXCEPT ![m] = @ /\ deal[t].asked # gen[m]]
        /\ UNCHANGED <<hostVars, use, deal, tickets, view, gpaused, left, gen, up, down>>

-----------------------------------------------------------------------------
(* Recipient: being armed, and consuming the ticket of an offer *)

SeesOnline(m, x) == x \in Member => view[m][x] = "online"

\* What both armTicket and consumeTransferTicket ask of a member's own copies.
Usable(m, t) == ~gpaused[m] /\ SeesOnline(m, deal[t].from) /\ SeesOnline(m, m)

\* armTicket on a member, and its acknowledgement.
ReadArm(m) ==
    /\ Reads(m, "ARM")
    /\ LET t == Received(m).ticket
       IN  /\ Usable(m, t)
           /\ tickets' = [tickets EXCEPT ![m] = @ \cup {t}]
           /\ up' = Push(up, m, [type |-> "ARMED", ticket |-> t])
    /\ Advance(m)
    /\ UNCHANGED <<hostVars, ask, use, deal, view, gpaused, left, gen, open>>

\* armTicket throws: the member closes its stream.
ReadUnusableArm(m) ==
    /\ Reads(m, "ARM")
    /\ ~Usable(m, Received(m).ticket)
    /\ open' = [open EXCEPT ![m] = FALSE]
    /\ down' = [down EXCEPT ![m] = <<>>]
    /\ UNCHANGED <<hostVars, guestVars, gen, up>>

\* consumeTransferTicket on a member, up to its await: the sender's offer has
\* been read.  What fails the local checks is not asked of the host.
ReadOffer(t) ==
    LET m == deal[t].to
    IN  /\ ask[t] = "granted" /\ use[t] = "none"
        /\ m \in Member \ left
        /\ IF t \in tickets[m] /\ Usable(m, t)
           THEN /\ use' = [use EXCEPT ![t] = "consuming"]
                /\ deal' = [deal EXCEPT ![t].consuming = gen[m]]
                /\ up' = Push(up, m, [type |-> "CONSUME", ticket |-> t])
           ELSE /\ use' = [use EXCEPT ![t] = "refused"]
                /\ UNCHANGED <<deal, up>>
        /\ UNCHANGED <<hostVars, ask, tickets, view, gpaused, left, gen, open, down>>

\* The same on the host, which asks itself.
ReadOfferAsHost(t) ==
    /\ ask[t] = "granted" /\ use[t] = "none"
    /\ deal[t].to = Owner
    /\ LET ok == t \in tickets[Owner] /\ Consumable(t)
       IN  /\ use' = [use EXCEPT ![t] = IF ok THEN "accepted" ELSE "refused"]
           /\ issued' = IF ok THEN issued \ {t} ELSE issued
           /\ consumed' = IF ok THEN consumed \cup {t} ELSE consumed
           /\ tickets' = IF ok THEN [tickets EXCEPT ![Owner] = @ \ {t}] ELSE tickets
    /\ UNCHANGED <<status, paused, toggles, arming, revoked, ask, deal, view, gpaused, left, netVars>>

\* resolveTicketConsume; only a consumption still waited for is completed.
ReadConsumed(m) ==
    /\ Reads(m, "CONSUMED")
    /\ LET t == Received(m).ticket
       IN  IF use[t] = "consuming"
           THEN /\ use' = [use EXCEPT ![t] = IF Received(m).ok THEN "accepted" ELSE "refused"]
                /\ tickets' = [tickets EXCEPT ![m] = @ \ {t}]
           ELSE UNCHANGED <<use, tickets>>
    /\ Advance(m)
    /\ UNCHANGED <<hostVars, ask, deal, view, gpaused, left, gen, open, up>>

ConsumeTimeout(t) ==
    LET m == deal[t].to
    IN  /\ use[t] = "consuming"
        /\ use' = [use EXCEPT ![t] = "refused"]
        /\ tickets' = [tickets EXCEPT ![m] = @ \ {t}]
        /\ open' = [open EXCEPT ![m] = @ /\ deal[t].consuming # gen[m]]
        /\ UNCHANGED <<hostVars, ask, deal, view, gpaused, left, gen, up, down>>

\* pruneTickets on a member; its deadline lies behind the host's.
ExpireArmed(m, t) ==
    /\ t \in tickets[m] \ issued
    /\ arming[t] = Idle
    /\ tickets' = [tickets EXCEPT ![m] = @ \ {t}]
    /\ UNCHANGED <<hostVars, ask, use, deal, view, gpaused, left, netVars>>

-----------------------------------------------------------------------------
(* Member: the state of the room *)

\* Mutation: pausing keeps what has been armed.
ReadPauseOnly(m) ==
    /\ Reads(m, "ROOM_PAUSE")
    /\ gpaused' = [gpaused EXCEPT ![m] = Received(m).paused]
    /\ Advance(m)
    /\ UNCHANGED <<hostVars, ask, use, tickets, deal, view, left, gen, open, up>>

ReadPause(m) ==
    /\ Reads(m, "ROOM_PAUSE")
    /\ gpaused' = [gpaused EXCEPT ![m] = Received(m).paused]
    /\ IF Received(m).paused THEN ForgetAll(m) ELSE UNCHANGED <<tickets, ask, use>>
    /\ Advance(m)
    /\ UNCHANGED <<hostVars, deal, view, left, gen, open, up>>

ReadMemberState(m) ==
    /\ Reads(m, "MEMBER_STATE")
    /\ view' = [view EXCEPT ![m][Received(m).who] = Received(m).status]
    /\ Advance(m)
    /\ UNCHANGED <<hostVars, ask, use, deal, tickets, gpaused, left, gen, open, up>>

\* Mutation: a consumption on its way is not refused.
ForgetArmed(m, S) ==
    /\ tickets' = [tickets EXCEPT ![m] = @ \ {t \in Ticket : Parties(t) \cap S # {}}]
    /\ UNCHANGED use

\* Mutation: every ticket is forgotten, whoever has left.
ForgetTooMuch(m, S) == tickets' = [tickets EXCEPT ![m] = {}] /\ UNCHANGED use

\* invalidateMemberTickets on a member, for everybody in S.
Forget(m, S) ==
    LET its == {t \in Ticket : Parties(t) \cap S # {}}
    IN  /\ tickets' = [tickets EXCEPT ![m] = @ \ its]
        /\ use' = [t \in Ticket |->
               IF t \in its /\ deal[t].to = m /\ use[t] = "consuming" THEN "refused" ELSE use[t]]

\* TICKETS_REVOKED and MEMBER_LEFT, which the host writes together.
ReadMemberLeft(m) ==
    /\ Reads(m, "MEMBER_LEFT")
    /\ view' = [view EXCEPT ![m][Received(m).who] = "gone"]
    /\ Forget(m, {Received(m).who})
    /\ Advance(m)
    /\ UNCHANGED <<hostVars, ask, deal, gpaused, left, gen, open, up>>

ReadRoster(m) ==
    /\ Reads(m, "ROSTER")
    /\ view' = [view EXCEPT ![m] = Received(m).view]
    /\ Forget(m, {x \in Member : view[m][x] # "gone" /\ Received(m).view[x] = "gone"})
    /\ Advance(m)
    /\ UNCHANGED <<hostVars, ask, deal, gpaused, left, gen, open, up>>

\* close() on a member, with resetState.
Quit(m) ==
    /\ left' = left \cup {m}
    /\ ForgetAll(m)
    /\ view' = [view EXCEPT ![m] = [x \in Member |-> "gone"]]
    /\ gpaused' = [gpaused EXCEPT ![m] = FALSE]
    /\ open' = [open EXCEPT ![m] = FALSE]
    /\ down' = [down EXCEPT ![m] = <<>>]
    /\ UNCHANGED <<hostVars, deal, gen, up>>

ReadRemoved(m) == Reads(m, "REMOVED") /\ Quit(m)

\* The user leaves, or the member's own recovery has run out of time.
Leave(m) == m \notin left /\ Quit(m)

\* The stream fails.
Break(m) ==
    /\ open[m]
    /\ open' = [open EXCEPT ![m] = FALSE]
    /\ UNCHANGED <<hostVars, guestVars, gen, up, down>>

-----------------------------------------------------------------------------
HostAction(m) ==
    \/ HandleTicketRequest(m)
    \/ HearArmed(m)
    \/ HearUnexpectedArmed(m)
    \/ HandleTicketConsume(m)
    \/ LoseMember(m)
    \/ RemoveMember(m)
    \/ FinishResume(m)

GuestAction(m) ==
    \/ Request(m)
    \/ ReadResponse(m)
    \/ ReadArm(m)
    \/ ReadUnusableArm(m)
    \/ ReadConsumed(m)
    \/ ReadPause(m)
    \/ ReadMemberState(m)
    \/ ReadMemberLeft(m)
    \/ ReadRoster(m)
    \/ ReadRemoved(m)
    \/ Leave(m)
    \/ BeginResume(m)

TicketAction(t) ==
    \/ FinishArming(t)
    \/ FailArming(t)
    \/ Expire(t)
    \/ RequestTimeout(t)
    \/ ReadOffer(t)
    \/ ReadOfferAsHost(t)
    \/ ConsumeTimeout(t)
    \/ \E m \in Member : ExpireArmed(m, t)

Next ==
    \/ OwnerRequest
    \/ SetRoomPaused
    \/ \E m \in Member : HostAction(m) \/ GuestAction(m) \/ Break(m)
    \/ \E t \in Ticket : TicketAction(t)

Spec == Init /\ [][Next]_vars

-----------------------------------------------------------------------------
(* Properties *)

\* "removal, pause ... invalidates it" (README): a ticket that was issued when
\* the room paused or one of its parties was removed is never consumed
\* afterwards, not even if the room goes on before the arming has returned,
\* and no recipient accepts an offer the host has not consumed the ticket for.
RevokedNeverUsed ==
    /\ revoked \cap consumed = {}
    /\ \A t \in Ticket : use[t] = "accepted" => t \in consumed

\* A ticket that the host still honours and is not arming any more is held by
\* its recipient, however often streams were replaced meanwhile: the sender of
\* a granted ticket never meets a recipient that does not know it.
GrantIsArmed ==
    \A t \in issued :
        arming[t] = Idle /\ deal[t].to \notin left /\ use[t] \in {"none", "consuming"}
            => t \in tickets[deal[t].to]

\* maxOutstandingTicketsPerMember holds although each issue waits for its
\* recipient, and the next one may be asked for and decided before that.
OutstandingBound == \A x \in Who : Cardinality(Outstanding(x)) <= MaxOutstanding

\* Once a member knows that the room is paused, or that somebody has left, it
\* holds nothing that could start a transfer: no armed ticket of theirs and no
\* consumption on its way.
NothingHeldAfterNotice ==
    \A m \in Member, t \in Ticket :
        (t \in tickets[m] \/ (deal[t].to = m /\ use[t] = "consuming"))
            => /\ ~gpaused[m]
               /\ \A x \in Parties(t) \cap Member : view[m][x] # "gone"

Unread(t) == \E i \in DOMAIN up[deal[t].to] :
    up[deal[t].to][i] = [type |-> "ARMED", ticket |-> t]

\* README: "a slow member is disconnected without blocking the room".  Two
\* members that both serve the other's ticket and have both answered are not
\* kept waiting for each other's answer, which only a timeout would end.
NoMutualWait ==
    \A t, u \in Ticket :
        ~ /\ arming[t].state = "waiting" /\ BothServed(t) /\ Unread(t)
          /\ arming[u].state = "waiting" /\ BothServed(u) /\ Unread(u)
          /\ deal[t].from = deal[u].to /\ deal[u].from = deal[t].to
=============================================================================
