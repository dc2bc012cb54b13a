------------------------- MODULE GroupTicketsProofs -------------------------
(***************************************************************************)
(* Theorems about GroupTickets, for any members, limits and bounds, and    *)
(* their proofs.  What the host and a member know of one ticket is linked  *)
(* by the frames between them, so the invariant says what each frame in    *)
(* flight still means when it is read.                                     *)
(***************************************************************************)
EXTENDS GroupTickets, FiniteSetTheorems, TLAPS

\* The frames of a stream, in no order.
Frames(q) == {q[i] : i \in 1 .. Len(q)}

\* The host has not acted on a request for t.
Untouched(t) ==
    /\ t \notin issued \cup consumed \cup revoked
    /\ arming[t].state = "idle"
    /\ \A x \in Who : t \notin tickets[x]
    /\ \A m \in Member :
        /\ \A f \in Frames(up[m]) : f.type = "ARMED" => f.ticket # t
        /\ \A f \in Frames(down[m]) : f.type = "ARM" => f.ticket # t

\* A number nobody has asked with is used nowhere.
Unasked ==
    \A t \in Ticket : ask[t] = "none" =>
        /\ Untouched(t)
        /\ use[t] = "none"
        /\ \A m \in Member : \A f \in Frames(up[m]) : f.type = "REQUEST" => f.ticket # t

\* What the host will still read.
UpInv ==
    \A m \in Member : \A f \in Frames(up[m]) :
        /\ f.type = "REQUEST" => deal[f.ticket].from = m /\ Untouched(f.ticket)
        /\ f.type = "ARMED" => deal[f.ticket].to = m

\* No request is read twice.
Once(q) == \A i, j \in 1 .. Len(q) :
    q[i].type = "REQUEST" /\ q[j].type = "REQUEST" /\ q[i].ticket = q[j].ticket => i = j

AskedOnce == \A m \in Member : Once(up[m])

\* What a member will still read.
DownInv ==
    \A m \in Member : \A f \in Frames(down[m]) :
        /\ f.type = "ARM" => deal[f.ticket].to = m
        /\ f.type = "CONSUMED" => (f.ok => f.ticket \in consumed)
        /\ f.type = "MEMBER_LEFT" => status[f.who] = "gone"
        /\ f.type = "ROSTER" => \A x \in Member : f.view[x] = "gone" => status[x] = "gone"

\* A ticket is issued, consumed or revoked, each for good.
Ledger ==
    /\ issued \cap consumed = {}
    /\ issued \cap revoked = {}
    /\ revoked \cap consumed = {}
    /\ \A t \in Ticket : use[t] = "accepted" => t \in consumed

\* What is issued could be used now.
Usability ==
    /\ paused => issued = {}
    /\ \A t \in issued : \A x \in Parties(t) \cap Member : status[x] # "gone"

\* Only members are waited for.
WaitsForMembers == \A t \in Ticket : arming[t].state # "idle" => deal[t].to \in Member

\* The recipient of t has been armed, as far as the host has heard or will hear.
Answered(t) ==
    \/ arming[t].state \in {"idle", "armed"}
    \/ /\ deal[t].to \in Member
       /\ \E f \in Frames(up[deal[t].to]) : f.type = "ARMED" /\ f.ticket = t

\* GrantIsArmed, from the recipient's answer on.
Held ==
    \A t \in issued :
        Answered(t) /\ deal[t].to \notin left /\ use[t] \in {"none", "consuming"}
            => t \in tickets[deal[t].to]

IsPause(f) == f.type = "ROOM_PAUSE" /\ f.paused

\* A pause on its way to the recipient was sent before the ticket's arm.
PauseFirst(q, t) == \A i, j \in 1 .. Len(q) :
    IsPause(q[i]) /\ q[j].type = "ARM" /\ q[j].ticket = t => i < j

PauseOrder ==
    \A t \in issued : deal[t].to \in Member =>
        /\ PauseFirst(down[deal[t].to], t)
        /\ (\E f \in Frames(down[deal[t].to]) : IsPause(f)) => t \notin tickets[deal[t].to]

TicketInv ==
    /\ TypeOK
    /\ Unasked
    /\ UpInv
    /\ AskedOnce
    /\ DownInv
    /\ Ledger
    /\ Usability
    /\ WaitsForMembers
    /\ Held
    /\ PauseOrder
    /\ NothingHeldAfterNotice
    /\ OutstandingBound

-----------------------------------------------------------------------------
(* Frames and queues *)

\* Reading and writing a queue, as far as the frames in it are concerned.
LEMMA FramesOf ==
  ASSUME NEW S, NEW q \in Seq(S), NEW f \in S
  PROVE  /\ Append(q, f) \in Seq(S)
         /\ Frames(Append(q, f)) = Frames(q) \cup {f}
         /\ Frames(q) \subseteq S
<1>1. Append(q, f) \in Seq(S) /\ Len(q) \in Nat /\ Len(Append(q, f)) = Len(q) + 1
  OBVIOUS
<1>2. \A i \in 1 .. Len(q) : Append(q, f)[i] = q[i] /\ q[i] \in S
  OBVIOUS
<1>3. Append(q, f)[Len(q) + 1] = f
  OBVIOUS
<1>4. 1 .. Len(Append(q, f)) = (1 .. Len(q)) \cup {Len(q) + 1}
  BY <1>1
<1> QED
  BY <1>1, <1>2, <1>3, <1>4 DEF Frames

\* Reading the head of a queue leaves the rest of it, in its order.
LEMMA FramesLeft ==
  ASSUME NEW S, NEW q \in Seq(S), q # <<>>
  PROVE  /\ Head(q) \in Frames(q) /\ Head(q) \in S /\ Head(q) = q[1]
         /\ Tail(q) \in Seq(S)
         /\ Frames(Tail(q)) \subseteq Frames(q)
         /\ \A i \in 1 .. Len(Tail(q)) : i + 1 \in 1 .. Len(q) /\ Tail(q)[i] = q[i + 1]
<1>1. Len(q) \in Nat /\ Len(q) > 0 /\ Len(Tail(q)) = Len(q) - 1 /\ Tail(q) \in Seq(S)
  OBVIOUS
<1>2. Head(q) = q[1] /\ q[1] \in S /\ 1 \in 1 .. Len(q)
  BY <1>1
<1>3. \A i \in 1 .. Len(Tail(q)) : i + 1 \in 1 .. Len(q) /\ Tail(q)[i] = q[i + 1]
  BY <1>1
<1> QED
  BY <1>1, <1>2, <1>3 DEF Frames

\* An empty queue holds nothing.
LEMMA NoFrames == Frames(<<>>) = {}
  BY DEF Frames

\* What is written to one stream, or to all, keeps the queues what they are.
LEMMA PushOf ==
  ASSUME NEW S, NEW q \in [Member -> Seq(S)], NEW x, NEW f \in S
  PROVE  /\ Push(q, x, f) \in [Member -> Seq(S)]
         /\ \A m \in Member : Push(q, x, f)[m] = q[m] \/ Push(q, x, f)[m] = Append(q[m], f)
         /\ \A m \in Member \ {x} : Push(q, x, f)[m] = q[m]
<1>1. ASSUME NEW m \in Member PROVE Append(q[m], f) \in Seq(S)
  BY FramesOf
<1> QED
  BY <1>1 DEF Push

\* The same for what is written to all who are online.
LEMMA RelayOf ==
  ASSUME NEW S, NEW q \in [Member -> Seq(S)], NEW st, NEW f \in S
  PROVE  /\ Relay(q, st, f) \in [Member -> Seq(S)]
         /\ \A m \in Member : Relay(q, st, f)[m] \in {q[m], Append(q[m], f)}
<1>1. ASSUME NEW m \in Member PROVE Append(q[m], f) \in Seq(S)
  BY FramesOf
<1> QED
  BY <1>1 DEF Relay

\* The frames by their types.
LEMMA GuestFrames ==
  ASSUME NEW t \in Ticket, NEW ty \in {"REQUEST", "ARMED", "CONSUME"}
  PROVE  [type |-> ty, ticket |-> t] \in GuestFrame
  BY DEF GuestFrame

\* What the host writes are frames.
LEMMA HostFrames ==
  /\ \A t \in Ticket : [type |-> "ARM", ticket |-> t] \in HostFrame
  /\ \A t \in Ticket : \A ok \in BOOLEAN :
       /\ [type |-> "RESPONSE", ticket |-> t, ok |-> ok] \in HostFrame
       /\ [type |-> "CONSUMED", ticket |-> t, ok |-> ok] \in HostFrame
  /\ \A b \in BOOLEAN : [type |-> "ROOM_PAUSE", paused |-> b] \in HostFrame
  /\ \A x \in Member :
       /\ [type |-> "MEMBER_LEFT", who |-> x] \in HostFrame
       /\ \A s \in {"online", "reconnecting"} :
            [type |-> "MEMBER_STATE", who |-> x, status |-> s] \in HostFrame
  /\ \A v \in [Member -> Presence] : [type |-> "ROSTER", view |-> v] \in HostFrame
  /\ [type |-> "REMOVED"] \in HostFrame
  BY DEF HostFrame

\* What a frame of the host carries.
LEMMA HostFrameFields ==
  ASSUME NEW f \in HostFrame
  PROVE  /\ f.type \in {"ARM", "RESPONSE", "CONSUMED"} => f.ticket \in Ticket
         /\ f.type \in {"RESPONSE", "CONSUMED"} => f.ok \in BOOLEAN
         /\ f.type = "ROOM_PAUSE" => f.paused \in BOOLEAN
         /\ f.type \in {"MEMBER_STATE", "MEMBER_LEFT"} => f.who \in Member
         /\ f.type = "MEMBER_STATE" => f.status \in {"online", "reconnecting"}
         /\ f.type = "ROSTER" => f.view \in [Member -> Presence]
  BY DEF HostFrame

-----------------------------------------------------------------------------
(* What a step may do that neither asks for a ticket nor issues one *)

SameNames ==
    \A t \in Ticket : /\ deal'[t].from = deal[t].from /\ deal'[t].to = deal[t].to
                      /\ ask'[t] = "none" <=> ask[t] = "none"
                      /\ use[t] = "none" /\ ask[t] = "none" => use'[t] = "none"

\* A ticket is never issued again, and consumed or revoked only while issued.
OneWay ==
    /\ issued' \subseteq issued
    /\ consumed \subseteq consumed' /\ consumed' \subseteq consumed \cup (issued \ issued')
    /\ revoked \subseteq revoked' /\ revoked' \subseteq revoked \cup (issued \ issued')
    /\ consumed' = consumed \/ revoked' = revoked
    /\ \A t \in Ticket : use'[t] = "accepted" => use[t] = "accepted" \/ t \in consumed'

NoNewWaiter == \A t \in Ticket : arming'[t].state # "idle" => arming[t].state # "idle"

\* Whoever is shut out takes its tickets with it.
RoomStep ==
    /\ paused' => paused \/ issued' = {}
    /\ \A x \in Member : status[x] = "gone" => status'[x] = "gone"
    /\ \A x \in Member : status'[x] = "gone" =>
         status[x] = "gone" \/ \A t \in issued' : x \notin Parties(t)

\* A member answers what it has been armed with, and consumes.
UpStep ==
    \A m \in Member :
        /\ \A f \in Frames(up'[m]) :
            \/ f \in Frames(up[m])
            \/ f.type = "CONSUME"
            \/ f.type = "ARMED" /\ \E g \in Frames(down[m]) : g.type = "ARM" /\ g.ticket = f.ticket
        /\ Once(up[m]) => Once(up'[m])

DownStep ==
    \A m \in Member : \A f \in Frames(down'[m]) :
        \/ f \in Frames(down[m])
        \/ f.type \in {"RESPONSE", "ROOM_PAUSE", "MEMBER_STATE", "REMOVED"}
        \/ f.type = "CONSUMED" /\ (f.ok => f.ticket \in consumed')
        \/ f.type = "MEMBER_LEFT" /\ status'[f.who] = "gone"
        \/ f.type = "ROSTER" /\ f.view = status

ArmedByFrame ==
    \A x \in Who : \A t \in tickets'[x] :
        \/ t \in tickets[x]
        \/ x \in Member /\ \E g \in Frames(down[x]) : g.type = "ARM" /\ g.ticket = t

HeldStep ==
    \A t \in issued' :
        /\ Answered(t)' => Answered(t) \/ t \in tickets'[deal[t].to]
        /\ t \in tickets[deal[t].to] => \/ t \in tickets'[deal[t].to]
                                        \/ deal[t].to \in left'
                                        \/ use'[t] \notin {"none", "consuming"}
        /\ left \subseteq left'
        /\ use'[t] \in {"none", "consuming"} => use[t] \in {"none", "consuming"}

OrderStep ==
    \A t \in issued' : deal[t].to \in Member =>
        /\ PauseFirst(down[deal[t].to], t) => PauseFirst(down'[deal[t].to], t)
        /\ \A f \in Frames(down'[deal[t].to]) : IsPause(f) =>
            /\ f \in Frames(down[deal[t].to])
            /\ t \in tickets'[deal[t].to] => t \in tickets[deal[t].to]

\* m holds what could start the transfer of t; m knows of nothing against it.
Holds(m, t) == t \in tickets[m] \/ (deal[t].to = m /\ use[t] = "consuming")
Clear(m, t) == ~gpaused[m] /\ \A x \in Parties(t) \cap Member : view[m][x] # "gone"

NoticeStep ==
    \A m \in Member, t \in Ticket : Holds(m, t)' => Clear(m, t)' \/ (Holds(m, t) /\ (Clear(m, t) => Clear(m, t)'))

Calm ==
    /\ SameNames
    /\ OneWay
    /\ NoNewWaiter
    /\ RoomStep
    /\ UpStep
    /\ DownStep
    /\ ArmedByFrame
    /\ HeldStep
    /\ OrderStep
    /\ NoticeStep

\* What no request has touched stays so.
LEMMA UntouchedKept ==
  ASSUME TypeOK, OneWay, NoNewWaiter, UpStep, DownStep, ArmedByFrame,
         NEW t \in Ticket, Untouched(t)
  PROVE  Untouched(t)'
<1>1. t \notin issued' \cup consumed' \cup revoked'
  BY DEF OneWay, Untouched
<1>2. arming'[t].state = "idle"
  BY DEF NoNewWaiter, Untouched
<1>3. \A x \in Who : t \notin tickets'[x]
  BY DEF ArmedByFrame, Untouched
<1>4. ASSUME NEW m \in Member
      PROVE  /\ \A f \in Frames(up'[m]) : f.type = "ARMED" => f.ticket # t
             /\ \A f \in Frames(down'[m]) : f.type = "ARM" => f.ticket # t
  BY DEF UpStep, DownStep, Untouched
<1> QED
  BY <1>1, <1>2, <1>3, <1>4 DEF Untouched

\* The tickets of one sender that are issued are finitely many.
LEMMA Countable ==
  ASSUME GroupTicketsAssumption, issued \subseteq Ticket, NEW x
  PROVE  /\ IsFiniteSet(Outstanding(x)) /\ Cardinality(Outstanding(x)) \in Nat
         /\ \A S : S \subseteq Outstanding(x)
                   => IsFiniteSet(S) /\ Cardinality(S) <= Cardinality(Outstanding(x))
                      /\ Cardinality(S) \in Nat
<1>1. IsFiniteSet(Ticket)
  BY FS_Interval DEF Ticket, GroupTicketsAssumption
<1>2. Outstanding(x) \subseteq Ticket
  BY DEF Outstanding
<1>3. IsFiniteSet(Outstanding(x)) /\ Cardinality(Outstanding(x)) \in Nat
  BY <1>1, <1>2, FS_Subset, FS_CardinalityType
<1> QED
  BY <1>3, FS_Subset, FS_CardinalityType

\* Such a step keeps the invariant.
LEMMA CalmInv ==
  ASSUME GroupTicketsAssumption, TicketInv, TypeOK', Calm
  PROVE  TicketInv'
<1> USE DEF Calm, TicketInv
<1>1. \A t \in Ticket : Untouched(t) => Untouched(t)'
  BY UntouchedKept
<1>2. Unasked'
  <2> SUFFICES ASSUME NEW t \in Ticket, ask'[t] = "none"
               PROVE  /\ Untouched(t)' /\ use'[t] = "none"
                      /\ \A m \in Member : \A f \in Frames(up'[m]) :
                           f.type = "REQUEST" => f.ticket # t
    BY DEF Unasked
  <2>1. ask[t] = "none"
    BY DEF SameNames
  <2>2. /\ Untouched(t) /\ use[t] = "none"
        /\ \A m \in Member : \A f \in Frames(up[m]) : f.type = "REQUEST" => f.ticket # t
    BY <2>1 DEF Unasked
  <2>3. use'[t] = "none"
    BY <2>1, <2>2 DEF SameNames
  <2> QED
    BY <1>1, <2>2, <2>3 DEF UpStep
<1>3. UpInv'
  <2> SUFFICES ASSUME NEW m \in Member, NEW f \in Frames(up'[m])
               PROVE  /\ f.type = "REQUEST" => deal'[f.ticket].from = m /\ Untouched(f.ticket)'
                      /\ f.type = "ARMED" => deal'[f.ticket].to = m
    BY DEF UpInv
  <2>1. f.type \in {"REQUEST", "ARMED"} => f.ticket \in Ticket
    <3>1. up'[m] \in Seq(GuestFrame)
      BY DEF TypeOK
    <3>2. f \in GuestFrame
      BY <3>1 DEF Frames
    <3> QED
      BY <3>2 DEF GuestFrame
  <2>2. CASE f \in Frames(up[m])
    BY <1>1, <2>1, <2>2 DEF UpInv, SameNames
  <2>3. CASE f.type = "CONSUME"
    BY <2>3
  <2>4. CASE /\ f.type = "ARMED"
             /\ \E g \in Frames(down[m]) : g.type = "ARM" /\ g.ticket = f.ticket
    <3>1. deal[f.ticket].to = m
      BY <2>4 DEF DownInv
    <3> QED
      BY <2>1, <2>4, <3>1 DEF SameNames
  <2> QED
    BY <2>2, <2>3, <2>4 DEF UpStep
<1>4. AskedOnce'
  BY DEF AskedOnce, UpStep
<1>5. DownInv'
  <2> SUFFICES ASSUME NEW m \in Member, NEW f \in Frames(down'[m])
               PROVE  /\ f.type = "ARM" => deal'[f.ticket].to = m
                      /\ f.type = "CONSUMED" => (f.ok => f.ticket \in consumed')
                      /\ f.type = "MEMBER_LEFT" => status'[f.who] = "gone"
                      /\ f.type = "ROSTER" =>
                           \A x \in Member : f.view[x] = "gone" => status'[x] = "gone"
    BY DEF DownInv
  <2>1. /\ f.type = "ARM" => f.ticket \in Ticket
        /\ f.type = "MEMBER_LEFT" => f.who \in Member
    <3>1. down'[m] \in Seq(HostFrame)
      BY DEF TypeOK
    <3>2. f \in HostFrame
      BY <3>1 DEF Frames
    <3> QED
      BY <3>2, HostFrameFields
  <2>2. CASE f \in Frames(down[m])
    <3>1. /\ f.type = "ARM" => deal[f.ticket].to = m
          /\ f.type = "CONSUMED" => (f.ok => f.ticket \in consumed)
          /\ f.type = "MEMBER_LEFT" => status[f.who] = "gone"
          /\ f.type = "ROSTER" => \A x \in Member : f.view[x] = "gone" => status[x] = "gone"
      BY <2>2 DEF DownInv
    <3> QED
      BY <2>1, <3>1 DEF SameNames, OneWay, RoomStep
  <2>3. CASE f \notin Frames(down[m])
    BY <2>3 DEF DownStep, RoomStep
  <2> QED
    BY <2>2, <2>3
<1>6. Ledger'
  <2>1. issued' \cap consumed' = {} /\ issued' \cap revoked' = {} /\ revoked' \cap consumed' = {}
    BY DEF Ledger, OneWay
  <2>2. \A t \in Ticket : use'[t] = "accepted" => t \in consumed'
    BY DEF Ledger, OneWay
  <2> QED
    BY <2>1, <2>2 DEF Ledger
<1>7. Usability'
  <2>1. paused' => issued' = {}
    BY DEF Usability, RoomStep, OneWay
  <2>2. ASSUME NEW t \in issued', NEW x \in Parties(t)' \cap Member
        PROVE  status'[x] # "gone"
    <3>1. t \in issued /\ t \in Ticket /\ x \in Parties(t)
      BY <2>2 DEF OneWay, TypeOK, SameNames, Parties
    <3> QED
      BY <3>1, <2>2 DEF Usability, RoomStep
  <2> QED
    BY <2>1, <2>2 DEF Usability
<1>8. WaitsForMembers'
  BY DEF WaitsForMembers, NoNewWaiter, SameNames
<1>9. Held'
  <2> SUFFICES ASSUME NEW t \in issued', Answered(t)', deal'[t].to \notin left',
                      use'[t] \in {"none", "consuming"}
               PROVE  t \in tickets'[deal'[t].to]
    BY DEF Held
  <2>1. t \in issued /\ t \in Ticket /\ deal'[t].to = deal[t].to
    BY DEF OneWay, TypeOK, SameNames
  <2>2. Answered(t) => t \in tickets[deal[t].to]
    BY <2>1 DEF Held, HeldStep
  <2> QED
    BY <2>1, <2>2 DEF HeldStep
<1>10. PauseOrder'
  <2> SUFFICES ASSUME NEW t \in issued', deal'[t].to \in Member
               PROVE  /\ PauseFirst(down'[deal'[t].to], t)
                      /\ (\E f \in Frames(down'[deal'[t].to]) : IsPause(f))
                           => t \notin tickets'[deal'[t].to]
    BY DEF PauseOrder, PauseFirst, IsPause
  <2>1. t \in issued /\ t \in Ticket /\ deal'[t].to = deal[t].to
    BY DEF OneWay, TypeOK, SameNames
  <2> QED
    BY <2>1 DEF PauseOrder, OrderStep
<1>11. NothingHeldAfterNotice'
  BY DEF NothingHeldAfterNotice, NoticeStep, Holds, Clear
<1>12. OutstandingBound'
  <2> SUFFICES ASSUME NEW x \in Who PROVE Cardinality(Outstanding(x)') <= MaxOutstanding
    BY DEF OutstandingBound
  <2>1. Outstanding(x)' \subseteq Outstanding(x)
    BY DEF Outstanding, OneWay, SameNames, TypeOK
  <2>2. issued \subseteq Ticket
    BY DEF TypeOK
  <2>3. /\ Cardinality(Outstanding(x)') <= Cardinality(Outstanding(x))
        /\ Cardinality(Outstanding(x)') \in Nat /\ Cardinality(Outstanding(x)) \in Nat
    BY <2>1, <2>2, Countable
  <2>4. Cardinality(Outstanding(x)) <= MaxOutstanding /\ MaxOutstanding \in Nat
    BY DEF OutstandingBound, GroupTicketsAssumption
  <2> QED
    BY <2>3, <2>4
<1> QED
  BY <1>2, <1>3, <1>4, <1>5, <1>6, <1>7, <1>8, <1>9, <1>10, <1>11, <1>12

-----------------------------------------------------------------------------
(* Steps of the queues *)

\* The queues r hold nothing but what q held, in the same order, and after it
\* frames of N.
Carries(q, r, N) ==
    \A m \in Member :
        /\ Frames(r[m]) \subseteq Frames(q[m]) \cup N
        /\ \A t \in Ticket : PauseFirst(q[m], t) => PauseFirst(r[m], t)
        /\ Once(q[m]) => Once(r[m])

\* A queue left alone.
LEMMA CarriesSelf == \A q : Carries(q, q, {})
  BY DEF Carries

\* One change of the queues after another.
LEMMA CarriesThen ==
  ASSUME NEW q, NEW r, NEW s, NEW N, NEW O, Carries(q, r, N), Carries(r, s, O)
  PROVE  Carries(q, s, N \cup O)
  BY DEF Carries

\* More may be allowed to have been written.
LEMMA CarriesMore ==
  ASSUME NEW q, NEW r, NEW N, NEW O, Carries(q, r, N), N \subseteq O
  PROVE  Carries(q, r, O)
  BY DEF Carries

\* Reading a frame and losing a stream.
LEMMA CarriesLess ==
  ASSUME NEW S, NEW q \in [Member -> Seq(S)], NEW r,
         \A m \in Member : \/ r[m] = q[m]
                           \/ r[m] = <<>>
                           \/ q[m] # <<>> /\ r[m] = Tail(q[m])
  PROVE  Carries(q, r, {})
<1> SUFFICES ASSUME NEW m \in Member
             PROVE  /\ Frames(r[m]) \subseteq Frames(q[m])
                    /\ \A t \in Ticket : PauseFirst(q[m], t) => PauseFirst(r[m], t)
                    /\ Once(q[m]) => Once(r[m])
  BY DEF Carries
<1>1. CASE r[m] = q[m]
  BY <1>1
<1>2. CASE r[m] = <<>>
  <2>1. Len(r[m]) = 0
    BY <1>2
  <2> QED
    BY <1>2, <2>1, NoFrames DEF PauseFirst, Once
<1>3. CASE q[m] # <<>> /\ r[m] = Tail(q[m])
  <2>1. /\ Frames(r[m]) \subseteq Frames(q[m])
        /\ \A i \in 1 .. Len(r[m]) : i + 1 \in 1 .. Len(q[m]) /\ r[m][i] = q[m][i + 1]
    BY <1>3, FramesLeft
  <2>2. \A i, j \in 1 .. Len(r[m]) : i \in Int /\ j \in Int /\ (i + 1 < j + 1 => i < j)
                                     /\ (i + 1 = j + 1 => i = j)
    <3>1. r[m] \in Seq(S)
      BY <1>3, FramesLeft
    <3> QED
      BY <3>1
  <2>3. \A t \in Ticket : PauseFirst(q[m], t) => PauseFirst(r[m], t)
    <3> SUFFICES ASSUME NEW t \in Ticket, PauseFirst(q[m], t),
                        NEW i \in 1 .. Len(r[m]), NEW j \in 1 .. Len(r[m]),
                        IsPause(r[m][i]), r[m][j].type = "ARM", r[m][j].ticket = t
                 PROVE  i < j
      BY DEF PauseFirst
    <3>1. i + 1 < j + 1
      BY <2>1 DEF PauseFirst
    <3> QED
      BY <2>2, <3>1
  <2>4. Once(q[m]) => Once(r[m])
    <3> SUFFICES ASSUME Once(q[m]),
                        NEW i \in 1 .. Len(r[m]), NEW j \in 1 .. Len(r[m]),
                        r[m][i].type = "REQUEST", r[m][j].type = "REQUEST",
                        r[m][i].ticket = r[m][j].ticket
                 PROVE  i = j
      BY DEF Once
    <3>1. i + 1 = j + 1
      BY <2>1 DEF Once
    <3> QED
      BY <2>2, <3>1
  <2> QED
    BY <2>1, <2>3, <2>4
<1> QED
  BY <1>1, <1>2, <1>3

\* Writing a frame that is neither a pause nor a request.
LEMMA CarriesWritten ==
  ASSUME NEW S, NEW q \in [Member -> Seq(S)], NEW r, NEW f \in S,
         ~IsPause(f), f.type # "REQUEST",
         \A m \in Member : r[m] = q[m] \/ r[m] = Append(q[m], f)
  PROVE  Carries(q, r, {f})
<1> SUFFICES ASSUME NEW m \in Member, r[m] = Append(q[m], f)
             PROVE  /\ Frames(r[m]) \subseteq Frames(q[m]) \cup {f}
                    /\ \A t \in Ticket : PauseFirst(q[m], t) => PauseFirst(r[m], t)
                    /\ Once(q[m]) => Once(r[m])
  BY DEF Carries
<1>1. Frames(r[m]) = Frames(q[m]) \cup {f}
  BY FramesOf
<1>2. /\ Len(q[m]) \in Nat /\ Len(r[m]) = Len(q[m]) + 1 /\ r[m][Len(q[m]) + 1] = f
      /\ \A i \in 1 .. Len(q[m]) : r[m][i] = q[m][i]
  OBVIOUS
<1>3. \A i \in 1 .. Len(r[m]) : i \in 1 .. Len(q[m]) \/ i = Len(q[m]) + 1
  BY <1>2
<1>4. \A i \in 1 .. Len(q[m]) : i < Len(q[m]) + 1
  BY <1>2
<1>5. \A t \in Ticket : PauseFirst(q[m], t) => PauseFirst(r[m], t)
  <2> SUFFICES ASSUME NEW t \in Ticket, PauseFirst(q[m], t),
                      NEW i \in 1 .. Len(r[m]), NEW j \in 1 .. Len(r[m]),
                      IsPause(r[m][i]), r[m][j].type = "ARM", r[m][j].ticket = t
               PROVE  i < j
    BY DEF PauseFirst
  <2>1. i # Len(q[m]) + 1
    BY <1>2 DEF IsPause
  <2>2. i \in 1 .. Len(q[m]) /\ IsPause(q[m][i])
    BY <1>2, <1>3, <2>1
  <2>3. CASE j = Len(q[m]) + 1
    BY <1>4, <2>2, <2>3
  <2>4. CASE j \in 1 .. Len(q[m])
    BY <1>2, <2>2, <2>4 DEF PauseFirst
  <2> QED
    BY <1>3, <2>3, <2>4
<1>6. Once(q[m]) => Once(r[m])
  <2> SUFFICES ASSUME Once(q[m]),
                      NEW i \in 1 .. Len(r[m]), NEW j \in 1 .. Len(r[m]),
                      r[m][i].type = "REQUEST", r[m][j].type = "REQUEST",
                      r[m][i].ticket = r[m][j].ticket
               PROVE  i = j
    BY DEF Once
  <2>1. i \in 1 .. Len(q[m]) /\ j \in 1 .. Len(q[m])
    BY <1>2, <1>3
  <2> QED
    BY <1>2, <2>1 DEF Once
<1> QED
  BY <1>1, <1>5, <1>6

\* The same for the two ways of writing.
LEMMA CarriesPush ==
  ASSUME NEW S, NEW q \in [Member -> Seq(S)], NEW x, NEW f \in S,
         ~IsPause(f), f.type # "REQUEST"
  PROVE  Push(q, x, f) \in [Member -> Seq(S)] /\ Carries(q, Push(q, x, f), {f})
<1>1. /\ Push(q, x, f) \in [Member -> Seq(S)]
      /\ \A m \in Member : Push(q, x, f)[m] = q[m] \/ Push(q, x, f)[m] = Append(q[m], f)
  <2>1. ASSUME NEW m \in Member PROVE Append(q[m], f) \in Seq(S)
    BY FramesOf
  <2> QED
    BY <2>1 DEF Push
<1> QED
  BY <1>1, CarriesWritten

\* Written to all who are online.
LEMMA CarriesRelay ==
  ASSUME NEW S, NEW q \in [Member -> Seq(S)], NEW st, NEW f \in S,
         ~IsPause(f), f.type # "REQUEST"
  PROVE  Relay(q, st, f) \in [Member -> Seq(S)] /\ Carries(q, Relay(q, st, f), {f})
<1>1. /\ Relay(q, st, f) \in [Member -> Seq(S)]
      /\ \A m \in Member : Relay(q, st, f)[m] = q[m] \/ Relay(q, st, f)[m] = Append(q[m], f)
  BY RelayOf
<1> QED
  BY <1>1, CarriesWritten

-----------------------------------------------------------------------------
(* The parts of a calm step that follow from what a step leaves alone *)

\* Each part of Calm holds if what it is about is left alone.
LEMMA Still ==
  /\ UNCHANGED <<deal, ask, use>> => SameNames
  /\ UNCHANGED <<issued, consumed, revoked, use>> => OneWay
  /\ UNCHANGED arming => NoNewWaiter
  /\ UNCHANGED <<paused, status>> => RoomStep
  /\ UNCHANGED tickets => ArmedByFrame
  /\ UNCHANGED <<tickets, use, deal, gpaused, view>> => NoticeStep
<1>1. UNCHANGED <<deal, ask, use>> => SameNames
  BY DEF SameNames
<1>2. UNCHANGED <<issued, consumed, revoked, use>> => OneWay
  BY DEF OneWay
<1>3. UNCHANGED arming => NoNewWaiter
  BY DEF NoNewWaiter
<1>4. UNCHANGED <<paused, status>> => RoomStep
  BY DEF RoomStep
<1>5. UNCHANGED tickets => ArmedByFrame
  BY DEF ArmedByFrame
<1>6. UNCHANGED <<tickets, use, deal, gpaused, view>> => NoticeStep
  BY DEF NoticeStep, Holds, Clear, Parties
<1> QED
  BY <1>1, <1>2, <1>3, <1>4, <1>5, <1>6

\* Nothing to do with what a recipient holds.
LEMMA StillHeld ==
  ASSUME TypeOK, issued' \subseteq issued, UNCHANGED <<tickets, left, deal>>,
         \A t \in Ticket : use'[t] \in {"none", "consuming"} => use[t] \in {"none", "consuming"},
         \A t \in issued' : arming'[t].state \in {"idle", "armed"}
                              => arming[t].state \in {"idle", "armed"},
         \A m \in Member : \A f \in Frames(up'[m]) : f.type = "ARMED" => f \in Frames(up[m])
  PROVE  HeldStep
  BY DEF HeldStep, Answered, TypeOK

\* The host's queues lose frames, or gain some that carry no request.
LEMMA UpCarried ==
  ASSUME NEW N, Carries(up, up', N), \A f \in N : f.type = "CONSUME"
  PROVE  /\ UpStep
         /\ \A m \in Member : \A f \in Frames(up'[m]) : f.type = "ARMED" => f \in Frames(up[m])
  BY DEF Carries, UpStep

\* The members' queues lose frames, or gain some that carry no pause.
LEMMA DownCarried ==
  ASSUME TypeOK, NEW N, Carries(down, down', N), UNCHANGED <<tickets, deal>>,
         issued' \subseteq issued,
         \A f \in N : ~IsPause(f)
  PROVE  OrderStep
  BY DEF Carries, OrderStep, IsPause, TypeOK

-----------------------------------------------------------------------------
(* The host's steps *)

\* The types, by themselves.
HostTypes ==
    /\ status \in [Member -> Presence]
    /\ paused \in BOOLEAN /\ toggles \in Nat
    /\ issued \subseteq Ticket /\ consumed \subseteq Ticket /\ revoked \subseteq Ticket
ArmTypes == arming \in [Ticket -> [state : {"idle", "waiting", "armed", "rejected"},
                                   from : Nat, to : Nat]]
GuestTypes ==
    /\ ask \in [Ticket -> {"none", "asked", "granted", "failed"}]
    /\ use \in [Ticket -> {"none", "consuming", "accepted", "refused"}]
    /\ deal \in [Ticket -> [from : Who, to : Who, asked : Nat, consuming : Nat]]
    /\ tickets \in [Who -> SUBSET Ticket]
    /\ left \subseteq Member
ViewTypes ==
    /\ view \in [Member -> [Member -> Presence]]
    /\ gpaused \in [Member -> BOOLEAN]
NetTypes ==
    /\ gen \in [Member -> 1..MaxStream]
    /\ open \in [Member -> BOOLEAN]
UpTypes == up \in [Member -> Seq(GuestFrame)]
DownTypes == down \in [Member -> Seq(HostFrame)]

\* TypeOK is these parts.
LEMMA TypesOf ==
  /\ TypeOK => /\ HostTypes /\ ArmTypes /\ GuestTypes /\ ViewTypes /\ NetTypes
               /\ UpTypes /\ DownTypes
  /\ /\ HostTypes' /\ ArmTypes' /\ GuestTypes' /\ ViewTypes' /\ NetTypes'
     /\ UpTypes' /\ DownTypes'
     => TypeOK'
  BY DEF TypeOK, HostTypes, ArmTypes, GuestTypes, ViewTypes, NetTypes, UpTypes, DownTypes

\* What a step leaves alone keeps its type.
LEMMA StillTyped ==
  /\ HostTypes /\ UNCHANGED <<status, paused, toggles, issued, consumed, revoked>> => HostTypes'
  /\ ArmTypes /\ UNCHANGED arming => ArmTypes'
  /\ GuestTypes /\ UNCHANGED <<ask, use, deal, tickets, left>> => GuestTypes'
  /\ ViewTypes /\ UNCHANGED <<view, gpaused>> => ViewTypes'
  /\ NetTypes /\ UNCHANGED <<gen, open>> => NetTypes'
  /\ UpTypes /\ UNCHANGED up => UpTypes'
  /\ DownTypes /\ UNCHANGED down => DownTypes'
  BY DEF HostTypes, ArmTypes, GuestTypes, ViewTypes, NetTypes, UpTypes, DownTypes

\* The head of a queue that is read.
LEMMA HeadOf ==
  ASSUME TypeOK, NEW m \in Member
  PROVE  /\ up[m] # <<>> => /\ Head(up[m]) \in Frames(up[m]) /\ Head(up[m]).ticket \in Ticket
                            /\ [up EXCEPT ![m] = Tail(@)] \in [Member -> Seq(GuestFrame)]
                            /\ Carries(up, [up EXCEPT ![m] = Tail(@)], {})
         /\ [up EXCEPT ![m] = <<>>] \in [Member -> Seq(GuestFrame)]
         /\ Carries(up, [up EXCEPT ![m] = <<>>], {})
         /\ down[m] # <<>> => /\ Head(down[m]) \in Frames(down[m]) /\ Head(down[m]) \in HostFrame
                              /\ [down EXCEPT ![m] = Tail(@)] \in [Member -> Seq(HostFrame)]
                              /\ Carries(down, [down EXCEPT ![m] = Tail(@)], {})
         /\ [down EXCEPT ![m] = <<>>] \in [Member -> Seq(HostFrame)]
         /\ Carries(down, [down EXCEPT ![m] = <<>>], {})
<1>1. up \in [Member -> Seq(GuestFrame)] /\ down \in [Member -> Seq(HostFrame)]
  BY DEF TypeOK
<1>2. up[m] # <<>> => /\ Head(up[m]) \in Frames(up[m]) /\ Head(up[m]) \in GuestFrame
                      /\ Tail(up[m]) \in Seq(GuestFrame)
  BY <1>1, FramesLeft
<1>3. down[m] # <<>> => /\ Head(down[m]) \in Frames(down[m]) /\ Head(down[m]) \in HostFrame
                        /\ Tail(down[m]) \in Seq(HostFrame)
  BY <1>1, FramesLeft
<1>4. \A f \in GuestFrame : f.ticket \in Ticket
  BY DEF GuestFrame
<1>5. up[m] # <<>> => Carries(up, [up EXCEPT ![m] = Tail(@)], {})
  BY <1>1, CarriesLess
<1>6. down[m] # <<>> => Carries(down, [down EXCEPT ![m] = Tail(@)], {})
  BY <1>1, CarriesLess
<1>7. Carries(up, [up EXCEPT ![m] = <<>>], {}) /\ Carries(down, [down EXCEPT ![m] = <<>>], {})
  BY <1>1, CarriesLess
<1> QED
  BY <1>1, <1>2, <1>3, <1>4, <1>5, <1>6, <1>7

\* A member that is lost is told about, and nothing more is read of it.
LEMMA LostOf ==
  ASSUME TypeOK, NEW m \in Member
  PROVE  /\ LostDown(m) \in [Member -> Seq(HostFrame)]
         /\ \E f \in HostFrame : f.type = "MEMBER_STATE" /\ Carries(down, LostDown(m), {f})
         /\ Lost(m) => /\ status' \in [Member -> Presence] /\ open' \in [Member -> BOOLEAN]
                       /\ UpTypes' /\ Carries(up, up', {})
                       /\ \A x \in Member : x # m => status'[x] = status[x]
                       /\ status'[m] = "reconnecting"
<1>1. [type |-> "MEMBER_STATE", who |-> m, status |-> "reconnecting"] \in HostFrame
  BY HostFrames
<1>2. down \in [Member -> Seq(HostFrame)]
  BY DEF TypeOK
<1>3. /\ LostDown(m) \in [Member -> Seq(HostFrame)]
      /\ Carries(down, LostDown(m), {[type |-> "MEMBER_STATE", who |-> m, status |-> "reconnecting"]})
  BY <1>1, <1>2, CarriesRelay DEF LostDown, IsPause
<1>4. Lost(m) => UpTypes' /\ Carries(up, up', {})
  BY HeadOf DEF Lost, UpTypes
<1>5. Lost(m) => /\ status' \in [Member -> Presence] /\ open' \in [Member -> BOOLEAN]
                 /\ \A x \in Member : x # m => status'[x] = status[x]
                 /\ status'[m] = "reconnecting"
  BY DEF Lost, LostStatus, TypeOK, Presence
<1> QED
  BY <1>1, <1>3, <1>4, <1>5

\* The host notices that a stream has ended, or gives it up itself.
LEMMA LoseMemberCalm ==
  ASSUME TicketInv, NEW m \in Member, LoseMember(m) \/ HearUnexpectedArmed(m)
  PROVE  TypeOK' /\ Calm
<1> USE DEF TicketInv
<1>1. /\ Lost(m) /\ down' = LostDown(m) /\ status[m] = "online"
      /\ UNCHANGED <<paused, toggles, issued, arming, consumed, revoked, guestVars, gen>>
  BY DEF LoseMember, HearUnexpectedArmed, Hears
<1>2. PICK f \in HostFrame : f.type = "MEMBER_STATE" /\ Carries(down, down', {f})
  BY <1>1, LostOf
<1>3. /\ status' \in [Member -> Presence] /\ open' \in [Member -> BOOLEAN]
      /\ UpTypes' /\ Carries(up, up', {}) /\ DownTypes'
      /\ \A x \in Member : x # m => status'[x] = status[x]
      /\ status'[m] = "reconnecting"
  BY <1>1, LostOf DEF DownTypes
<1>4. TypeOK'
  BY <1>1, <1>3, TypesOf, StillTyped DEF HostTypes, NetTypes, guestVars
<1>5. UpStep /\ HeldStep
  BY <1>1, <1>3, UpCarried, StillHeld DEF guestVars
<1>6. DownStep
  BY <1>2 DEF DownStep, Carries
<1>7. OrderStep
  BY <1>1, <1>2, DownCarried DEF guestVars, IsPause
<1>8. RoomStep
  BY <1>1, <1>3 DEF RoomStep
<1> QED
  BY <1>1, <1>4, <1>5, <1>6, <1>7, <1>8, Still DEF Calm, guestVars

\* Rejected waiters still wait, for issueTransferTickets to go on.
LEMMA RejectWaitersOf ==
  ASSUME ArmTypes, NEW S, RejectWaiters(S)
  PROVE  /\ ArmTypes' /\ NoNewWaiter
         /\ \A t \in Ticket : arming'[t].state \in {"idle", "armed"}
                                => arming[t].state \in {"idle", "armed"}
<1>1. \A t \in Ticket : [arming[t] EXCEPT !.state = "rejected"]
                          \in [state : {"idle", "waiting", "armed", "rejected"},
                               from : Nat, to : Nat]
  BY DEF ArmTypes
<1>2. ArmTypes'
  BY <1>1 DEF ArmTypes, RejectWaiters
<1>3. \A t \in Ticket : \/ arming'[t] = arming[t]
                        \/ arming[t].state = "waiting" /\ arming'[t].state = "rejected"
  BY DEF ArmTypes, RejectWaiters
<1> QED
  BY <1>2, <1>3 DEF NoNewWaiter

\* The host forgets tickets of its own that are not issued any more.
LEMMA OwnerForgets ==
  ASSUME GroupTicketsAssumption, TypeOK, NEW D, D \subseteq tickets[Owner],
         tickets' = [tickets EXCEPT ![Owner] = D],
         UNCHANGED <<ask, use, deal, left, gpaused, view>>,
         issued' \subseteq issued, \A t \in issued' : t \in tickets[Owner] => t \in D,
         \A t \in issued' : arming'[t].state \in {"idle", "armed"}
                              => arming[t].state \in {"idle", "armed"},
         \A m \in Member : \A f \in Frames(up'[m]) : f.type = "ARMED" => f \in Frames(up[m]),
         issued' = {} \/ \E N : Carries(down, down', N) /\ \A f \in N : ~IsPause(f)
  PROVE  GuestTypes' /\ SameNames /\ ArmedByFrame /\ NoticeStep /\ HeldStep /\ OrderStep
<1>1. /\ tickets' \in [Who -> SUBSET Ticket]
      /\ \A m \in Member : tickets'[m] = tickets[m]
      /\ \A t \in issued' : t \in Ticket
      /\ tickets'[Owner] = D
  BY DEF TypeOK, Who, GroupTicketsAssumption
<1>2. \A x \in Who : tickets'[x] \subseteq tickets[x]
  BY DEF TypeOK, Who, GroupTicketsAssumption
<1>3. GuestTypes'
  BY <1>1 DEF TypeOK, GuestTypes
<1>4. ArmedByFrame
  BY <1>2 DEF ArmedByFrame
<1>5. NoticeStep
  BY <1>1 DEF NoticeStep, Holds, Clear, Parties
<1>6. HeldStep
  <2>1. \A t \in issued' : deal[t].to \in Who
    BY <1>1 DEF TypeOK
  <2>2. \A t \in issued' : t \in tickets[deal[t].to] => t \in tickets'[deal[t].to]
    BY <1>1, <2>1 DEF Who
  <2>3. \A t \in issued' : Answered(t)' => Answered(t)
    BY DEF Answered
  <2> QED
    BY <2>2, <2>3 DEF HeldStep
<1>7. OrderStep
  <2>1. CASE issued' = {}
    BY <2>1 DEF OrderStep
  <2>2. CASE \E N : Carries(down, down', N) /\ \A f \in N : ~IsPause(f)
    BY <1>1, <2>2 DEF OrderStep, Carries
  <2> QED
    BY <2>1, <2>2
<1> QED
  BY <1>3, <1>4, <1>5, <1>6, <1>7, Still

\* The host prunes a ticket whose deadline has passed.
LEMMA ExpireCalm ==
  ASSUME GroupTicketsAssumption, TicketInv, NEW t \in Ticket, Expire(t)
  PROVE  TypeOK' /\ Calm
<1> USE DEF TicketInv
<1>1. /\ issued' = issued \ {t} /\ tickets' = [tickets EXCEPT ![Owner] = tickets[Owner] \ {t}]
      /\ UNCHANGED <<status, paused, toggles, arming, consumed, revoked,
                     ask, use, deal, view, gpaused, left, netVars>>
  BY DEF Expire
<1>2. Carries(up, up', {}) /\ Carries(down, down', {})
  BY <1>1, CarriesSelf DEF netVars
<1>3. UpStep /\ \A m \in Member : \A f \in Frames(up'[m]) : f.type = "ARMED" => f \in Frames(up[m])
  BY <1>2, UpCarried
<1>4. GuestTypes' /\ SameNames /\ ArmedByFrame /\ NoticeStep /\ HeldStep /\ OrderStep
  <2>1. \E N : Carries(down, down', N) /\ \A f \in N : ~IsPause(f)
    BY <1>2
  <2>2. \A u \in issued' : u \in tickets[Owner] => u \in tickets[Owner] \ {t}
    BY <1>1
  <2> QED
    BY <1>1, <1>3, <2>1, <2>2, OwnerForgets
<1>5. HostTypes'
  BY <1>1, TypesOf DEF HostTypes
<1>6. TypeOK'
  BY <1>1, <1>4, <1>5, TypesOf, StillTyped DEF netVars
<1>7. DownStep
  BY <1>1 DEF DownStep, netVars
<1>8. OneWay
  BY <1>1 DEF OneWay
<1> QED
  BY <1>1, <1>3, <1>4, <1>6, <1>7, <1>8, Still DEF Calm

\* A pause revokes what is issued; a resumption of the room issues nothing.
LEMMA SetRoomPausedCalm ==
  ASSUME GroupTicketsAssumption, TicketInv, SetRoomPaused
  PROVE  TypeOK' /\ Calm
<1> USE DEF TicketInv
<1> DEFINE f == [type |-> "ROOM_PAUSE", paused |-> ~paused]
<1>1. /\ toggles' = toggles + 1 /\ paused' = ~paused
      /\ down' = Relay(down, status, f)
      /\ UNCHANGED <<status, consumed, ask, use, deal, view, gpaused, left, gen, open, up>>
      /\ \/ /\ paused' /\ revoked' = revoked \cup issued /\ issued' = {}
            /\ tickets' = [tickets EXCEPT ![Owner] = {}] /\ RejectWaiters(Ticket)
         \/ ~paused' /\ UNCHANGED <<revoked, issued, tickets, arming>>
  BY DEF SetRoomPaused
<1>2. paused' \in BOOLEAN /\ f \in HostFrame /\ down \in [Member -> Seq(HostFrame)]
  BY <1>1, HostFrames DEF TypeOK
<1>3. /\ DownTypes'
      /\ \A m \in Member : Frames(down'[m]) \subseteq Frames(down[m]) \cup {f}
  <2>1. /\ Relay(down, status, f) \in [Member -> Seq(HostFrame)]
        /\ \A m \in Member : Relay(down, status, f)[m] \in {down[m], Append(down[m], f)}
    BY <1>2, RelayOf
  <2>2. \A m \in Member : Frames(Append(down[m], f)) = Frames(down[m]) \cup {f}
    BY <1>2, FramesOf
  <2> HIDE DEF f
  <2> QED
    BY <1>1, <2>1, <2>2 DEF DownTypes
<1>4. DownStep
  BY <1>3 DEF DownStep
<1>5. Carries(up, up', {})
  BY <1>1, CarriesSelf
<1>6. UpStep /\ \A m \in Member : \A g \in Frames(up'[m]) : g.type = "ARMED" => g \in Frames(up[m])
  BY <1>5, UpCarried
<1>7. HostTypes' /\ OneWay
  BY <1>1, <1>2, TypesOf DEF HostTypes, OneWay
<1>8. ArmTypes' /\ NoNewWaiter
      /\ \A t \in Ticket : arming'[t].state \in {"idle", "armed"}
                                => arming[t].state \in {"idle", "armed"}
  BY <1>1, TypesOf, StillTyped, RejectWaitersOf, Still
<1>9. RoomStep
  BY <1>1 DEF RoomStep
<1>10. GuestTypes' /\ SameNames /\ ArmedByFrame /\ NoticeStep /\ HeldStep /\ OrderStep
  <2>1. CASE paused'
    <3>1. issued' = {} /\ tickets' = [tickets EXCEPT ![Owner] = {}]
      BY <1>1, <2>1
    <3> QED
      BY <1>1, <1>6, <3>1, OwnerForgets
  <2>2. CASE ~paused'
    <3>1. UNCHANGED <<revoked, issued, tickets, arming>> /\ ~IsPause(f)
      BY <1>1, <2>2 DEF IsPause
    <3>2. Carries(down, down', {f})
      BY <1>1, <1>2, <3>1, CarriesRelay
    <3>3. OrderStep
      BY <1>1, <3>1, <3>2, DownCarried
    <3>4. HeldStep
      BY <1>1, <1>6, <3>1, StillHeld
    <3> QED
      BY <1>1, <3>1, <3>3, <3>4, Still, StillTyped, TypesOf
  <2> QED
    BY <1>2, <2>1, <2>2
<1>11. TypeOK'
  BY <1>1, <1>3, <1>7, <1>8, <1>10, TypesOf, StillTyped
<1> QED
  BY <1>4, <1>6, <1>7, <1>8, <1>9, <1>10, <1>11 DEF Calm

\* The host removes a member, and revokes what it is a party of.
LEMMA RemoveMemberCalm ==
  ASSUME GroupTicketsAssumption, TicketInv, NEW m \in Member, RemoveMember(m)
  PROVE  TypeOK' /\ Calm
<1> USE DEF TicketInv
<1> DEFINE its == {t \in Ticket : m \in Parties(t)}
           st == [status EXCEPT ![m] = "gone"]
           told == Relay(down, st, [type |-> "MEMBER_LEFT", who |-> m])
<1>1. /\ status' = st /\ revoked' = revoked \cup (issued \cap its) /\ issued' = issued \ its
      /\ tickets' = [tickets EXCEPT ![Owner] = tickets[Owner] \ its]
      /\ RejectWaiters(its)
      /\ open' = [open EXCEPT ![m] = FALSE]
      /\ up' = [up EXCEPT ![m] = <<>>]
      /\ down' \in {told, Push(told, m, [type |-> "REMOVED"])}
      /\ UNCHANGED <<paused, toggles, consumed, ask, use, deal, view, gpaused, left, gen>>
  BY DEF RemoveMember
<1>2. /\ [type |-> "MEMBER_LEFT", who |-> m] \in HostFrame
      /\ [type |-> "REMOVED"] \in HostFrame
      /\ down \in [Member -> Seq(HostFrame)]
  BY HostFrames DEF TypeOK
<1>3. /\ told \in [Member -> Seq(HostFrame)]
      /\ Carries(down, told, {[type |-> "MEMBER_LEFT", who |-> m]})
  BY <1>2, CarriesRelay DEF IsPause
<1> HIDE DEF told
<1>4. /\ Push(told, m, [type |-> "REMOVED"]) \in [Member -> Seq(HostFrame)]
      /\ Carries(told, Push(told, m, [type |-> "REMOVED"]), {[type |-> "REMOVED"]})
  BY <1>2, <1>3, CarriesPush DEF IsPause
<1> DEFINE N == {[type |-> "MEMBER_LEFT", who |-> m]} \cup {[type |-> "REMOVED"]}
<1>5. DownTypes' /\ Carries(down, down', N)
  <2>1. Carries(down, told, N)
    BY <1>3, CarriesMore
  <2>2. Carries(down, Push(told, m, [type |-> "REMOVED"]), N)
    BY <1>3, <1>4, CarriesThen
  <2> QED
    BY <1>1, <1>3, <1>4, <2>1, <2>2 DEF DownTypes
<1>6. status'[m] = "gone" /\ status' \in [Member -> Presence]
      /\ \A x \in Member : x # m => status'[x] = status[x]
  BY <1>1 DEF TypeOK, Presence
<1>7. DownStep
  BY <1>5, <1>6 DEF DownStep, Carries
<1>8. UpTypes' /\ Carries(up, up', {})
  BY <1>1, HeadOf DEF UpTypes
<1>9. UpStep /\ \A x \in Member : \A f \in Frames(up'[x]) : f.type = "ARMED" => f \in Frames(up[x])
  BY <1>8, UpCarried
<1>10. ArmTypes' /\ NoNewWaiter
       /\ \A t \in Ticket : arming'[t].state \in {"idle", "armed"}
                                => arming[t].state \in {"idle", "armed"}
  BY <1>1, TypesOf, RejectWaitersOf
<1>11. HostTypes' /\ OneWay
  BY <1>1, <1>6, TypesOf DEF HostTypes, OneWay
<1>12. RoomStep
  <2>1. \A t \in issued' : t \in Ticket /\ m \notin Parties(t)
    BY <1>1 DEF TypeOK
  <2> QED
    BY <1>1, <1>6, <2>1 DEF RoomStep
<1>13. \A t \in issued' : t \in Ticket
  BY <1>11 DEF HostTypes
<1>14. GuestTypes' /\ SameNames /\ ArmedByFrame /\ NoticeStep /\ HeldStep /\ OrderStep
  <2>1. \E O : Carries(down, down', O) /\ \A f \in O : ~IsPause(f)
    BY <1>5 DEF IsPause
  <2>2. \A u \in issued' : u \in tickets[Owner] => u \in tickets[Owner] \ its
    BY <1>1
  <2>3. /\ issued' \subseteq issued /\ tickets[Owner] \ its \subseteq tickets[Owner]
        /\ \A t \in issued' : arming'[t].state \in {"idle", "armed"}
                                => arming[t].state \in {"idle", "armed"}
    BY <1>1, <1>10, <1>13
  <2> HIDE DEF its
  <2> QED
    BY <1>1, <1>9, <2>1, <2>2, <2>3, OwnerForgets
<1>15. NetTypes' /\ ViewTypes'
  BY <1>1, TypesOf, StillTyped DEF NetTypes
<1>16. TypeOK'
  BY <1>5, <1>8, <1>10, <1>11, <1>14, <1>15, TypesOf
<1> QED
  BY <1>7, <1>9, <1>10, <1>11, <1>12, <1>14, <1>16 DEF Calm

\* A member is back: it is brought up to date and the others are told.
LEMMA FinishResumeCalm ==
  ASSUME TicketInv, NEW m \in Member, FinishResume(m)
  PROVE  TypeOK' /\ Calm
<1> USE DEF TicketInv
<1> DEFINE f == [type |-> "ROSTER", view |-> status]
           g == [type |-> "MEMBER_STATE", who |-> m, status |-> "online"]
           st == [status EXCEPT ![m] = "online"]
           q == [down EXCEPT ![m] = Append(down[m], f)]
<1>1. /\ status' = st /\ down' = Relay(q, st, g) /\ status[m] = "reconnecting"
      /\ UNCHANGED <<paused, toggles, issued, arming, consumed, revoked, guestVars, gen, open, up>>
  BY DEF FinishResume
<1>2. f \in HostFrame /\ g \in HostFrame /\ down \in [Member -> Seq(HostFrame)]
  BY HostFrames DEF TypeOK
<1>3. q \in [Member -> Seq(HostFrame)] /\ Carries(down, q, {f})
  <2>1. Append(down[m], f) \in Seq(HostFrame)
    BY <1>2, FramesOf
  <2>2. /\ q \in [Member -> Seq(HostFrame)]
        /\ \A x \in Member : q[x] = down[x] \/ q[x] = Append(down[x], f)
    BY <1>2, <2>1
  <2>3. ~IsPause(f) /\ f.type # "REQUEST"
    BY DEF IsPause
  <2> HIDE DEF q, f
  <2> QED
    BY <1>2, <2>2, <2>3, CarriesWritten
<1> HIDE DEF q
<1>4. DownTypes' /\ Carries(q, down', {g})
  BY <1>1, <1>2, <1>3, CarriesRelay DEF DownTypes, IsPause
<1>5. Carries(down, down', {f} \cup {g})
  BY <1>3, <1>4, CarriesThen
<1>6. status' \in [Member -> Presence] /\ \A x \in Member : x # m => status'[x] = status[x]
  BY <1>1 DEF TypeOK, Presence
<1>7. DownStep
  BY <1>5 DEF DownStep, Carries
<1>8. OrderStep
  <2>1. \A h \in {f} \cup {g} : ~IsPause(h)
    BY DEF IsPause
  <2> HIDE DEF f, g
  <2> QED
    BY <1>1, <1>5, <2>1, DownCarried DEF guestVars
<1>9. Carries(up, up', {})
  BY <1>1, CarriesSelf
<1>10. UpStep /\ HeldStep
  BY <1>1, <1>9, UpCarried, StillHeld DEF guestVars
<1>11. RoomStep
  BY <1>1, <1>6 DEF RoomStep, TypeOK
<1>12. HostTypes'
  BY <1>1, <1>6, TypesOf DEF HostTypes
<1>13. TypeOK'
  BY <1>1, <1>4, <1>12, TypesOf, StillTyped DEF guestVars
<1> QED
  BY <1>1, <1>7, <1>8, <1>10, <1>11, <1>13, Still DEF Calm, guestVars

\* The host reads that the recipient has been armed.
LEMMA HearArmedCalm ==
  ASSUME TicketInv, NEW m \in Member, HearArmed(m)
  PROVE  TypeOK' /\ Calm
<1> USE DEF TicketInv
<1> DEFINE t == Head(up[m]).ticket
<1>1. /\ up[m] # <<>> /\ Head(up[m]).type = "ARMED" /\ arming[t].state = "waiting"
      /\ arming' = [arming EXCEPT ![t].state = "armed"]
      /\ up' = [up EXCEPT ![m] = Tail(@)]
      /\ UNCHANGED <<status, paused, toggles, issued, consumed, revoked, guestVars, gen, open, down>>
  BY DEF HearArmed, Hears, Heard, Consume
<1>2. t \in Ticket /\ Head(up[m]) \in Frames(up[m]) /\ UpTypes' /\ Carries(up, up', {})
  BY <1>1, HeadOf DEF UpTypes
<1>3. deal[t].to = m
  BY <1>1, <1>2 DEF UpInv
<1>4. Answered(t)
  BY <1>1, <1>2, <1>3 DEF Answered
<1> HIDE DEF t
<1>5. ArmTypes'
  BY <1>1, <1>2, TypesOf DEF ArmTypes
<1>6. arming'[t].state = "armed" /\ \A u \in Ticket : u # t => arming'[u] = arming[u]
  BY <1>1, <1>2 DEF TypeOK
<1>7. NoNewWaiter
  BY <1>1, <1>6 DEF NoNewWaiter
<1>8. UpStep /\ \A x \in Member : \A f \in Frames(up'[x]) : f.type = "ARMED" => f \in Frames(up[x])
  BY <1>2, UpCarried
<1>9. HeldStep
  <2>1. ASSUME NEW u \in issued, Answered(u)' PROVE Answered(u)
    <3>1. u \in Ticket
      BY DEF TypeOK
    <3> QED
      BY <1>1, <1>4, <1>6, <1>8, <2>1, <3>1 DEF Answered, guestVars
  <2> QED
    BY <1>1, <2>1 DEF HeldStep, guestVars
<1>10. DownStep
  BY <1>1 DEF DownStep
<1>11. OrderStep
  BY <1>1 DEF OrderStep, guestVars
<1>12. TypeOK'
  BY <1>1, <1>2, <1>5, TypesOf, StillTyped DEF guestVars
<1> QED
  BY <1>1, <1>7, <1>8, <1>9, <1>10, <1>11, <1>12, Still DEF Calm, guestVars

\* The host is asked to consume a ticket, and does so only if it is issued.
LEMMA ConsumeCalm ==
  ASSUME TicketInv, NEW m \in Member, HandleTicketConsume(m)
  PROVE  TypeOK' /\ Calm
<1> USE DEF TicketInv
<1> DEFINE t == Head(up[m]).ticket
           f == [type |-> "CONSUMED", ticket |-> t, ok |-> Consumable(t)]
<1>1. /\ up[m] # <<>>
      /\ issued' = IF Consumable(t) THEN issued \ {t} ELSE issued
      /\ consumed' = IF Consumable(t) THEN consumed \cup {t} ELSE consumed
      /\ down' = Push(down, m, f)
      /\ up' = [up EXCEPT ![m] = Tail(@)]
      /\ UNCHANGED <<status, paused, toggles, arming, revoked, guestVars, gen, open>>
  BY DEF HandleTicketConsume, Hears, Heard, Consume
<1>2. t \in Ticket /\ UpTypes' /\ Carries(up, up', {})
  BY <1>1, HeadOf DEF UpTypes
<1> HIDE DEF t
<1>3. f \in HostFrame /\ f.type = "CONSUMED" /\ f.ticket = t /\ f.ok = Consumable(t)
  <2>1. Consumable(t) \in BOOLEAN
    BY DEF Consumable
  <2> QED
    BY <1>2, <2>1, HostFrames
<1> HIDE DEF f
<1>4. DownTypes' /\ Carries(down, down', {f})
  BY <1>1, <1>3, TypesOf, CarriesPush DEF DownTypes, IsPause
<1>5. Consumable(t) => t \in issued
  BY DEF Consumable
<1>6. HostTypes' /\ OneWay
  <2>1. HostTypes'
    BY <1>1, <1>2, TypesOf DEF HostTypes
  <2>2. OneWay
    BY <1>1, <1>5 DEF OneWay, guestVars
  <2> QED
    BY <2>1, <2>2
<1>7. DownStep
  BY <1>1, <1>3, <1>4 DEF DownStep, Carries
<1>8. UpStep /\ \A x \in Member : \A g \in Frames(up'[x]) : g.type = "ARMED" => g \in Frames(up[x])
  BY <1>2, UpCarried
<1>9. HeldStep
  <2>1. issued' \subseteq issued /\ UNCHANGED <<tickets, left, deal, use, arming>>
    BY <1>1, <1>6 DEF OneWay, guestVars
  <2> QED
    BY <1>8, <2>1, StillHeld
<1>11. OrderStep
  <2>1. issued' \subseteq issued /\ UNCHANGED <<tickets, deal>> /\ ~IsPause(f)
    BY <1>1, <1>3, <1>6 DEF OneWay, guestVars, IsPause
  <2> QED
    BY <1>4, <2>1, DownCarried
<1>10. TypeOK'
  BY <1>1, <1>2, <1>4, <1>6, TypesOf, StillTyped DEF guestVars
<1> QED
  BY <1>1, <1>6, <1>7, <1>8, <1>9, <1>10, <1>11, Still DEF Calm, guestVars

\* The sender is answered, if the host still serves it.
LEMMA AnswerOf ==
  ASSUME TypeOK, NEW t \in Ticket, ask[t] # "none", NEW ok \in BOOLEAN,
         NEW q \in [Member -> Seq(HostFrame)], Answer(t, ok, q)
  PROVE  /\ DownTypes'
         /\ \E N : Carries(q, down', N) /\ \A f \in N : f.type = "RESPONSE"
         /\ ask' \in [Ticket -> {"none", "asked", "granted", "failed"}]
         /\ \A u \in Ticket : ask'[u] = "none" <=> ask[u] = "none"
<1> DEFINE f == [type |-> "RESPONSE", ticket |-> t, ok |-> ok]
<1>1. f \in HostFrame /\ f.type = "RESPONSE" /\ ~IsPause(f)
  BY HostFrames DEF IsPause
<1>2. /\ down' \in {q, Push(q, deal[t].from, f)}
      /\ ask' \in {ask, [ask EXCEPT ![t] = IF ok THEN "granted" ELSE "failed"]}
  BY DEF Answer
<1> HIDE DEF f
<1>3. /\ Push(q, deal[t].from, f) \in [Member -> Seq(HostFrame)]
      /\ Carries(q, Push(q, deal[t].from, f), {f})
  BY <1>1, CarriesPush
<1>4. Carries(q, q, {})
  BY CarriesSelf
<1>5. DownTypes' /\ \E N : Carries(q, down', N) /\ \A g \in N : g.type = "RESPONSE"
  <2>1. CASE down' = q
    BY <1>4, <2>1 DEF DownTypes
  <2>2. CASE down' = Push(q, deal[t].from, f)
    <3>1. \A g \in {f} : g.type = "RESPONSE"
      BY <1>1
    <3> QED
      BY <1>3, <2>2, <3>1 DEF DownTypes
  <2> QED
    BY <1>2, <2>1, <2>2
<1> QED
  BY <1>2, <1>5 DEF TypeOK

\* The arming of a ticket ends with an answer to its sender.
LEMMA FinishArmingCalm ==
  ASSUME TicketInv, NEW t \in Ticket, FinishArming(t)
  PROVE  TypeOK' /\ Calm
<1> USE DEF TicketInv
<1> DEFINE ok == BothServed(t) /\ ~paused /\ t \in issued
<1>1. /\ arming[t].state = "armed" /\ Answer(t, ok, down)
      /\ issued' \in {issued, issued \ {t}}
      /\ arming' = [arming EXCEPT ![t] = Idle]
      /\ UNCHANGED <<status, paused, toggles, consumed, revoked,
                     use, deal, tickets, view, gpaused, left, gen, open, up>>
  BY DEF FinishArming
<1>2. ask[t] # "none" /\ ok \in BOOLEAN /\ down \in [Member -> Seq(HostFrame)]
  <2>1. ask[t] # "none"
    BY <1>1 DEF Unasked, Untouched
  <2>2. ok \in BOOLEAN
    BY DEF BothServed
  <2> QED
    BY <2>1, <2>2 DEF TypeOK
<1> HIDE DEF ok
<1>3. /\ DownTypes'
      /\ ask' \in [Ticket -> {"none", "asked", "granted", "failed"}]
      /\ \A u \in Ticket : ask'[u] = "none" <=> ask[u] = "none"
  BY <1>1, <1>2, AnswerOf
<1>4. PICK N : Carries(down, down', N) /\ \A f \in N : f.type = "RESPONSE"
  BY <1>1, <1>2, AnswerOf
<1>5. ArmTypes' /\ arming'[t].state = "idle" /\ \A u \in Ticket : u # t => arming'[u] = arming[u]
  BY <1>1 DEF TypeOK, ArmTypes, Idle
<1>6. NoNewWaiter
  BY <1>5 DEF NoNewWaiter
<1>7. HostTypes' /\ OneWay /\ issued' \subseteq issued
  BY <1>1, TypesOf DEF HostTypes, OneWay
<1>8. Carries(up, up', {})
  BY <1>1, CarriesSelf
<1>9. UpStep /\ \A x \in Member : \A f \in Frames(up'[x]) : f.type = "ARMED" => f \in Frames(up[x])
  BY <1>8, UpCarried
<1>10. HeldStep
  <2>1. ASSUME NEW u \in Ticket PROVE arming'[u].state \in {"idle", "armed"} => arming[u].state \in {"idle", "armed"}
    BY <1>1, <1>5
  <2>2. \A u \in issued' : u \in Ticket
    BY <1>7 DEF HostTypes
  <2> QED
    BY <1>1, <1>7, <1>9, <2>1, <2>2, StillHeld
<1>11. DownStep
  BY <1>4 DEF DownStep, Carries
<1>12. OrderStep
  <2>1. \A f \in N : ~IsPause(f)
    BY <1>4 DEF IsPause
  <2> QED
    BY <1>1, <1>4, <1>7, <2>1, DownCarried
<1>13. SameNames
  BY <1>1, <1>3 DEF SameNames
<1>14. TypeOK'
  BY <1>1, <1>3, <1>5, <1>7, TypesOf, StillTyped DEF GuestTypes
<1> QED
  BY <1>1, <1>6, <1>7, <1>9, <1>10, <1>11, <1>12, <1>13, <1>14, Still DEF Calm

\* The arming fails: the recipient is given up, and the sender told.
LEMMA FailArmingCalm ==
  ASSUME TicketInv, NEW t \in Ticket, FailArming(t)
  PROVE  TypeOK' /\ Calm
<1> USE DEF TicketInv
<1> DEFINE to == deal[t].to
<1>1. /\ arming[t].state \in {"waiting", "rejected"}
      /\ issued' = issued \ {t}
      /\ arming' = [arming EXCEPT ![t] = Idle]
      /\ UNCHANGED <<paused, toggles, consumed, revoked,
                     use, deal, tickets, view, gpaused, left, gen>>
      /\ \/ BothServed(t) /\ Lost(to) /\ Answer(t, FALSE, LostDown(to))
         \/ /\ open' = [open EXCEPT ![to] =
                   @ /\ ~(arming[t].state = "waiting" /\ arming[t].to = gen[to])]
            /\ Answer(t, FALSE, down) /\ UNCHANGED <<status, up>>
  BY DEF FailArming
<1>2. ask[t] # "none" /\ to \in Member /\ down \in [Member -> Seq(HostFrame)]
  BY <1>1 DEF Unasked, Untouched, WaitsForMembers, TypeOK
<1>3. to \in Member => (BothServed(t) => status[to] = "online")
  BY DEF BothServed, Serves, Online
<1> HIDE DEF to
<1>4. PICK q \in [Member -> Seq(HostFrame)] :
        /\ Answer(t, FALSE, q)
        /\ \E N : Carries(down, q, N) /\ \A f \in N : f.type = "MEMBER_STATE"
  <2>1. /\ LostDown(to) \in [Member -> Seq(HostFrame)]
        /\ \E N : Carries(down, LostDown(to), N) /\ \A f \in N : f.type = "MEMBER_STATE"
    <3>1. LostDown(to) \in [Member -> Seq(HostFrame)]
      BY <1>2, LostOf
    <3>2. PICK f \in HostFrame : f.type = "MEMBER_STATE" /\ Carries(down, LostDown(to), {f})
      BY <1>2, LostOf
    <3>3. \A g \in {f} : g.type = "MEMBER_STATE"
      BY <3>2
    <3> QED
      BY <3>1, <3>2, <3>3
  <2>2. Carries(down, down, {}) /\ \A f \in {} : f.type = "MEMBER_STATE"
    BY CarriesSelf
  <2>3. CASE Answer(t, FALSE, LostDown(to))
    BY <2>1, <2>3
  <2>4. CASE Answer(t, FALSE, down)
    <3>1. \E N : Carries(down, down, N) /\ \A f \in N : f.type = "MEMBER_STATE"
      BY <2>2
    <3> QED
      BY <1>2, <2>4, <3>1
  <2> QED
    BY <1>1, <2>3, <2>4
<1>5. /\ DownTypes'
      /\ ask' \in [Ticket -> {"none", "asked", "granted", "failed"}]
      /\ \A u \in Ticket : ask'[u] = "none" <=> ask[u] = "none"
  BY <1>2, <1>4, AnswerOf
<1>6. PICK N : /\ Carries(down, down', N)
               /\ \A f \in N : f.type \in {"MEMBER_STATE", "RESPONSE"}
  <2>1. PICK N : Carries(down, q, N) /\ \A f \in N : f.type = "MEMBER_STATE"
    BY <1>4
  <2>2. PICK O : Carries(q, down', O) /\ \A f \in O : f.type = "RESPONSE"
    BY <1>2, <1>4, AnswerOf
  <2>3. Carries(down, down', N \cup O)
    BY <2>1, <2>2, CarriesThen
  <2> QED
    BY <2>1, <2>2, <2>3
<1>7. /\ status' \in [Member -> Presence] /\ open' \in [Member -> BOOLEAN]
      /\ UpTypes' /\ Carries(up, up', {})
      /\ \A x \in Member : status'[x] # status[x] => status[x] = "online" /\ status'[x] = "reconnecting"
  <2>1. CASE BothServed(t) /\ Lost(to)
    BY <1>2, <1>3, <2>1, LostOf
  <2>2. CASE /\ open' = [open EXCEPT ![to] =
                   @ /\ ~(arming[t].state = "waiting" /\ arming[t].to = gen[to])]
             /\ UNCHANGED <<status, up>>
    BY <1>2, <2>2, CarriesSelf, TypesOf DEF TypeOK, UpTypes
  <2> QED
    BY <1>1, <2>1, <2>2
<1>8. ArmTypes' /\ arming'[t].state = "idle" /\ \A u \in Ticket : u # t => arming'[u] = arming[u]
  BY <1>1 DEF TypeOK, ArmTypes, Idle
<1>9. NoNewWaiter
  BY <1>8 DEF NoNewWaiter
<1>10. HostTypes' /\ OneWay /\ issued' \subseteq issued
  BY <1>1, <1>7, TypesOf DEF HostTypes, OneWay
<1>11. UpStep /\ \A x \in Member : \A f \in Frames(up'[x]) : f.type = "ARMED" => f \in Frames(up[x])
  BY <1>7, UpCarried
<1>12. HeldStep
  <2>1. \A u \in issued' : u \in Ticket /\ arming'[u] = arming[u]
    BY <1>1, <1>8, <1>10 DEF HostTypes
  <2> QED
    BY <1>1, <1>10, <1>11, <2>1, StillHeld
<1>13. DownStep
  BY <1>6 DEF DownStep, Carries
<1>14. OrderStep
  <2>1. \A f \in N : ~IsPause(f)
    BY <1>6 DEF IsPause
  <2> QED
    BY <1>1, <1>6, <1>10, <2>1, DownCarried
<1>15. SameNames
  BY <1>1, <1>5 DEF SameNames
<1>16. RoomStep
  BY <1>1, <1>7 DEF RoomStep
<1>17. GuestTypes' /\ NetTypes'
  BY <1>1, <1>5, <1>7, TypesOf DEF GuestTypes, NetTypes
<1>18. TypeOK'
  BY <1>1, <1>5, <1>7, <1>8, <1>10, <1>17, TypesOf, StillTyped
<1> QED
  BY <1>1, <1>9, <1>10, <1>11, <1>12, <1>13, <1>14, <1>15, <1>16, <1>18, Still DEF Calm

-----------------------------------------------------------------------------
(* The members' steps, but for being armed *)

\* How the consumption of t goes on.
UseStep(t) ==
    \/ use'[t] = use[t]
    \/ ask[t] # "none" /\ use[t] = "none" /\ use'[t] = "consuming" /\ t \in tickets[deal[t].to]
    \/ ask[t] # "none" /\ use[t] \in {"none", "consuming"} /\ use'[t] = "refused"
    \/ use[t] = "consuming" /\ use'[t] = "accepted" /\ t \in consumed

GuestStep ==
    /\ UNCHANGED hostVars
    /\ Carries(down, down', {})
    /\ \E N : Carries(up, up', N) /\ \A f \in N : f.type = "CONSUME"
    /\ left \subseteq left'
    /\ \A x \in Who : tickets'[x] \subseteq tickets[x]
    /\ \A t \in Ticket : /\ deal'[t].from = deal[t].from /\ deal'[t].to = deal[t].to
                         /\ ask'[t] = "none" <=> ask[t] = "none"
                         /\ UseStep(t)

\* What the host honours is kept, unless it has been used or its holder is gone.
Keeps ==
    \A t \in issued : t \in tickets[deal[t].to] => \/ t \in tickets'[deal[t].to]
                                                   \/ deal[t].to \in left'
                                                   \/ use'[t] \notin {"none", "consuming"}

\* What a member learns is against nothing that it keeps.
Heeds == \A m \in Member, t \in Ticket : Holds(m, t)' => (Clear(m, t) => Clear(m, t)')

GuestSide == GuestTypes' /\ ViewTypes' /\ NetTypes' /\ UpTypes' /\ DownTypes'

\* Whatever a member does with what it has, the invariant is kept.
LEMMA GuestCalm ==
  ASSUME TicketInv, GuestStep, GuestSide, Keeps, Heeds
  PROVE  TypeOK' /\ Calm
<1> USE DEF TicketInv
<1>1. /\ UNCHANGED <<status, paused, toggles, issued, arming, consumed, revoked>>
      /\ left \subseteq left'
      /\ \A x \in Who : tickets'[x] \subseteq tickets[x]
      /\ \A t \in Ticket : /\ deal'[t].from = deal[t].from /\ deal'[t].to = deal[t].to
                           /\ ask'[t] = "none" <=> ask[t] = "none"
                           /\ UseStep(t)
      /\ \A t \in issued : t \in Ticket
  BY DEF GuestStep, hostVars, TypeOK
<1>2. TypeOK'
  BY <1>1, TypesOf, StillTyped DEF GuestSide
<1>3. SameNames
  BY <1>1 DEF SameNames, UseStep
<1>4. OneWay
  BY <1>1 DEF OneWay, UseStep
<1>5. UpStep /\ \A m \in Member : \A f \in Frames(up'[m]) : f.type = "ARMED" => f \in Frames(up[m])
  BY UpCarried DEF GuestStep
<1>6. DownStep
  BY DEF GuestStep, DownStep, Carries
<1>7. ArmedByFrame
  BY <1>1 DEF ArmedByFrame
<1>8. HeldStep
  <2> SUFFICES ASSUME NEW t \in issued
               PROVE  /\ Answered(t)' => Answered(t)
                      /\ use'[t] \in {"none", "consuming"} => use[t] \in {"none", "consuming"}
    BY <1>1 DEF HeldStep, Keeps
  <2>1. Answered(t)' => Answered(t)
    BY <1>1, <1>5 DEF Answered
  <2> QED
    BY <1>1, <2>1 DEF UseStep
<1>9. OrderStep
  <2>1. \A t \in issued : deal[t].to \in Member => deal[t].to \in Who
    BY DEF Who
  <2> QED
    BY <1>1, <2>1 DEF OrderStep, GuestStep, Carries
<1>10. NoticeStep
  <2> SUFFICES ASSUME NEW m \in Member, NEW t \in Ticket, Holds(m, t)'
               PROVE  Holds(m, t)
    BY DEF NoticeStep, Heeds
  <2>1. m \in Who
    BY DEF Who
  <2> QED
    BY <1>1, <2>1 DEF Holds, UseStep
<1> QED
  BY <1>1, <1>2, <1>3, <1>4, <1>5, <1>6, <1>7, <1>8, <1>9, <1>10, Still DEF Calm

\* What stays what it is.
LEMMA GuestStill ==
  /\ UNCHANGED use => \A t \in Ticket : UseStep(t)
  /\ \A t \in Ticket : use'[t] = use[t] => UseStep(t)
  /\ UNCHANGED tickets => Keeps
  /\ UNCHANGED <<deal, gpaused, view>> => Heeds
  BY DEF UseStep, Keeps, Heeds, Clear, Parties

\* A pause, and the end of a controller: whatever m holds is given up.
LEMMA ForgetAllOf ==
  ASSUME GroupTicketsAssumption, TicketInv, NEW m \in Member, ForgetAll(m), UNCHANGED deal
  PROVE  /\ ask' \in [Ticket -> {"none", "asked", "granted", "failed"}]
         /\ use' \in [Ticket -> {"none", "consuming", "accepted", "refused"}]
         /\ tickets' \in [Who -> SUBSET Ticket]
         /\ \A x \in Who : tickets'[x] \subseteq tickets[x]
         /\ \A x \in Who \ {m} : tickets'[x] = tickets[x]
         /\ \A t \in Ticket : /\ ask'[t] = "none" <=> ask[t] = "none"
                              /\ UseStep(t)
                              /\ ~Holds(m, t)'
<1> USE DEF TicketInv
<1>1. /\ tickets' = [tickets EXCEPT ![m] = {}]
      /\ ask' = [t \in Ticket |->
             IF deal[t].from = m /\ ask[t] = "asked" THEN "failed" ELSE ask[t]]
      /\ use' = [t \in Ticket |->
             IF deal[t].to = m /\ use[t] = "consuming" THEN "refused" ELSE use[t]]
  BY DEF ForgetAll
<1>2. m \in Who
  BY DEF Who
<1>3. /\ ask' \in [Ticket -> {"none", "asked", "granted", "failed"}]
      /\ use' \in [Ticket -> {"none", "consuming", "accepted", "refused"}]
      /\ tickets' \in [Who -> SUBSET Ticket]
  BY <1>1 DEF TypeOK
<1>4. /\ \A x \in Who : tickets'[x] \subseteq tickets[x]
      /\ \A x \in Who \ {m} : tickets'[x] = tickets[x]
      /\ tickets'[m] = {}
  BY <1>1, <1>2 DEF TypeOK
<1>5. ASSUME NEW t \in Ticket
      PROVE  /\ ask'[t] = "none" <=> ask[t] = "none"
             /\ UseStep(t)
             /\ ~Holds(m, t)'
  <2>1. use[t] = "consuming" => ask[t] # "none"
    BY DEF Unasked
  <2> QED
    BY <1>1, <1>4, <2>1 DEF UseStep, Holds
<1> QED
  BY <1>3, <1>4, <1>5

\* Somebody has left: whatever m holds of theirs is given up.
LEMMA ForgetOf ==
  ASSUME GroupTicketsAssumption, TicketInv, NEW m \in Member, NEW S, Forget(m, S),
         UNCHANGED deal
  PROVE  /\ use' \in [Ticket -> {"none", "consuming", "accepted", "refused"}]
         /\ tickets' \in [Who -> SUBSET Ticket]
         /\ \A x \in Who : tickets'[x] \subseteq tickets[x]
         /\ \A t \in Ticket : /\ UseStep(t)
                              /\ Holds(m, t)' => Parties(t) \cap S = {}
         /\ \A x \in Who, t \in Ticket :
               t \in tickets[x] /\ (x = m => Parties(t) \cap S = {}) => t \in tickets'[x]
<1> USE DEF TicketInv
<1> DEFINE its == {t \in Ticket : Parties(t) \cap S # {}}
<1>1. /\ tickets' = [tickets EXCEPT ![m] = tickets[m] \ its]
      /\ use' = [t \in Ticket |->
             IF t \in its /\ deal[t].to = m /\ use[t] = "consuming" THEN "refused" ELSE use[t]]
  BY DEF Forget
<1>2. m \in Who
  BY DEF Who
<1>3. \A t \in Ticket : t \in its <=> Parties(t) \cap S # {}
  OBVIOUS
<1> HIDE DEF its
<1>4. /\ use' \in [Ticket -> {"none", "consuming", "accepted", "refused"}]
      /\ tickets' \in [Who -> SUBSET Ticket]
  BY <1>1 DEF TypeOK
<1>5. /\ \A x \in Who : tickets'[x] \subseteq tickets[x]
      /\ \A x \in Who \ {m} : tickets'[x] = tickets[x]
      /\ tickets'[m] = tickets[m] \ its
  BY <1>1, <1>2 DEF TypeOK
<1>6. ASSUME NEW t \in Ticket
      PROVE  UseStep(t) /\ (Holds(m, t)' => Parties(t) \cap S = {})
  <2>1. use[t] = "consuming" => ask[t] # "none"
    BY DEF Unasked
  <2>2. UseStep(t)
    BY <1>1, <2>1 DEF UseStep
  <2>3. Holds(m, t)' => t \notin its
    BY <1>1, <1>5 DEF Holds
  <2> QED
    BY <1>3, <2>2, <2>3
<1>7. \A x \in Who, t \in Ticket :
        t \in tickets[x] /\ (x = m => Parties(t) \cap S = {}) => t \in tickets'[x]
  BY <1>3, <1>5
<1> QED
  BY <1>4, <1>5, <1>6, <1>7

\* Reading a frame takes it off the stream, and nothing else.
LEMMA ReadingOf ==
  ASSUME TypeOK, NEW m \in Member, NEW type, Reads(m, type), Advance(m)
  PROVE  /\ DownTypes' /\ Carries(down, down', {})
         /\ Received(m) \in Frames(down[m]) /\ Received(m) \in HostFrame
         /\ Received(m).type = type
  BY HeadOf DEF Reads, Advance, Received, DownTypes

\* Steps that leave both queues, or one of them, alone.
LEMMA QueuesStill ==
  /\ UNCHANGED down => Carries(down, down', {})
  /\ UNCHANGED up => \E N : Carries(up, up', N) /\ \A f \in N : f.type = "CONSUME"
<1>1. Carries(up, up, {}) /\ Carries(down, down, {})
  BY CarriesSelf
<1>2. \A f \in {} : f.type = "CONSUME"
  OBVIOUS
<1>3. \E N : Carries(up, up, N) /\ \A f \in N : f.type = "CONSUME"
  BY <1>1, <1>2
<1> QED
  BY <1>1, <1>3

\* An answer is read, or none has come in time.
LEMMA ReadResponseCalm ==
  ASSUME TicketInv, NEW m \in Member, ReadResponse(m)
  PROVE  TypeOK' /\ Calm
<1> USE DEF TicketInv
<1> DEFINE t == Received(m).ticket
<1>1. /\ Reads(m, "RESPONSE") /\ Advance(m)
      /\ ask' = IF ask[t] # "asked" THEN ask
                ELSE [ask EXCEPT ![t] = IF Received(m).ok THEN "granted" ELSE "failed"]
      /\ UNCHANGED <<hostVars, use, deal, tickets, view, gpaused, left, gen, open, up>>
  BY DEF ReadResponse
<1>2. t \in Ticket
  BY <1>1, ReadingOf, HostFrameFields
<1> HIDE DEF t
<1>3. /\ ask' \in [Ticket -> {"none", "asked", "granted", "failed"}]
      /\ \A u \in Ticket : ask'[u] = "none" <=> ask[u] = "none"
  BY <1>1, <1>2 DEF TypeOK
<1>4. GuestStep
  BY <1>1, <1>3, ReadingOf, QueuesStill, GuestStill DEF GuestStep
<1>5. GuestSide
  BY <1>1, <1>3, ReadingOf, TypesOf, StillTyped DEF GuestSide, GuestTypes
<1> QED
  BY <1>1, <1>4, <1>5, GuestStill, GuestCalm

\* No answer has come in time: the request fails and takes its stream along.
LEMMA RequestTimeoutCalm ==
  ASSUME TicketInv, NEW t \in Ticket, RequestTimeout(t)
  PROVE  TypeOK' /\ Calm
<1> USE DEF TicketInv
<1> DEFINE m == deal[t].from
<1>1. /\ ask[t] = "asked" /\ ask' = [ask EXCEPT ![t] = "failed"]
      /\ open' = [open EXCEPT ![m] = @ /\ deal[t].asked # gen[m]]
      /\ UNCHANGED <<hostVars, use, deal, tickets, view, gpaused, left, gen, up, down>>
  BY DEF RequestTimeout
<1>2. /\ ask' \in [Ticket -> {"none", "asked", "granted", "failed"}]
      /\ \A u \in Ticket : ask'[u] = "none" <=> ask[u] = "none"
      /\ open' \in [Member -> BOOLEAN]
  BY <1>1 DEF TypeOK
<1>3. GuestStep
  BY <1>1, <1>2, QueuesStill, GuestStill DEF GuestStep
<1>4. GuestSide
  BY <1>1, <1>2, TypesOf, StillTyped DEF GuestSide, GuestTypes, NetTypes
<1> QED
  BY <1>1, <1>3, <1>4, GuestStill, GuestCalm

\* An offer is read: the host is asked to consume its ticket.
LEMMA ReadOfferCalm ==
  ASSUME TicketInv, NEW t \in Ticket, ReadOffer(t)
  PROVE  TypeOK' /\ Calm
<1> USE DEF TicketInv
<1> DEFINE m == deal[t].to
           f == [type |-> "CONSUME", ticket |-> t]
<1>1. /\ ask[t] = "granted" /\ use[t] = "none" /\ m \in Member
      /\ \/ /\ t \in tickets[m] /\ use' = [use EXCEPT ![t] = "consuming"]
            /\ deal' = [deal EXCEPT ![t].consuming = gen[m]]
            /\ up' = Push(up, m, f)
         \/ use' = [use EXCEPT ![t] = "refused"] /\ UNCHANGED <<deal, up>>
      /\ UNCHANGED <<hostVars, ask, tickets, view, gpaused, left, gen, open, down>>
  BY DEF ReadOffer
<1>2. f \in GuestFrame /\ f.type = "CONSUME" /\ ~IsPause(f)
  BY GuestFrames DEF IsPause
<1> HIDE DEF f
<1>3. UpTypes' /\ \E N : Carries(up, up', N) /\ \A g \in N : g.type = "CONSUME"
  <2>1. CASE up' = Push(up, m, f)
    <3>1. Push(up, m, f) \in [Member -> Seq(GuestFrame)] /\ Carries(up, Push(up, m, f), {f})
      <4>1. up \in [Member -> Seq(GuestFrame)] /\ f.type # "REQUEST"
        BY <1>2 DEF TypeOK
      <4> HIDE DEF m
      <4> QED
        BY <1>2, <4>1, CarriesPush
    <3>2. \A g \in {f} : g.type = "CONSUME"
      BY <1>2
    <3> QED
      BY <2>1, <3>1, <3>2 DEF UpTypes
  <2>2. CASE UNCHANGED up
    BY <2>2, QueuesStill, TypesOf, StillTyped
  <2> QED
    BY <1>1, <2>1, <2>2
<1>4. deal' \in [Ticket -> [from : Who, to : Who, asked : Nat, consuming : Nat]]
      /\ \A u \in Ticket : deal'[u].from = deal[u].from /\ deal'[u].to = deal[u].to
  <2>1. gen[m] \in Nat
    BY <1>1 DEF TypeOK
  <2>2. deal \in [Ticket -> [from : Who, to : Who, asked : Nat, consuming : Nat]]
    BY DEF TypeOK
  <2> HIDE DEF m
  <2>3. CASE deal' = [deal EXCEPT ![t].consuming = gen[m]]
    BY <2>1, <2>2, <2>3
  <2> QED
    BY <1>1, <2>2, <2>3
<1>5. /\ use' \in [Ticket -> {"none", "consuming", "accepted", "refused"}]
      /\ \A u \in Ticket : UseStep(u)
  BY <1>1 DEF TypeOK, UseStep
<1>6. GuestStep
  BY <1>1, <1>3, <1>4, <1>5, QueuesStill DEF GuestStep
<1>7. GuestSide
  BY <1>1, <1>3, <1>4, <1>5, TypesOf, StillTyped DEF GuestSide, GuestTypes
<1>8. Heeds
  BY <1>1, <1>4 DEF Heeds, Clear, Parties
<1> QED
  BY <1>1, <1>6, <1>7, <1>8, GuestStill, GuestCalm

\* The host has not answered the consumption in time.
LEMMA ConsumeTimeoutCalm ==
  ASSUME TicketInv, NEW t \in Ticket, ConsumeTimeout(t)
  PROVE  TypeOK' /\ Calm
<1> USE DEF TicketInv
<1> DEFINE m == deal[t].to
<1>1. /\ use[t] = "consuming" /\ use' = [use EXCEPT ![t] = "refused"]
      /\ tickets' = [tickets EXCEPT ![m] = tickets[m] \ {t}]
      /\ open' = [open EXCEPT ![m] = @ /\ deal[t].consuming # gen[m]]
      /\ UNCHANGED <<hostVars, ask, deal, view, gpaused, left, gen, up, down>>
  BY DEF ConsumeTimeout
<1>2. ask[t] # "none" /\ m \in Who
  BY <1>1 DEF Unasked, TypeOK
<1> HIDE DEF m
<1>3. /\ use' \in [Ticket -> {"none", "consuming", "accepted", "refused"}]
      /\ tickets' \in [Who -> SUBSET Ticket]
      /\ open' \in [Member -> BOOLEAN]
  BY <1>1, <1>2 DEF TypeOK
<1>4. /\ \A x \in Who : tickets'[x] \subseteq tickets[x]
      /\ \A x \in Who, u \in Ticket : u # t => (u \in tickets[x] => u \in tickets'[x])
      /\ use'[t] = "refused"
      /\ \A u \in Ticket : UseStep(u)
  BY <1>1, <1>2 DEF TypeOK, UseStep
<1>5. Keeps
  <2>1. \A u \in issued : u \in Ticket /\ deal[u].to \in Who
    BY DEF TypeOK
  <2> QED
    BY <1>4, <2>1 DEF Keeps
<1>6. GuestStep
  BY <1>1, <1>4, QueuesStill DEF GuestStep
<1>7. GuestSide
  BY <1>1, <1>3, TypesOf, StillTyped DEF GuestSide, GuestTypes, NetTypes
<1> QED
  BY <1>1, <1>5, <1>6, <1>7, GuestStill, GuestCalm

\* A member prunes a ticket the host honours no longer.
LEMMA ExpireArmedCalm ==
  ASSUME TicketInv, NEW m \in Member, NEW t \in Ticket, ExpireArmed(m, t)
  PROVE  TypeOK' /\ Calm
<1> USE DEF TicketInv
<1>1. /\ t \notin issued /\ tickets' = [tickets EXCEPT ![m] = tickets[m] \ {t}]
      /\ UNCHANGED <<hostVars, ask, use, deal, view, gpaused, left, netVars>>
  BY DEF ExpireArmed
<1>2. tickets' \in [Who -> SUBSET Ticket]
  BY <1>1 DEF TypeOK
<1>3. /\ \A x \in Who : tickets'[x] \subseteq tickets[x]
      /\ \A x \in Who, u \in Ticket : u # t => (u \in tickets[x] => u \in tickets'[x])
  BY <1>1 DEF TypeOK
<1>4. Keeps
  <2>1. \A u \in issued : u \in Ticket /\ deal[u].to \in Who
    BY DEF TypeOK
  <2> QED
    BY <1>1, <1>3, <2>1 DEF Keeps
<1>5. GuestStep
  BY <1>1, <1>3, QueuesStill, GuestStill DEF GuestStep, netVars
<1>6. GuestSide
  BY <1>1, <1>2, TypesOf, StillTyped DEF GuestSide, GuestTypes, netVars
<1> QED
  BY <1>1, <1>4, <1>5, <1>6, GuestStill, GuestCalm

\* The host's answer to a consumption is read.
LEMMA ReadConsumedCalm ==
  ASSUME TicketInv, NEW m \in Member, ReadConsumed(m)
  PROVE  TypeOK' /\ Calm
<1> USE DEF TicketInv
<1> DEFINE t == Received(m).ticket
           ok == Received(m).ok
<1>1. /\ Reads(m, "CONSUMED") /\ Advance(m)
      /\ \/ /\ use[t] = "consuming"
            /\ use' = [use EXCEPT ![t] = IF ok THEN "accepted" ELSE "refused"]
            /\ tickets' = [tickets EXCEPT ![m] = tickets[m] \ {t}]
         \/ UNCHANGED <<use, tickets>>
      /\ UNCHANGED <<hostVars, ask, deal, view, gpaused, left, gen, open, up>>
  BY DEF ReadConsumed
<1>2. /\ t \in Ticket /\ (ok => t \in consumed)
      /\ Received(m) \in Frames(down[m]) /\ DownTypes' /\ Carries(down, down', {})
  <2>1. /\ Received(m) \in Frames(down[m]) /\ Received(m) \in HostFrame
        /\ Received(m).type = "CONSUMED" /\ DownTypes' /\ Carries(down, down', {})
    BY <1>1, ReadingOf
  <2> QED
    BY <2>1, HostFrameFields DEF DownInv
<1>3. use[t] = "consuming" => ask[t] # "none"
  BY <1>2 DEF Unasked
<1> HIDE DEF t, ok
<1>4. CASE UNCHANGED <<use, tickets>>
  <2>1. GuestStep
    BY <1>1, <1>2, <1>4, QueuesStill, GuestStill DEF GuestStep
  <2>2. GuestSide
    BY <1>1, <1>2, <1>4, TypesOf, StillTyped DEF GuestSide
  <2> QED
    BY <1>1, <1>4, <2>1, <2>2, GuestStill, GuestCalm
<1>5. CASE /\ use[t] = "consuming"
           /\ use' = [use EXCEPT ![t] = IF ok THEN "accepted" ELSE "refused"]
           /\ tickets' = [tickets EXCEPT ![m] = tickets[m] \ {t}]
  <2>1. /\ use' \in [Ticket -> {"none", "consuming", "accepted", "refused"}]
        /\ tickets' \in [Who -> SUBSET Ticket]
    BY <1>5 DEF TypeOK
  <2>2. /\ \A x \in Who : tickets'[x] \subseteq tickets[x]
        /\ \A x \in Who, u \in Ticket : u # t => (u \in tickets[x] => u \in tickets'[x])
        /\ use'[t] \notin {"none", "consuming"}
    BY <1>2, <1>5 DEF TypeOK
  <2>3. \A u \in Ticket : UseStep(u)
    BY <1>2, <1>3, <1>5 DEF TypeOK, UseStep
  <2>4. Keeps
    <3>1. \A u \in issued : u \in Ticket /\ deal[u].to \in Who
      BY DEF TypeOK
    <3> QED
      BY <2>2, <3>1 DEF Keeps
  <2>5. GuestStep
    BY <1>1, <1>2, <2>2, <2>3, QueuesStill DEF GuestStep
  <2>6. GuestSide
    BY <1>1, <1>2, <2>1, TypesOf, StillTyped DEF GuestSide, GuestTypes
  <2> QED
    BY <1>1, <2>4, <2>5, <2>6, GuestStill, GuestCalm
<1> QED
  BY <1>1, <1>4, <1>5

\* A pause is read, or its end.  What the member gives up the host has revoked:
\* the arm of a ticket still issued comes after the pause.
LEMMA ReadPauseCalm ==
  ASSUME GroupTicketsAssumption, TicketInv, NEW m \in Member, ReadPause(m)
  PROVE  TypeOK' /\ Calm
<1> USE DEF TicketInv
<1>1. /\ Reads(m, "ROOM_PAUSE") /\ Advance(m)
      /\ gpaused' = [gpaused EXCEPT ![m] = Received(m).paused]
      /\ IF Received(m).paused THEN ForgetAll(m) ELSE UNCHANGED <<tickets, ask, use>>
      /\ UNCHANGED <<hostVars, deal, view, left, gen, open, up>>
  BY DEF ReadPause
<1>2. /\ Received(m) \in Frames(down[m]) /\ Received(m) \in HostFrame
      /\ Received(m).type = "ROOM_PAUSE" /\ DownTypes' /\ Carries(down, down', {})
  BY <1>1, ReadingOf
<1>3. Received(m).paused \in BOOLEAN
  BY <1>2, HostFrameFields
<1>4. ViewTypes' /\ (\A x \in Member \ {m} : gpaused'[x] = gpaused[x])
      /\ gpaused'[m] = Received(m).paused
  BY <1>1, <1>3 DEF TypeOK, ViewTypes
<1>5. CASE Received(m).paused
  <2>1. ForgetAll(m) /\ UNCHANGED <<deal, left, view>>
    BY <1>1, <1>5
  <2>2. /\ ask' \in [Ticket -> {"none", "asked", "granted", "failed"}]
        /\ use' \in [Ticket -> {"none", "consuming", "accepted", "refused"}]
        /\ tickets' \in [Who -> SUBSET Ticket]
        /\ \A x \in Who : tickets'[x] \subseteq tickets[x]
        /\ \A x \in Who \ {m} : tickets'[x] = tickets[x]
        /\ \A t \in Ticket : /\ ask'[t] = "none" <=> ask[t] = "none"
                             /\ UseStep(t)
                             /\ ~Holds(m, t)'
    BY <2>1, ForgetAllOf
  <2>3. \A t \in issued : deal[t].to = m => t \notin tickets[m]
    BY <1>2, <1>5 DEF PauseOrder, IsPause
  <2>4. Keeps
    <3>1. \A t \in issued : deal[t].to \in Who
      BY DEF TypeOK
    <3> QED
      BY <2>2, <2>3, <3>1 DEF Keeps
  <2>5. Heeds
    BY <1>4, <2>1, <2>2 DEF Heeds, Clear, Parties
  <2>6. GuestStep
    BY <1>1, <1>2, <2>1, <2>2, QueuesStill DEF GuestStep
  <2>7. GuestSide
    BY <1>1, <1>2, <1>4, <2>1, <2>2, TypesOf, StillTyped DEF GuestSide, GuestTypes
  <2> QED
    BY <2>4, <2>5, <2>6, <2>7, GuestCalm
<1>6. CASE ~Received(m).paused
  <2>1. UNCHANGED <<tickets, ask, use>>
    BY <1>1, <1>6
  <2>2. Heeds
    BY <1>1, <1>4, <1>6 DEF Heeds, Clear, Parties
  <2>3. GuestStep
    BY <1>1, <1>2, <2>1, QueuesStill, GuestStill DEF GuestStep
  <2>4. GuestSide
    BY <1>1, <1>2, <1>4, <2>1, TypesOf, StillTyped DEF GuestSide
  <2> QED
    BY <2>1, <2>2, <2>3, <2>4, GuestStill, GuestCalm
<1> QED
  BY <1>5, <1>6

\* A member is lost or back.
LEMMA ReadMemberStateCalm ==
  ASSUME TicketInv, NEW m \in Member, ReadMemberState(m)
  PROVE  TypeOK' /\ Calm
<1> USE DEF TicketInv
<1> DEFINE w == Received(m).who
           s == Received(m).status
<1>1. /\ Reads(m, "MEMBER_STATE") /\ Advance(m)
      /\ view' = [view EXCEPT ![m][w] = s]
      /\ UNCHANGED <<hostVars, ask, use, deal, tickets, gpaused, left, gen, open, up>>
  BY DEF ReadMemberState
<1>2. w \in Member /\ s \in Presence /\ s # "gone" /\ DownTypes' /\ Carries(down, down', {})
  <2>1. /\ Received(m) \in HostFrame /\ Received(m).type = "MEMBER_STATE"
        /\ DownTypes' /\ Carries(down, down', {})
    BY <1>1, ReadingOf
  <2> QED
    BY <2>1, HostFrameFields DEF Presence
<1> HIDE DEF w, s
<1>3. ViewTypes' /\ \A y, x \in Member : view'[y][x] = view[y][x] \/ view'[y][x] # "gone"
  BY <1>1, <1>2 DEF TypeOK, ViewTypes
<1>4. Heeds
  BY <1>1, <1>3 DEF Heeds, Clear, Parties
<1>5. GuestStep
  BY <1>1, <1>2, QueuesStill, GuestStill DEF GuestStep
<1>6. GuestSide
  BY <1>1, <1>2, <1>3, TypesOf, StillTyped DEF GuestSide
<1> QED
  BY <1>1, <1>4, <1>5, <1>6, GuestStill, GuestCalm

\* Whoever m learns has left is gone for the host already, so nothing the host
\* still honours is given up.
LEMMA ForgetCalm ==
  ASSUME GroupTicketsAssumption, TicketInv, NEW m \in Member,
         NEW S, \A x \in S : x \in Member /\ status[x] = "gone",
         Forget(m, S),
         view' \in [Member -> [Member -> Presence]],
         \A y \in Member \ {m} : view'[y] = view[y],
         \A x \in Member : view'[m][x] = "gone" => view[m][x] = "gone" \/ x \in S,
         DownTypes', Carries(down, down', {}),
         UNCHANGED <<hostVars, ask, deal, gpaused, left, gen, open, up>>
  PROVE  TypeOK' /\ Calm
<1> USE DEF TicketInv
<1>1. /\ use' \in [Ticket -> {"none", "consuming", "accepted", "refused"}]
      /\ tickets' \in [Who -> SUBSET Ticket]
      /\ \A x \in Who : tickets'[x] \subseteq tickets[x]
      /\ \A t \in Ticket : /\ UseStep(t)
                           /\ Holds(m, t)' => Parties(t) \cap S = {}
      /\ \A x \in Who, t \in Ticket :
            t \in tickets[x] /\ (x = m => Parties(t) \cap S = {}) => t \in tickets'[x]
  BY ForgetOf
<1>2. \A t \in issued : Parties(t) \cap S = {}
  BY DEF Usability
<1>3. Keeps
  <2>1. \A t \in issued : t \in Ticket /\ deal[t].to \in Who
    BY DEF TypeOK
  <2> QED
    BY <1>1, <1>2, <2>1 DEF Keeps
<1>4. Heeds
  <2> SUFFICES ASSUME NEW y \in Member, NEW t \in Ticket, Holds(y, t)', Clear(y, t)
               PROVE  Clear(y, t)'
    BY DEF Heeds
  <2>1. UNCHANGED <<deal, gpaused>>
    OBVIOUS
  <2>2. CASE y = m
    <3>1. Parties(t) \cap S = {}
      BY <1>1, <2>2
    <3> QED
      BY <2>1, <2>2, <3>1 DEF Clear, Parties
  <2>3. CASE y # m
    BY <2>1, <2>3 DEF Clear, Parties
  <2> QED
    BY <2>2, <2>3
<1>5. GuestStep
  BY <1>1, QueuesStill DEF GuestStep
<1>6. GuestSide
  <2>1. GuestTypes' /\ ViewTypes'
    BY <1>1, TypesOf DEF GuestTypes, ViewTypes
  <2>2. NetTypes' /\ UpTypes'
    BY TypesOf, StillTyped
  <2> QED
    BY <2>1, <2>2 DEF GuestSide
<1> QED
  BY <1>3, <1>4, <1>5, <1>6, GuestCalm

\* A member reads that somebody has left.
LEMMA ReadMemberLeftCalm ==
  ASSUME GroupTicketsAssumption, TicketInv, NEW m \in Member, ReadMemberLeft(m)
  PROVE  TypeOK' /\ Calm
<1> USE DEF TicketInv
<1> DEFINE w == Received(m).who
<1>1. /\ Reads(m, "MEMBER_LEFT") /\ Advance(m)
      /\ view' = [view EXCEPT ![m][w] = "gone"]
      /\ Forget(m, {w})
      /\ UNCHANGED <<hostVars, ask, deal, gpaused, left, gen, open, up>>
  BY DEF ReadMemberLeft
<1>2. w \in Member /\ status[w] = "gone" /\ DownTypes' /\ Carries(down, down', {})
  <2>1. /\ Received(m) \in Frames(down[m]) /\ Received(m) \in HostFrame
        /\ Received(m).type = "MEMBER_LEFT"
        /\ DownTypes' /\ Carries(down, down', {})
    BY <1>1, ReadingOf
  <2> QED
    BY <2>1, HostFrameFields DEF DownInv
<1> HIDE DEF w
<1>3. /\ view' \in [Member -> [Member -> Presence]]
      /\ \A y \in Member \ {m} : view'[y] = view[y]
      /\ \A x \in Member : view'[m][x] = "gone" => view[m][x] = "gone" \/ x \in {w}
  BY <1>1, <1>2 DEF TypeOK, Presence
<1>4. \A x \in {w} : x \in Member /\ status[x] = "gone"
  BY <1>2
<1> QED
  BY <1>1, <1>2, <1>3, <1>4, ForgetCalm

\* A member that is back reads who has left meanwhile.
LEMMA ReadRosterCalm ==
  ASSUME GroupTicketsAssumption, TicketInv, NEW m \in Member, ReadRoster(m)
  PROVE  TypeOK' /\ Calm
<1> USE DEF TicketInv
<1> DEFINE v == Received(m).view
           S == {x \in Member : view[m][x] # "gone" /\ v[x] = "gone"}
<1>1. /\ Reads(m, "ROSTER") /\ Advance(m)
      /\ view' = [view EXCEPT ![m] = v]
      /\ Forget(m, S)
      /\ UNCHANGED <<hostVars, ask, deal, gpaused, left, gen, open, up>>
  BY DEF ReadRoster
<1>2. /\ v \in [Member -> Presence] /\ \A x \in Member : v[x] = "gone" => status[x] = "gone"
      /\ DownTypes' /\ Carries(down, down', {})
  <2>1. /\ Received(m) \in Frames(down[m]) /\ Received(m) \in HostFrame
        /\ Received(m).type = "ROSTER"
        /\ DownTypes' /\ Carries(down, down', {})
    BY <1>1, ReadingOf
  <2> QED
    BY <2>1, HostFrameFields DEF DownInv
<1> HIDE DEF v
<1>3. /\ view' \in [Member -> [Member -> Presence]]
      /\ \A y \in Member \ {m} : view'[y] = view[y]
      /\ \A x \in Member : view'[m][x] = "gone" => view[m][x] = "gone" \/ x \in S
  BY <1>1, <1>2 DEF TypeOK
<1>4. \A x \in S : x \in Member /\ status[x] = "gone"
  BY <1>2
<1> HIDE DEF S
<1> QED
  BY <1>1, <1>2, <1>3, <1>4, ForgetCalm

\* A controller closes: it was removed, or leaves.
LEMMA QuitCalm ==
  ASSUME GroupTicketsAssumption, TicketInv, NEW m \in Member, Quit(m)
  PROVE  TypeOK' /\ Calm
<1> USE DEF TicketInv
<1>1. /\ left' = left \cup {m} /\ ForgetAll(m)
      /\ view' = [view EXCEPT ![m] = [x \in Member |-> "gone"]]
      /\ gpaused' = [gpaused EXCEPT ![m] = FALSE]
      /\ open' = [open EXCEPT ![m] = FALSE]
      /\ down' = [down EXCEPT ![m] = <<>>]
      /\ UNCHANGED <<hostVars, deal, gen, up>>
  BY DEF Quit
<1>2. /\ ask' \in [Ticket -> {"none", "asked", "granted", "failed"}]
      /\ use' \in [Ticket -> {"none", "consuming", "accepted", "refused"}]
      /\ tickets' \in [Who -> SUBSET Ticket]
      /\ \A x \in Who : tickets'[x] \subseteq tickets[x]
      /\ \A x \in Who \ {m} : tickets'[x] = tickets[x]
      /\ \A t \in Ticket : /\ ask'[t] = "none" <=> ask[t] = "none"
                           /\ UseStep(t)
                           /\ ~Holds(m, t)'
  BY <1>1, ForgetAllOf
<1>3. /\ ViewTypes'
      /\ \A y \in Member \ {m} : view'[y] = view[y] /\ gpaused'[y] = gpaused[y]
  BY <1>1 DEF TypeOK, ViewTypes, Presence
<1>4. DownTypes' /\ Carries(down, down', {})
  BY <1>1, HeadOf DEF DownTypes
<1>5. open' \in [Member -> BOOLEAN] /\ left' \subseteq Member
  BY <1>1 DEF TypeOK
<1>6. Keeps
  <2>1. \A t \in issued : deal[t].to \in Who
    BY DEF TypeOK
  <2> QED
    BY <1>1, <1>2, <2>1 DEF Keeps
<1>7. Heeds
  BY <1>1, <1>2, <1>3 DEF Heeds, Clear, Parties
<1>8. GuestStep
  BY <1>1, <1>2, <1>4, QueuesStill DEF GuestStep
<1>9. GuestSide
  BY <1>1, <1>2, <1>3, <1>4, <1>5, TypesOf, StillTyped DEF GuestSide, GuestTypes, NetTypes
<1> QED
  BY <1>6, <1>7, <1>8, <1>9, GuestCalm

\* A member dials again.  If it learns of a pause it has nothing issued to lose.
LEMMA BeginResumeCalm ==
  ASSUME GroupTicketsAssumption, TicketInv, NEW m \in Member, BeginResume(m)
  PROVE  TypeOK' /\ Calm
<1> USE DEF TicketInv
<1>1. /\ gen[m] < MaxStream
      /\ gen' = [gen EXCEPT ![m] = @ + 1]
      /\ open' = [open EXCEPT ![m] = TRUE]
      /\ up' = [up EXCEPT ![m] = <<>>]
      /\ down' = [down EXCEPT ![m] = <<>>]
      /\ gpaused' = [gpaused EXCEPT ![m] = paused]
      /\ IF paused THEN ForgetAll(m) ELSE UNCHANGED <<tickets, ask, use>>
      /\ UNCHANGED <<hostVars, deal, view, left>>
  BY DEF BeginResume
<1>2. DownTypes' /\ Carries(down, down', {}) /\ UpTypes' /\ Carries(up, up', {})
  BY <1>1, HeadOf DEF DownTypes, UpTypes
<1>3. \E N : Carries(up, up', N) /\ \A f \in N : f.type = "CONSUME"
  <2>1. \A f \in {} : f.type = "CONSUME"
    OBVIOUS
  <2> QED
    BY <1>2, <2>1
<1>4. NetTypes'
  <2>1. gen[m] + 1 \in 1 .. MaxStream
    BY <1>1 DEF TypeOK, GroupTicketsAssumption
  <2> QED
    BY <1>1, <2>1 DEF NetTypes, TypeOK
<1>5. /\ ViewTypes' /\ gpaused'[m] = paused
      /\ \A y \in Member \ {m} : gpaused'[y] = gpaused[y]
  BY <1>1 DEF TypeOK, ViewTypes
<1>6. CASE paused
  <2>1. ForgetAll(m) /\ UNCHANGED deal
    BY <1>1, <1>6
  <2>2. /\ ask' \in [Ticket -> {"none", "asked", "granted", "failed"}]
        /\ use' \in [Ticket -> {"none", "consuming", "accepted", "refused"}]
        /\ tickets' \in [Who -> SUBSET Ticket]
        /\ \A x \in Who : tickets'[x] \subseteq tickets[x]
        /\ \A x \in Who \ {m} : tickets'[x] = tickets[x]
        /\ \A t \in Ticket : /\ ask'[t] = "none" <=> ask[t] = "none"
                             /\ UseStep(t)
                             /\ ~Holds(m, t)'
    BY <2>1, ForgetAllOf
  <2>3. Keeps
    BY <1>6 DEF Keeps, Usability
  <2>4. Heeds
    BY <1>1, <1>5, <2>2 DEF Heeds, Clear, Parties
  <2>5. GuestStep
    BY <1>1, <1>2, <1>3, <2>2 DEF GuestStep
  <2>6. GuestSide
    BY <1>1, <1>2, <1>4, <1>5, <2>2, TypesOf DEF GuestSide, GuestTypes
  <2> QED
    BY <2>3, <2>4, <2>5, <2>6, GuestCalm
<1>7. CASE ~paused
  <2>1. UNCHANGED <<tickets, ask, use>>
    BY <1>1, <1>7
  <2>2. Heeds
    BY <1>1, <1>5, <1>7 DEF Heeds, Clear, Parties
  <2>3. GuestStep
    BY <1>1, <1>2, <1>3, <2>1, GuestStill DEF GuestStep
  <2>4. GuestSide
    BY <1>1, <1>2, <1>4, <1>5, <2>1, TypesOf, StillTyped DEF GuestSide
  <2> QED
    BY <2>1, <2>2, <2>3, <2>4, GuestStill, GuestCalm
<1> QED
  BY <1>6, <1>7

\* A stream fails, or the member gives it up because it cannot be armed.
LEMMA BreakCalm ==
  ASSUME TicketInv, NEW m \in Member, Break(m) \/ ReadUnusableArm(m)
  PROVE  TypeOK' /\ Calm
<1> USE DEF TicketInv
<1>1. /\ open' = [open EXCEPT ![m] = FALSE]
      /\ down' \in {down, [down EXCEPT ![m] = <<>>]}
      /\ UNCHANGED <<hostVars, guestVars, gen, up>>
  BY DEF Break, ReadUnusableArm
<1>2. DownTypes' /\ Carries(down, down', {})
  BY <1>1, HeadOf, CarriesSelf, TypesOf DEF DownTypes
<1>3. NetTypes'
  BY <1>1 DEF TypeOK, NetTypes
<1>4. GuestStep
  BY <1>1, <1>2, QueuesStill, GuestStill DEF GuestStep, guestVars
<1>5. GuestSide
  BY <1>1, <1>2, <1>3, TypesOf, StillTyped DEF GuestSide, guestVars
<1> QED
  BY <1>1, <1>4, <1>5, GuestStill, GuestCalm DEF guestVars

\* A member is armed: no pause is left unread behind the arm of a ticket that is
\* still issued, so the host finds it holding the ticket when the answer arrives.
LEMMA ReadArmCalm ==
  ASSUME TicketInv, NEW m \in Member, ReadArm(m)
  PROVE  TypeOK' /\ Calm
<1> USE DEF TicketInv
<1> DEFINE t == Received(m).ticket
           f == [type |-> "ARMED", ticket |-> t]
<1>1. /\ Reads(m, "ARM") /\ Advance(m) /\ Usable(m, t)
      /\ tickets' = [tickets EXCEPT ![m] = tickets[m] \cup {t}]
      /\ up' = Push(up, m, f)
      /\ UNCHANGED <<hostVars, ask, use, deal, view, gpaused, left, gen, open>>
  BY DEF ReadArm
<1>2. /\ Received(m) \in Frames(down[m]) /\ Received(m).type = "ARM"
      /\ t \in Ticket /\ deal[t].to = m
      /\ DownTypes' /\ Carries(down, down', {})
  <2>1. /\ Received(m) \in Frames(down[m]) /\ Received(m) \in HostFrame
        /\ Received(m).type = "ARM" /\ DownTypes' /\ Carries(down, down', {})
    BY <1>1, ReadingOf
  <2> QED
    BY <2>1, HostFrameFields DEF DownInv
<1>3. \E g \in Frames(down[m]) : g.type = "ARM" /\ g.ticket = t
  BY <1>2
<1>4. t \in issued => \A i \in 1 .. Len(down'[m]) : ~IsPause(down'[m][i])
  <2> SUFFICES ASSUME t \in issued, NEW i \in 1 .. Len(down'[m]), IsPause(down'[m][i])
               PROVE  FALSE
    OBVIOUS
  <2>1. /\ down \in [Member -> Seq(HostFrame)] /\ down[m] # <<>>
        /\ down'[m] = Tail(down[m])
    BY <1>1 DEF TypeOK, Reads, Advance
  <2>2. down[m] \in Seq(HostFrame)
    BY <2>1
  <2>3. i + 1 \in 1 .. Len(down[m]) /\ down'[m][i] = down[m][i + 1] /\ Received(m) = down[m][1]
    BY <2>1, <2>2, FramesLeft DEF Received
  <2>4. 1 \in 1 .. Len(down[m]) /\ ~(i + 1 < 1)
    BY <2>2, <2>3
  <2>5. PauseFirst(down[m], t)
    BY <1>2 DEF PauseOrder
  <2> QED
    BY <1>2, <2>3, <2>4, <2>5 DEF PauseFirst
<1>5. /\ ~gpaused[m]
      /\ \A x \in Parties(t) \cap Member : view[m][x] # "gone"
  BY <1>1, <1>2 DEF Usable, SeesOnline, Parties
<1> HIDE DEF t
<1>6. /\ f \in GuestFrame /\ f.type = "ARMED" /\ f.ticket = t /\ ~IsPause(f) /\ f.type # "REQUEST"
      /\ up \in [Member -> Seq(GuestFrame)]
  BY <1>2, GuestFrames DEF IsPause, TypeOK
<1> HIDE DEF f
<1>7. UpTypes' /\ Carries(up, up', {f}) /\ \A x \in Member \ {m} : up'[x] = up[x]
  <2>1. Push(up, m, f) \in [Member -> Seq(GuestFrame)] /\ Carries(up, Push(up, m, f), {f})
    BY <1>6, CarriesPush
  <2>2. \A x \in Member \ {m} : Push(up, m, f)[x] = up[x]
    BY <1>6, PushOf
  <2> QED
    BY <1>1, <2>1, <2>2 DEF UpTypes
<1>8. UpStep
  <2>1. ASSUME NEW x \in Member, NEW g \in Frames(up'[x])
        PROVE  g \in Frames(up[x]) \/ (g = f /\ x = m)
    BY <1>7 DEF Carries
  <2>2. \A x \in Member : Once(up[x]) => Once(up'[x])
    BY <1>7 DEF Carries
  <2> QED
    BY <1>3, <1>6, <2>1, <2>2 DEF UpStep
<1>9. DownStep
  BY <1>2 DEF DownStep, Carries
<1>10. /\ tickets' \in [Who -> SUBSET Ticket]
       /\ \A x \in Who : tickets[x] \subseteq tickets'[x]
       /\ \A x \in Who : \A u \in tickets'[x] : u \in tickets[x] \/ (x = m /\ u = t)
       /\ t \in tickets'[m]
  BY <1>1, <1>2 DEF TypeOK, Who
<1>11. ArmedByFrame
  BY <1>3, <1>10 DEF ArmedByFrame
<1>12. \A u \in issued' : u \in Ticket /\ u \in issued /\ deal[u].to \in Who
  BY <1>1 DEF TypeOK, hostVars
<1>13. HeldStep
  <2>1. ASSUME NEW u \in issued', Answered(u)', ~Answered(u)
        PROVE  u \in tickets'[deal[u].to]
    <3>1. /\ deal[u].to \in Member
          /\ \E g \in Frames(up'[deal[u].to]) : g.type = "ARMED" /\ g.ticket = u
          /\ ~ \E g \in Frames(up[deal[u].to]) : g.type = "ARMED" /\ g.ticket = u
      BY <1>1, <2>1 DEF Answered, hostVars
    <3>2. \E g \in {f} : g.ticket = u
      BY <1>7, <3>1 DEF Carries
    <3> QED
      BY <1>2, <1>6, <1>10, <3>2
  <2> QED
    BY <1>1, <1>10, <1>12, <2>1 DEF HeldStep
<1>14. OrderStep
  <2> SUFFICES ASSUME NEW u \in issued', deal[u].to \in Member
               PROVE  /\ PauseFirst(down[deal[u].to], u) => PauseFirst(down'[deal[u].to], u)
                      /\ \A g \in Frames(down'[deal[u].to]) : IsPause(g) =>
                          /\ g \in Frames(down[deal[u].to])
                          /\ u \in tickets'[deal[u].to] => u \in tickets[deal[u].to]
    BY DEF OrderStep
  <2>1. u \in Ticket /\ u \in issued /\ deal[u].to \in Who
    BY <1>12
  <2>2. CASE u = t /\ deal[u].to = m
    <3>1. \A g \in Frames(down'[m]) : ~IsPause(g)
      BY <1>4, <2>1, <2>2 DEF Frames
    <3> QED
      BY <1>2, <2>1, <2>2, <3>1 DEF Carries
  <2>3. CASE ~(u = t /\ deal[u].to = m)
    BY <1>2, <1>10, <2>1, <2>3 DEF Carries
  <2> QED
    BY <2>2, <2>3
<1>15. NoticeStep
  <2> SUFFICES ASSUME NEW x \in Member, NEW u \in Ticket, Holds(x, u)', ~Holds(x, u)
               PROVE  Clear(x, u)'
    BY <1>1 DEF NoticeStep, Clear, Parties
  <2>1. x = m /\ u = t
    BY <1>1, <1>10 DEF Holds, Who
  <2> QED
    BY <1>1, <1>5, <2>1 DEF Clear, Parties
<1>16. TypeOK'
  BY <1>1, <1>2, <1>7, <1>10, TypesOf, StillTyped DEF GuestTypes, hostVars
<1> QED
  BY <1>1, <1>8, <1>9, <1>11, <1>13, <1>14, <1>15, <1>16, Still DEF Calm, hostVars

\* The host reads an offer to itself.
LEMMA ReadOfferAsHostCalm ==
  ASSUME GroupTicketsAssumption, TicketInv, NEW t \in Ticket, ReadOfferAsHost(t)
  PROVE  TypeOK' /\ Calm
<1> USE DEF TicketInv
<1>1. /\ ask[t] = "granted" /\ use[t] = "none"
      /\ \/ /\ use' = [use EXCEPT ![t] = "accepted"] /\ t \in issued
            /\ issued' = issued \ {t} /\ consumed' = consumed \cup {t}
            /\ tickets' = [tickets EXCEPT ![Owner] = tickets[Owner] \ {t}]
         \/ use' = [use EXCEPT ![t] = "refused"] /\ UNCHANGED <<issued, consumed, tickets>>
      /\ UNCHANGED <<status, paused, toggles, arming, revoked, ask, deal, view, gpaused, left, netVars>>
  BY DEF ReadOfferAsHost, Consumable
<1>2. Owner \in Who /\ use \in [Ticket -> {"none", "consuming", "accepted", "refused"}]
      /\ tickets \in [Who -> SUBSET Ticket] /\ issued \subseteq Ticket /\ consumed \subseteq Ticket
  BY DEF TypeOK, Who
<1>3. /\ use' \in [Ticket -> {"none", "consuming", "accepted", "refused"}]
      /\ tickets' \in [Who -> SUBSET Ticket]
      /\ issued' \subseteq issued /\ consumed' \subseteq Ticket
      /\ \A u \in Ticket : u # t => use'[u] = use[u]
      /\ use'[t] \in {"accepted", "refused"} /\ (use'[t] = "accepted" => t \in consumed')
      /\ \A x \in Who : tickets'[x] \subseteq tickets[x]
      /\ \A x \in Who, u \in issued' : u \in tickets[x] => u \in tickets'[x]
  <2>1. CASE /\ use' = [use EXCEPT ![t] = "accepted"] /\ t \in issued
             /\ issued' = issued \ {t} /\ consumed' = consumed \cup {t}
             /\ tickets' = [tickets EXCEPT ![Owner] = tickets[Owner] \ {t}]
    <3>1. /\ tickets' \in [Who -> SUBSET Ticket]
          /\ \A x \in Who : tickets'[x] = tickets[x] \/ tickets'[x] = tickets[x] \ {t}
      BY <1>2, <2>1
    <3>2. /\ use' \in [Ticket -> {"none", "consuming", "accepted", "refused"}]
          /\ \A u \in Ticket : u # t => use'[u] = use[u]
          /\ use'[t] = "accepted"
      BY <1>2, <2>1
    <3> QED
      BY <1>2, <2>1, <3>1, <3>2
  <2>2. CASE use' = [use EXCEPT ![t] = "refused"] /\ UNCHANGED <<issued, consumed, tickets>>
    BY <1>2, <2>2
  <2> QED
    BY <1>1, <2>1, <2>2
<1>4. SameNames
  BY <1>1, <1>3 DEF SameNames
<1>5. OneWay
  <2>1. \A u \in Ticket : use'[u] = "accepted" => use[u] = "accepted" \/ u \in consumed'
    BY <1>3
  <2> QED
    BY <1>1, <2>1 DEF OneWay
<1>6. UpStep /\ DownStep
  BY <1>1 DEF UpStep, DownStep, netVars
<1>7. ArmedByFrame
  BY <1>3 DEF ArmedByFrame
<1>8. \A u \in issued' : u \in Ticket /\ deal[u].to \in Who
  BY <1>3 DEF TypeOK
<1>9. HeldStep
  BY <1>1, <1>3, <1>8 DEF HeldStep, Answered, netVars
<1>10. OrderStep
  <2>1. \A u \in issued' : deal[u].to \in Who => tickets'[deal[u].to] \subseteq tickets[deal[u].to]
    BY <1>3
  <2> QED
    BY <1>1, <1>8, <2>1 DEF OrderStep, netVars
<1>11. NoticeStep
  <2> SUFFICES ASSUME NEW x \in Member, NEW u \in Ticket, Holds(x, u)'
               PROVE  Holds(x, u) /\ (Clear(x, u) => Clear(x, u)')
    BY DEF NoticeStep
  <2>1. x \in Who
    BY DEF Who
  <2> QED
    BY <1>1, <1>3, <2>1 DEF Holds, Clear, Parties
<1>12. TypeOK'
  BY <1>1, <1>3, TypesOf, StillTyped DEF HostTypes, GuestTypes, netVars
<1> QED
  BY <1>1, <1>4, <1>5, <1>6, <1>7, <1>9, <1>10, <1>11, <1>12, Still DEF Calm

\* The host turns a request down.
LEMMA RefuseCalm ==
  ASSUME TicketInv, NEW m \in Member, HandleTicketRequest(m), Refused(m, deal[Heard(m)].to)
  PROVE  TypeOK' /\ Calm
<1> USE DEF TicketInv
<1> DEFINE t == Head(up[m]).ticket
           f == [type |-> "RESPONSE", ticket |-> t, ok |-> FALSE]
<1>1. /\ up[m] # <<>>
      /\ down' = Push(down, m, f)
      /\ up' = [up EXCEPT ![m] = Tail(@)]
      /\ UNCHANGED <<status, paused, toggles, issued, arming, consumed, revoked,
                     guestVars, gen, open>>
  BY DEF HandleTicketRequest, Hears, Heard, Consume, guestVars
<1>2. t \in Ticket /\ UpTypes' /\ Carries(up, up', {})
  BY <1>1, HeadOf DEF UpTypes
<1> HIDE DEF t
<1>3. f \in HostFrame /\ f.type = "RESPONSE" /\ ~IsPause(f)
  BY <1>2, HostFrames DEF IsPause
<1> HIDE DEF f
<1>4. DownTypes' /\ Carries(down, down', {f})
  BY <1>1, <1>3, TypesOf, CarriesPush DEF DownTypes
<1>5. DownStep
  BY <1>3, <1>4 DEF DownStep, Carries
<1>6. UpStep /\ \A x \in Member : \A g \in Frames(up'[x]) : g.type = "ARMED" => g \in Frames(up[x])
  BY <1>2, UpCarried
<1>7. HeldStep
  <2>1. issued' \subseteq issued /\ UNCHANGED <<tickets, left, deal, use, arming>>
    BY <1>1 DEF guestVars
  <2> QED
    BY <1>6, <2>1, StillHeld
<1>8. OrderStep
  <2>1. issued' \subseteq issued /\ UNCHANGED <<tickets, deal>>
    BY <1>1 DEF guestVars
  <2> QED
    BY <1>3, <1>4, <2>1, DownCarried
<1>9. TypeOK'
  BY <1>1, <1>2, <1>4, TypesOf, StillTyped DEF guestVars
<1> QED
  BY <1>1, <1>5, <1>6, <1>7, <1>8, <1>9, Still DEF Calm, guestVars

-----------------------------------------------------------------------------
(* Asking for a ticket and issuing one *)

\* All tickets but t belong to whom they belonged.
OnlyNames(t) ==
    \A u \in Ticket \ {t} : /\ deal'[u].from = deal[u].from /\ deal'[u].to = deal[u].to
                            /\ ask'[u] = "none" <=> ask[u] = "none"

\* A number nobody has used is taken, and the request may be on its way.
LEMMA AskInv ==
  ASSUME TicketInv, TypeOK', NEW t \in Ticket, ask[t] = "none", ask'[t] # "none", OnlyNames(t),
         UNCHANGED <<hostVars, use, tickets, view, gpaused, left, gen, open, down>>,
         \A x \in Member :
            \/ up'[x] = up[x]
            \/ x = deal'[t].from /\ up'[x] = Append(up[x], [type |-> "REQUEST", ticket |-> t])
  PROVE  TicketInv'
<1> USE DEF TicketInv
<1> DEFINE f == [type |-> "REQUEST", ticket |-> t]
           m == deal'[t].from
<1>1. /\ UNCHANGED <<status, paused, issued, arming, consumed, revoked,
                     use, tickets, view, gpaused, left, gen, open, down>>
      /\ issued \subseteq Ticket
  BY DEF hostVars, TypeOK
<1>2. /\ Untouched(t) /\ use[t] = "none"
      /\ \A x \in Member : \A g \in Frames(up[x]) : g.type = "REQUEST" => g.ticket # t
  BY DEF Unasked
<1>3. f.type = "REQUEST" /\ f.ticket = t /\ f \in GuestFrame
  BY DEF GuestFrame
<1>up. \A x \in Member : up'[x] = up[x] \/ (x = m /\ up'[x] = Append(up[x], f))
  OBVIOUS
<1> HIDE DEF f
<1>4. \A x \in Member : \A g \in Frames(up'[x]) : g \in Frames(up[x]) \/ (g = f /\ x = m)
  <2> SUFFICES ASSUME NEW x \in Member
               PROVE  \A g \in Frames(up'[x]) : g \in Frames(up[x]) \/ (g = f /\ x = m)
    OBVIOUS
  <2>1. up[x] \in Seq(GuestFrame)
    BY DEF TypeOK
  <2>2. Frames(Append(up[x], f)) = Frames(up[x]) \cup {f}
    BY <1>3, <2>1, FramesOf
  <2> QED
    BY <1>up, <2>2
<1>5. \A u \in Ticket : Untouched(u) => Untouched(u)'
  <2> SUFFICES ASSUME NEW u \in Ticket, Untouched(u) PROVE Untouched(u)'
    OBVIOUS
  <2>1. \A x \in Member : \A g \in Frames(up'[x]) : g.type = "ARMED" => g.ticket # u
    BY <1>3, <1>4 DEF Untouched
  <2> QED
    BY <1>1, <2>1 DEF Untouched
<1>6. Unasked'
  <2> SUFFICES ASSUME NEW u \in Ticket, ask'[u] = "none"
               PROVE  /\ Untouched(u)' /\ use'[u] = "none"
                      /\ \A x \in Member : \A g \in Frames(up'[x]) :
                           g.type = "REQUEST" => g.ticket # u
    BY DEF Unasked
  <2>1. u # t /\ ask[u] = "none"
    BY DEF OnlyNames
  <2>2. /\ Untouched(u) /\ use[u] = "none"
        /\ \A x \in Member : \A g \in Frames(up[x]) : g.type = "REQUEST" => g.ticket # u
    BY <2>1 DEF Unasked
  <2> QED
    BY <1>1, <1>3, <1>4, <1>5, <2>1, <2>2
<1>7. UpInv'
  <2> SUFFICES ASSUME NEW x \in Member, NEW g \in Frames(up'[x])
               PROVE  /\ g.type = "REQUEST" => deal'[g.ticket].from = x /\ Untouched(g.ticket)'
                      /\ g.type = "ARMED" => deal'[g.ticket].to = x
    BY DEF UpInv
  <2>1. g.ticket \in Ticket
    <3>1. up'[x] \in Seq(GuestFrame)
      BY DEF TypeOK
    <3>2. g \in GuestFrame
      BY <3>1 DEF Frames
    <3> QED
      BY <3>2 DEF GuestFrame
  <2>2. CASE g = f /\ x = m
    BY <1>2, <1>3, <1>5, <2>2
  <2>3. CASE g \in Frames(up[x])
    <3>1. g.type \in {"REQUEST", "ARMED"} => g.ticket # t
      BY <1>2, <2>3 DEF Untouched
    <3> QED
      BY <1>5, <2>1, <2>3, <3>1 DEF UpInv, OnlyNames
  <2> QED
    BY <1>4, <2>2, <2>3
<1>8. AskedOnce'
  <2> SUFFICES ASSUME NEW x \in Member, NEW i \in 1 .. Len(up'[x]), NEW j \in 1 .. Len(up'[x]),
                      up'[x][i].type = "REQUEST", up'[x][j].type = "REQUEST",
                      up'[x][i].ticket = up'[x][j].ticket
               PROVE  i = j
    BY DEF AskedOnce, Once
  <2>1. CASE up'[x] = up[x]
    BY <2>1 DEF AskedOnce, Once
  <2>2. CASE up'[x] = Append(up[x], f)
    <3>1. up[x] \in Seq(GuestFrame)
      BY DEF TypeOK
    <3>2. \A k \in 1 .. Len(up'[x]) :
            \/ k = Len(up[x]) + 1 /\ up'[x][k] = f
            \/ k \in 1 .. Len(up[x]) /\ up'[x][k] = up[x][k]
      BY <1>3, <2>2, <3>1
    <3>3. \A k \in 1 .. Len(up[x]) : up[x][k].type = "REQUEST" => up[x][k].ticket # t
      BY <1>2 DEF Frames
    <3> QED
      BY <1>3, <3>2, <3>3 DEF AskedOnce, Once
  <2> QED
    BY <1>up, <2>1, <2>2
<1>9. DownInv'
  <2> SUFFICES ASSUME NEW x \in Member, NEW g \in Frames(down[x])
               PROVE  g.type = "ARM" => deal'[g.ticket].to = x
    BY <1>1 DEF DownInv
  <2>1. g.type = "ARM" => g.ticket \in Ticket
    <3>1. down[x] \in Seq(HostFrame)
      BY DEF TypeOK
    <3>2. g \in HostFrame
      BY <3>1 DEF Frames
    <3> QED
      BY <3>2, HostFrameFields
  <2>2. g.type = "ARM" => g.ticket # t
    BY <1>2 DEF Untouched
  <2> QED
    BY <2>1, <2>2 DEF DownInv, OnlyNames
<1>10. t \notin issued /\ \A u \in issued : /\ u \in Ticket \ {t}
                                            /\ deal'[u].from = deal[u].from /\ deal'[u].to = deal[u].to
  BY <1>1, <1>2 DEF Untouched, OnlyNames
<1>11. Ledger'
  BY <1>1 DEF Ledger
<1>12. Usability'
  BY <1>1, <1>10 DEF Usability, Parties
<1>13. WaitsForMembers'
  BY <1>1, <1>2 DEF WaitsForMembers, Untouched, OnlyNames
<1>14. Held'
  <2> SUFFICES ASSUME NEW u \in issued, Answered(u)', deal'[u].to \notin left,
                      use[u] \in {"none", "consuming"}
               PROVE  u \in tickets[deal'[u].to]
    BY <1>1 DEF Held
  <2>1. Answered(u)
    BY <1>1, <1>3, <1>4, <1>10 DEF Answered
  <2> QED
    BY <1>10, <2>1 DEF Held
<1>15. PauseOrder'
  BY <1>1, <1>10 DEF PauseOrder
<1>16. NothingHeldAfterNotice'
  <2> SUFFICES ASSUME NEW x \in Member, NEW u \in Ticket, Holds(x, u)'
               PROVE  Clear(x, u)'
    BY DEF NothingHeldAfterNotice, Holds, Clear
  <2>1. u # t /\ Holds(x, u)
    BY <1>1, <1>2 DEF Holds, Untouched, OnlyNames, Who
  <2> QED
    BY <1>1, <2>1 DEF NothingHeldAfterNotice, Holds, Clear, Parties, OnlyNames
<1>17. OutstandingBound'
  <2>1. \A x \in Who : Outstanding(x)' = Outstanding(x)
    BY <1>1, <1>10 DEF Outstanding
  <2> QED
    BY <2>1 DEF OutstandingBound
<1> QED
  BY <1>6, <1>7, <1>8, <1>9, <1>11, <1>12, <1>13, <1>14, <1>15, <1>16, <1>17

\* What issuing t adds to: the host's books, and one stream.
LEMMA IssueOf ==
  ASSUME GroupTicketsAssumption, TypeOK, NEW t \in Ticket, NEW from \in Who, NEW to \in Who,
         Issue(t, from, to)
  PROVE  /\ issued' = issued \cup {t}
         /\ tickets' \in [Who -> SUBSET Ticket]
         /\ \A m \in Member : tickets'[m] = tickets[m]
         /\ \A x \in Who, u \in Ticket : u \in tickets'[x] <=> u \in tickets[x] \/ (x = Owner /\ to = Owner /\ u = t)
         /\ ArmTypes'
         /\ \A u \in Ticket \ {t} : arming'[u] = arming[u]
         /\ IF to = Owner THEN arming'[t] = arming[t] ELSE arming'[t].state = "waiting"
         /\ DownTypes'
         /\ \E f \in HostFrame :
              /\ f.type = "RESPONSE" \/ (f.type = "ARM" /\ f.ticket = t)
              /\ \A m \in Member :
                   \/ down'[m] = down[m]
                   \/ down'[m] = Append(down[m], f) /\ (f.type = "ARM" => m = to)
<1>1. Owner \in Who /\ \A m \in Member : m # Owner
  BY DEF Who, GroupTicketsAssumption
<1>2. Stream(from) \in Nat /\ Stream(to) \in Nat
  BY DEF Stream, TypeOK, Who
<1>3. down \in [Member -> Seq(HostFrame)] /\ tickets \in [Who -> SUBSET Ticket] /\ ArmTypes
  BY DEF TypeOK, ArmTypes
<1>4. issued' = issued \cup {t}
  BY DEF Issue
<1>5. CASE to = Owner
  <2> DEFINE f == [type |-> "RESPONSE", ticket |-> t, ok |-> TRUE]
  <2>1. f \in HostFrame /\ f.type = "RESPONSE"
    BY HostFrames
  <2>2. /\ tickets' = [tickets EXCEPT ![Owner] = tickets[Owner] \cup {t}]
        /\ down' = Push(down, from, f) /\ UNCHANGED arming
    BY <1>5 DEF Issue
  <2> HIDE DEF f
  <2>3. /\ DownTypes'
        /\ \A m \in Member : down'[m] = down[m] \/ down'[m] = Append(down[m], f)
    <3>1. /\ Push(down, from, f) \in [Member -> Seq(HostFrame)]
          /\ \A m \in Member : \/ Push(down, from, f)[m] = down[m]
                               \/ Push(down, from, f)[m] = Append(down[m], f)
      BY <1>3, <2>1, PushOf
    <3> QED
      BY <2>2, <3>1 DEF DownTypes
  <2>4. /\ tickets' \in [Who -> SUBSET Ticket]
        /\ \A m \in Member : tickets'[m] = tickets[m]
        /\ \A x \in Who, u \in Ticket : u \in tickets'[x] <=> u \in tickets[x] \/ (x = Owner /\ to = Owner /\ u = t)
    BY <1>1, <1>3, <1>5, <2>2
  <2>5. ArmTypes'
    BY <1>3, <2>2, StillTyped
  <2> QED
    BY <1>4, <1>5, <2>1, <2>2, <2>3, <2>4, <2>5
<1>6. CASE to # Owner
  <2> DEFINE f == [type |-> "ARM", ticket |-> t]
             a == [state |-> "waiting", from |-> Stream(from), to |-> Stream(to)]
  <2>1. f \in HostFrame /\ f.type = "ARM" /\ f.ticket = t
    BY HostFrames
  <2>2. /\ arming' = [arming EXCEPT ![t] = a]
        /\ down' = Push(down, to, f) /\ UNCHANGED tickets
    BY <1>6 DEF Issue
  <2>3. /\ a \in [state : {"idle", "waiting", "armed", "rejected"}, from : Nat, to : Nat]
        /\ a.state = "waiting"
    BY <1>2
  <2> HIDE DEF f, a
  <2>4. /\ DownTypes'
        /\ \A m \in Member : down'[m] = down[m] \/ (down'[m] = Append(down[m], f) /\ m = to)
    <3>1. /\ Push(down, to, f) \in [Member -> Seq(HostFrame)]
          /\ \A m \in Member : \/ Push(down, to, f)[m] = down[m]
                               \/ Push(down, to, f)[m] = Append(down[m], f)
          /\ \A m \in Member \ {to} : Push(down, to, f)[m] = down[m]
      BY <1>3, <2>1, PushOf
    <3> QED
      BY <2>2, <3>1 DEF DownTypes
  <2>5. /\ ArmTypes'
        /\ \A u \in Ticket \ {t} : arming'[u] = arming[u]
        /\ arming'[t].state = "waiting"
    BY <1>3, <2>2, <2>3 DEF ArmTypes
  <2> QED
    BY <1>3, <1>4, <1>6, <2>1, <2>2, <2>4, <2>5
<1> QED
  BY <1>5, <1>6

\* The host issues t: nobody has acted on it yet, both parties are there, and
\* the sender has one more to go.
LEMMA IssueInv ==
  ASSUME GroupTicketsAssumption, TicketInv, TypeOK',
         NEW t \in Ticket, NEW from \in Who, NEW to \in Who,
         Untouched(t), OnlyNames(t), deal'[t].from = from, deal'[t].to = to, ask'[t] # "none",
         (deal[t].from = from /\ deal[t].to = to) \/ use[t] = "none",
         ~Refused(from, to), Online(from), Issue(t, from, to),
         UNCHANGED <<status, paused, consumed, revoked, use, view, gpaused, left>>,
         Carries(up, up', {}),
         \A m \in Member : \A f \in Frames(up'[m]) : f.type = "REQUEST" => f.ticket # t
  PROVE  TicketInv'
<1> USE DEF TicketInv
<1>1. /\ issued' = issued \cup {t}
      /\ \A m \in Member : tickets'[m] = tickets[m]
      /\ \A x \in Who, u \in Ticket : u \in tickets'[x] <=> u \in tickets[x] \/ (x = Owner /\ to = Owner /\ u = t)
      /\ \A u \in Ticket \ {t} : arming'[u] = arming[u]
      /\ IF to = Owner THEN arming'[t] = arming[t] ELSE arming'[t].state = "waiting"
  BY IssueOf
<1>2. PICK f \in HostFrame :
        /\ f.type = "RESPONSE" \/ (f.type = "ARM" /\ f.ticket = t)
        /\ \A m \in Member :
             \/ down'[m] = down[m]
             \/ down'[m] = Append(down[m], f) /\ (f.type = "ARM" => m = to)
  BY IssueOf
<1>3. \A m \in Member : \A g \in Frames(down'[m]) : g \in Frames(down[m]) \/ (g = f /\ (f.type = "ARM" => m = to))
  <2> SUFFICES ASSUME NEW m \in Member
               PROVE  \A g \in Frames(down'[m]) : g \in Frames(down[m]) \/ (g = f /\ (f.type = "ARM" => m = to))
    OBVIOUS
  <2>1. down[m] \in Seq(HostFrame)
    BY DEF TypeOK
  <2>2. Frames(Append(down[m], f)) = Frames(down[m]) \cup {f}
    BY <2>1, FramesOf
  <2> QED
    BY <1>2, <2>2
<1>4. /\ \A m \in Member : \A g \in Frames(up'[m]) : g \in Frames(up[m])
      /\ \A m \in Member : Once(up[m]) => Once(up'[m])
  BY DEF Carries
<1>5. ~paused /\ Online(to) /\ issued \subseteq Ticket
  BY DEF Refused, TypeOK
<1>6. /\ t \notin issued \cup consumed \cup revoked
      /\ \A x \in Who : t \notin tickets[x]
      /\ \A m \in Member : /\ \A g \in Frames(up[m]) : g.type = "ARMED" => g.ticket # t
                           /\ \A g \in Frames(down[m]) : g.type = "ARM" => g.ticket # t
  BY DEF Untouched
<1>7. \A u \in Ticket \ {t} : Untouched(u) => Untouched(u)'
  <2> SUFFICES ASSUME NEW u \in Ticket \ {t}, Untouched(u) PROVE Untouched(u)'
    OBVIOUS
  <2>1. /\ u \notin issued' \cup consumed' \cup revoked' /\ arming'[u].state = "idle"
        /\ \A x \in Who : u \notin tickets'[x]
    BY <1>1 DEF Untouched
  <2>2. ASSUME NEW m \in Member
        PROVE  /\ \A g \in Frames(up'[m]) : g.type = "ARMED" => g.ticket # u
               /\ \A g \in Frames(down'[m]) : g.type = "ARM" => g.ticket # u
    BY <1>2, <1>3, <1>4 DEF Untouched
  <2> QED
    BY <2>1, <2>2 DEF Untouched
<1>8. Unasked'
  <2> SUFFICES ASSUME NEW u \in Ticket, ask'[u] = "none"
               PROVE  /\ Untouched(u)' /\ use'[u] = "none"
                      /\ \A x \in Member : \A g \in Frames(up'[x]) :
                           g.type = "REQUEST" => g.ticket # u
    BY DEF Unasked
  <2>1. u \in Ticket \ {t} /\ ask[u] = "none"
    BY DEF OnlyNames
  <2> QED
    BY <1>4, <1>7, <2>1 DEF Unasked
<1>9. UpInv'
  <2> SUFFICES ASSUME NEW x \in Member, NEW g \in Frames(up'[x])
               PROVE  /\ g.type = "REQUEST" => deal'[g.ticket].from = x /\ Untouched(g.ticket)'
                      /\ g.type = "ARMED" => deal'[g.ticket].to = x
    BY DEF UpInv
  <2>1. g.ticket \in Ticket
    <3>1. up'[x] \in Seq(GuestFrame)
      BY DEF TypeOK
    <3>2. g \in GuestFrame
      BY <3>1 DEF Frames
    <3> QED
      BY <3>2 DEF GuestFrame
  <2>2. g.type \in {"REQUEST", "ARMED"} => g.ticket # t
    BY <1>4, <1>6
  <2> QED
    BY <1>4, <1>7, <2>1, <2>2 DEF UpInv, OnlyNames
<1>10. AskedOnce'
  BY <1>4 DEF AskedOnce
<1>11. DownInv'
  <2> SUFFICES ASSUME NEW x \in Member, NEW g \in Frames(down'[x])
               PROVE  /\ g.type = "ARM" => deal'[g.ticket].to = x
                      /\ g.type = "CONSUMED" => (g.ok => g.ticket \in consumed)
                      /\ g.type = "MEMBER_LEFT" => status[g.who] = "gone"
                      /\ g.type = "ROSTER" => \A y \in Member : g.view[y] = "gone" => status[y] = "gone"
    BY DEF DownInv
  <2>1. CASE g = f
    BY <1>2, <1>3, <1>6, <2>1
  <2>2. CASE g \in Frames(down[x])
    <3>1. g.type = "ARM" => g.ticket \in Ticket \ {t}
      <4>1. down[x] \in Seq(HostFrame)
        BY DEF TypeOK
      <4>2. g \in HostFrame
        BY <2>2, <4>1 DEF Frames
      <4> QED
        BY <1>6, <2>2, <4>2, HostFrameFields
    <3> QED
      BY <2>2, <3>1 DEF DownInv, OnlyNames
  <2> QED
    BY <1>3, <2>1, <2>2
<1>12. Ledger'
  BY <1>1, <1>6 DEF Ledger
<1>13. \A u \in issued : /\ u \in Ticket \ {t}
                         /\ deal'[u].from = deal[u].from /\ deal'[u].to = deal[u].to
  BY <1>5, <1>6 DEF OnlyNames
<1>14. Usability'
  <2>1. ASSUME NEW u \in issued', NEW x \in Parties(u)' \cap Member PROVE status[x] # "gone"
    <3>1. CASE u = t
      BY <1>5, <2>1, <3>1 DEF Parties, Online
    <3>2. CASE u \in issued
      BY <1>13, <2>1, <3>2 DEF Usability, Parties
    <3> QED
      BY <1>1, <3>1, <3>2
  <2> QED
    BY <1>5, <2>1 DEF Usability
<1>15. WaitsForMembers'
  <2> SUFFICES ASSUME NEW u \in Ticket, arming'[u].state # "idle" PROVE deal'[u].to \in Member
    BY DEF WaitsForMembers
  <2>1. CASE u = t
    <3>1. arming[t].state = "idle"
      BY DEF Untouched
    <3> QED
      BY <1>1, <2>1, <3>1 DEF Who
  <2>2. CASE u # t
    BY <1>1, <2>2 DEF WaitsForMembers, OnlyNames
  <2> QED
    BY <2>1, <2>2
<1>16. Held'
  <2> SUFFICES ASSUME NEW u \in issued', Answered(u)', deal'[u].to \notin left,
                      use[u] \in {"none", "consuming"}
               PROVE  u \in tickets'[deal'[u].to]
    BY DEF Held
  <2>1. CASE u = t
    <3>1. to = Owner
      BY <1>1, <1>4, <1>6, <2>1 DEF Answered
    <3> QED
      BY <1>1, <2>1, <3>1 DEF Who
  <2>2. CASE u \in issued
    <3>1. Answered(u)
      BY <1>1, <1>4, <1>13, <2>2 DEF Answered
    <3>2. u \in tickets[deal[u].to] /\ deal[u].to \in Who
      BY <1>13, <2>2, <3>1 DEF Held, TypeOK
    <3> QED
      BY <1>1, <1>13, <2>2, <3>2
  <2> QED
    BY <1>1, <2>1, <2>2
<1>17. PauseOrder'
  <2> SUFFICES ASSUME NEW u \in issued', deal'[u].to \in Member
               PROVE  /\ PauseFirst(down'[deal'[u].to], u)
                      /\ (\E g \in Frames(down'[deal'[u].to]) : IsPause(g))
                           => u \notin tickets'[deal'[u].to]
    BY DEF PauseOrder
  <2> DEFINE y == deal'[u].to
  <2>1. down[y] \in Seq(HostFrame) /\ y \in Who /\ ~IsPause(f)
    BY <1>2 DEF TypeOK, Who, IsPause
  <2>2. PauseFirst(down[y], u)
    <3>1. CASE u = t
      BY <1>6, <3>1 DEF PauseFirst, Frames
    <3>2. CASE u \in issued
      BY <1>13, <3>2 DEF PauseOrder
    <3> QED
      BY <1>1, <3>1, <3>2
  <2>3. PauseFirst(down'[y], u)
    <3>1. CASE down'[y] = down[y]
      BY <2>2, <3>1
    <3>2. CASE down'[y] = Append(down[y], f)
      <4>1. \A k \in 1 .. Len(down'[y]) :
              \/ k = Len(down[y]) + 1 /\ down'[y][k] = f
              \/ k \in 1 .. Len(down[y]) /\ down'[y][k] = down[y][k] /\ k < Len(down[y]) + 1
        BY <2>1, <3>2
      <4> QED
        BY <2>1, <2>2, <4>1 DEF PauseFirst
    <3> QED
      BY <1>2, <3>1, <3>2
  <2>4. (\E g \in Frames(down'[y]) : IsPause(g)) => u \notin tickets'[y]
    <3>1. CASE u = t
      BY <1>1, <1>6, <2>1, <3>1
    <3>2. CASE u \in issued
      BY <1>1, <1>3, <1>13, <2>1, <3>2 DEF PauseOrder
    <3> QED
      BY <1>1, <3>1, <3>2
  <2> QED
    BY <2>3, <2>4
<1>18. NothingHeldAfterNotice'
  <2> SUFFICES ASSUME NEW x \in Member, NEW u \in Ticket, Holds(x, u)'
               PROVE  Clear(x, u)'
    BY DEF NothingHeldAfterNotice, Holds, Clear
  <2>1. CASE u = t
    <3>1. use[t] = "consuming" /\ x = to
      BY <1>1, <1>6, <2>1 DEF Holds, Who
    <3> QED
      BY <2>1, <3>1 DEF NothingHeldAfterNotice, Clear, Parties
  <2>2. CASE u # t
    BY <1>1, <2>2 DEF NothingHeldAfterNotice, Holds, Clear, Parties, OnlyNames
  <2> QED
    BY <2>1, <2>2
<1>19. OutstandingBound'
  <2> SUFFICES ASSUME NEW x \in Who PROVE Cardinality(Outstanding(x)') <= MaxOutstanding
    BY DEF OutstandingBound
  <2>1. /\ IsFiniteSet(Outstanding(x)) /\ Cardinality(Outstanding(x)) \in Nat
        /\ Cardinality(Outstanding(x)) <= MaxOutstanding /\ MaxOutstanding \in Nat
    BY <1>5, Countable DEF OutstandingBound, GroupTicketsAssumption
  <2>2. CASE x = from
    <3>1. Outstanding(x)' = Outstanding(x) \cup {t} /\ t \notin Outstanding(x)
      BY <1>1, <1>6, <1>13, <2>2 DEF Outstanding
    <3>2. Cardinality(Outstanding(x)') = Cardinality(Outstanding(x)) + 1
      BY <2>1, <3>1, FS_AddElement
    <3>3. ~(Cardinality(Outstanding(x)) >= MaxOutstanding)
      BY <2>2 DEF Refused
    <3> QED
      BY <2>1, <3>2, <3>3
  <2>3. CASE x # from
    <3>1. Outstanding(x)' = Outstanding(x)
      BY <1>1, <1>13, <2>3 DEF Outstanding
    <3> QED
      BY <2>1, <3>1
  <2> QED
    BY <2>2, <2>3
<1> QED
  BY <1>8, <1>9, <1>10, <1>11, <1>12, <1>14, <1>15, <1>16, <1>17, <1>18, <1>19

\* A member asks for a ticket.
LEMMA RequestInv ==
  ASSUME GroupTicketsAssumption, TicketInv, NEW m \in Member, Request(m)
  PROVE  TicketInv'
<1> USE DEF TicketInv
<1>1. PICK t \in Fresh, x \in Who \ {m} :
        /\ deal' = [deal EXCEPT ![t] = [from |-> m, to |-> x, asked |-> gen[m], consuming |-> 0]]
        /\ ask' = [ask EXCEPT ![t] = "asked"]
        /\ up' = Push(up, m, [type |-> "REQUEST", ticket |-> t])
  BY DEF Request
<1>2. UNCHANGED <<hostVars, use, tickets, view, gpaused, left, gen, open, down>>
  BY DEF Request
<1>3. t \in Ticket /\ ask[t] = "none" /\ m \in Who /\ gen[m] \in Nat
  BY DEF Fresh, Who, TypeOK
<1>4. OnlyNames(t) /\ deal'[t].from = m /\ ask'[t] # "none"
  BY <1>1, <1>3 DEF OnlyNames, TypeOK
<1>5. deal' \in [Ticket -> [from : Who, to : Who, asked : Nat, consuming : Nat]]
  BY <1>1, <1>3 DEF TypeOK
<1>6. ask' \in [Ticket -> {"none", "asked", "granted", "failed"}]
  BY <1>1 DEF TypeOK
<1>7. /\ up' \in [Member -> Seq(GuestFrame)]
      /\ \A y \in Member :
            \/ up'[y] = up[y]
            \/ y = m /\ up'[y] = Append(up[y], [type |-> "REQUEST", ticket |-> t])
  <2> DEFINE f == [type |-> "REQUEST", ticket |-> t]
  <2>1. f \in GuestFrame /\ up \in [Member -> Seq(GuestFrame)]
    BY <1>3, GuestFrames DEF TypeOK
  <2> HIDE DEF f
  <2>2. /\ Push(up, m, f) \in [Member -> Seq(GuestFrame)]
        /\ \A y \in Member : Push(up, m, f)[y] = up[y] \/ Push(up, m, f)[y] = Append(up[y], f)
        /\ \A y \in Member \ {m} : Push(up, m, f)[y] = up[y]
    <3>1. \A y \in Member : Append(up[y], f) \in Seq(GuestFrame)
      BY <2>1, FramesOf
    <3> QED
      BY <2>1, <3>1 DEF Push
  <2>3. up' = Push(up, m, f)
    BY <1>1 DEF f
  <2>4. /\ up' \in [Member -> Seq(GuestFrame)]
        /\ \A y \in Member : up'[y] = up[y] \/ (y = m /\ up'[y] = Append(up[y], f))
    BY <2>2, <2>3
  <2> QED
    BY <2>4 DEF f
<1>8. TypeOK'
  BY <1>2, <1>5, <1>6, <1>7, TypesOf, StillTyped DEF GuestTypes, UpTypes, hostVars
<1> QED
  BY <1>2, <1>3, <1>4, <1>7, <1>8, AskInv

\* The host takes a ticket for itself, or is refused one.
LEMMA OwnerRequestInv ==
  ASSUME GroupTicketsAssumption, TicketInv, OwnerRequest
  PROVE  TicketInv'
<1> USE DEF TicketInv
<1>1. PICK t \in Fresh, m \in Member :
        /\ deal' = [deal EXCEPT ![t] = [NoDeal EXCEPT !.to = m]]
        /\ \/ /\ Refused(Owner, m) /\ ask' = [ask EXCEPT ![t] = "failed"]
              /\ UNCHANGED <<issued, arming, tickets, down>>
           \/ /\ ~Refused(Owner, m) /\ ask' = [ask EXCEPT ![t] = "asked"]
              /\ Issue(t, Owner, m)
  BY DEF OwnerRequest
<1>2. UNCHANGED <<status, paused, toggles, consumed, revoked, use, view, gpaused, left, gen, open, up>>
  BY DEF OwnerRequest
<1>3. t \in Ticket /\ ask[t] = "none" /\ m \in Who /\ Owner \in Who
  BY DEF Fresh, Who
<1>4. /\ deal' \in [Ticket -> [from : Who, to : Who, asked : Nat, consuming : Nat]]
      /\ deal'[t].from = Owner /\ deal'[t].to = m
      /\ \A u \in Ticket \ {t} : deal'[u] = deal[u]
  BY <1>1, <1>3 DEF TypeOK, NoDeal
<1>5. /\ ask' \in [Ticket -> {"none", "asked", "granted", "failed"}]
      /\ ask'[t] # "none" /\ \A u \in Ticket \ {t} : ask'[u] = ask[u]
  BY <1>1, <1>3 DEF TypeOK
<1>6. OnlyNames(t)
  BY <1>4, <1>5 DEF OnlyNames
<1>7. CASE UNCHANGED <<issued, arming, tickets, down>>
  <2>1. TypeOK'
    BY <1>2, <1>4, <1>5, <1>7, TypesOf, StillTyped DEF GuestTypes
  <2>2. UNCHANGED <<hostVars, use, tickets, view, gpaused, left, gen, open, down, up>>
    BY <1>2, <1>7 DEF hostVars
  <2> QED
    BY <1>3, <1>5, <1>6, <2>1, <2>2, AskInv
<1>8. CASE ~Refused(Owner, m) /\ Issue(t, Owner, m)
  <2>1. /\ issued' = issued \cup {t} /\ tickets' \in [Who -> SUBSET Ticket]
        /\ ArmTypes' /\ DownTypes'
    BY <1>3, <1>8, IssueOf
  <2>2. HostTypes' /\ GuestTypes'
    BY <1>2, <1>3, <1>4, <1>5, <2>1, TypesOf DEF HostTypes, GuestTypes
  <2>3. TypeOK'
    BY <1>2, <2>1, <2>2, TypesOf, StillTyped
  <2>4. /\ Untouched(t) /\ use[t] = "none"
        /\ \A x \in Member : \A f \in Frames(up'[x]) : f.type = "REQUEST" => f.ticket # t
    BY <1>2, <1>3 DEF Unasked
  <2>5. Carries(up, up', {}) /\ Online(Owner)
    BY <1>2, CarriesSelf DEF Online, GroupTicketsAssumption
  <2> QED
    BY <1>2, <1>3, <1>4, <1>5, <1>6, <1>8, <2>3, <2>4, <2>5, IssueInv
<1> QED
  BY <1>1, <1>7, <1>8

\* The host reads a member's request: no other like it is left to be read.
LEMMA HandleTicketRequestInv ==
  ASSUME GroupTicketsAssumption, TicketInv, NEW m \in Member, HandleTicketRequest(m)
  PROVE  TicketInv'
<1> USE DEF TicketInv
<1> DEFINE t == Head(up[m]).ticket
<1>1. CASE Refused(m, deal[t].to)
  BY <1>1, RefuseCalm, CalmInv DEF Heard
<1>2. CASE ~Refused(m, deal[t].to)
  <2>1. /\ status[m] = "online" /\ up[m] # <<>> /\ Head(up[m]).type = "REQUEST"
        /\ Issue(t, m, deal[t].to)
        /\ up' = [up EXCEPT ![m] = Tail(up[m])]
        /\ UNCHANGED <<status, paused, toggles, consumed, revoked,
                       ask, use, deal, view, gpaused, left, gen, open>>
    BY <1>2 DEF HandleTicketRequest, Hears, Heard, Consume
  <2>2. t \in Ticket /\ Head(up[m]) \in Frames(up[m]) /\ UpTypes' /\ Carries(up, up', {})
    BY <2>1, HeadOf DEF UpTypes
  <2>3. deal[t].from = m /\ Untouched(t)
    BY <2>1, <2>2 DEF UpInv
  <2>4. ask[t] # "none"
    BY <2>1, <2>2 DEF Unasked
  <2>5. deal[t].to \in Who /\ m \in Who
    BY <2>2 DEF TypeOK, Who
  <2>6. up'[m] = Tail(up[m]) /\ \A x \in Member \ {m} : up'[x] = up[x]
    BY <2>1 DEF TypeOK
  <2>7. ASSUME NEW x \in Member, NEW f \in Frames(up'[x]), f.type = "REQUEST", f.ticket = t
        PROVE  FALSE
    <3>1. CASE x # m
      BY <2>3, <2>6, <2>7, <3>1 DEF UpInv
    <3>2. CASE x = m
      <4>1. up[m] \in Seq(GuestFrame)
        BY DEF TypeOK
      <4>2. PICK i \in 1 .. Len(Tail(up[m])) : Tail(up[m])[i] = f
        BY <2>6, <2>7, <3>2 DEF Frames
      <4>3. i + 1 \in 1 .. Len(up[m]) /\ up[m][i + 1] = f /\ Head(up[m]) = up[m][1]
        BY <2>1, <4>1, <4>2, FramesLeft
      <4>4. 1 \in 1 .. Len(up[m]) /\ i + 1 # 1
        BY <4>1, <4>3
      <4>5. Once(up[m])
        BY DEF AskedOnce
      <4> QED
        BY <2>1, <2>7, <4>3, <4>4, <4>5 DEF Once
    <3> QED
      BY <3>1, <3>2
  <2> HIDE DEF t
  <2>8. /\ issued' = issued \cup {t} /\ tickets' \in [Who -> SUBSET Ticket]
        /\ ArmTypes' /\ DownTypes'
    BY <2>1, <2>2, <2>5, IssueOf
  <2>9. HostTypes' /\ GuestTypes'
    BY <2>1, <2>2, <2>8, TypesOf DEF HostTypes, GuestTypes
  <2>10. TypeOK'
    BY <2>1, <2>2, <2>8, <2>9, TypesOf, StillTyped
  <2>11. OnlyNames(t) /\ Online(m)
    BY <2>1 DEF OnlyNames, Online
  <2>12. deal'[t].from = m /\ deal'[t].to = deal[t].to /\ ask'[t] # "none"
    BY <2>1, <2>3, <2>4
  <2> QED
    BY <1>2, <2>1, <2>2, <2>3, <2>5, <2>7, <2>10, <2>11, <2>12, IssueInv
<1> QED
  BY <1>1, <1>2

-----------------------------------------------------------------------------
(* The theorems *)

\* Nothing has been asked for at the start.
LEMMA InitInv ==
  ASSUME GroupTicketsAssumption, Init
  PROVE  TicketInv
<1> USE DEF Init
<1>1. TypeOK
  <2>1. 1 \in 1 .. MaxStream
    BY DEF GroupTicketsAssumption
  <2>2. \A S : <<>> \in Seq(S)
    OBVIOUS
  <2>3. /\ arming \in [Ticket -> [state : {"idle", "waiting", "armed", "rejected"}, from : Nat, to : Nat]]
        /\ deal \in [Ticket -> [from : Who, to : Who, asked : Nat, consuming : Nat]]
    BY DEF Idle, NoDeal, Who
  <2>4. gen \in [Member -> 1 .. MaxStream]
    BY <2>1
  <2>5. up \in [Member -> Seq(GuestFrame)] /\ down \in [Member -> Seq(HostFrame)]
    BY <2>2
  <2> QED
    BY <2>3, <2>4, <2>5 DEF TypeOK, Presence
<1>2. \A m \in Member : /\ Frames(up[m]) = {} /\ Frames(down[m]) = {}
                        /\ Len(up[m]) = 0 /\ Len(down[m]) = 0
  BY NoFrames
<1>3. \A t \in Ticket : Untouched(t)
  BY <1>2 DEF Untouched, Idle
<1>4. Unasked /\ UpInv /\ DownInv
  BY <1>2, <1>3 DEF Unasked, UpInv, DownInv
<1>5. AskedOnce
  BY <1>2 DEF AskedOnce, Once
<1>6. Ledger /\ Usability /\ WaitsForMembers /\ Held /\ PauseOrder
  BY <1>3 DEF Ledger, Usability, WaitsForMembers, Held, PauseOrder, Untouched
<1>7. NothingHeldAfterNotice
  BY DEF NothingHeldAfterNotice, Who
<1>8. OutstandingBound
  <2>1. \A x : Outstanding(x) = {}
    BY DEF Outstanding
  <2>2. Cardinality({}) = 0
    BY FS_EmptySet
  <2>3. 0 <= MaxOutstanding
    BY DEF GroupTicketsAssumption
  <2> QED
    BY <2>1, <2>2, <2>3 DEF OutstandingBound
<1> QED
  BY <1>1, <1>4, <1>5, <1>6, <1>7, <1>8 DEF TicketInv

\* A step that changes nothing.
LEMMA StutterInv ==
  ASSUME TicketInv, UNCHANGED vars
  PROVE  TicketInv'
<1>1. UNCHANGED <<status, paused, toggles, issued, arming, consumed, revoked,
                  ask, use, deal, tickets, view, gpaused, left, gen, open, up, down>>
  BY DEF vars, hostVars, guestVars, netVars
<1>2. TypeOK' /\ Unasked' /\ UpInv' /\ AskedOnce' /\ DownInv'
  BY <1>1 DEF TicketInv, TypeOK, Unasked, Untouched, UpInv, AskedOnce, DownInv
<1>3. Ledger' /\ Usability' /\ WaitsForMembers' /\ Held' /\ PauseOrder'
  BY <1>1 DEF TicketInv, Ledger, Usability, Parties, WaitsForMembers, Held, Answered, PauseOrder
<1>4. NothingHeldAfterNotice' /\ OutstandingBound'
  BY <1>1 DEF TicketInv, NothingHeldAfterNotice, Parties, OutstandingBound, Outstanding
<1> QED
  BY <1>2, <1>3, <1>4 DEF TicketInv

\* Every action keeps the invariant: all but three are calm.
LEMMA NextInv ==
  ASSUME GroupTicketsAssumption, TicketInv, Next
  PROVE  TicketInv'
<1>1. CASE OwnerRequest
  BY <1>1, OwnerRequestInv
<1>2. CASE SetRoomPaused
  BY <1>2, SetRoomPausedCalm, CalmInv DEF TicketInv
<1>3. ASSUME NEW m \in Member, HostAction(m) PROVE TicketInv'
  <2>1. CASE HandleTicketRequest(m)
    BY <2>1, HandleTicketRequestInv
  <2>2. CASE HearArmed(m)
    BY <2>2, HearArmedCalm, CalmInv
  <2>3. CASE HearUnexpectedArmed(m) \/ LoseMember(m)
    BY <2>3, LoseMemberCalm, CalmInv
  <2>4. CASE HandleTicketConsume(m)
    BY <2>4, ConsumeCalm, CalmInv
  <2>5. CASE RemoveMember(m)
    BY <2>5, RemoveMemberCalm, CalmInv
  <2>6. CASE FinishResume(m)
    BY <2>6, FinishResumeCalm, CalmInv
  <2> QED
    BY <1>3, <2>1, <2>2, <2>3, <2>4, <2>5, <2>6 DEF HostAction
<1>4. ASSUME NEW m \in Member, GuestAction(m) PROVE TicketInv'
  <2>1. CASE Request(m)
    BY <2>1, RequestInv
  <2>2. CASE ReadResponse(m)
    BY <2>2, ReadResponseCalm, CalmInv
  <2>3. CASE ReadArm(m)
    BY <2>3, ReadArmCalm, CalmInv
  <2>4. CASE ReadUnusableArm(m)
    BY <2>4, BreakCalm, CalmInv
  <2>5. CASE ReadConsumed(m)
    BY <2>5, ReadConsumedCalm, CalmInv
  <2>6. CASE ReadPause(m)
    BY <2>6, ReadPauseCalm, CalmInv
  <2>7. CASE ReadMemberState(m)
    BY <2>7, ReadMemberStateCalm, CalmInv
  <2>8. CASE ReadMemberLeft(m)
    BY <2>8, ReadMemberLeftCalm, CalmInv
  <2>9. CASE ReadRoster(m)
    BY <2>9, ReadRosterCalm, CalmInv
  <2>10. CASE ReadRemoved(m) \/ Leave(m)
    BY <2>10, QuitCalm, CalmInv DEF ReadRemoved, Leave
  <2>11. CASE BeginResume(m)
    BY <2>11, BeginResumeCalm, CalmInv
  <2> QED
    BY <1>4, <2>1, <2>2, <2>3, <2>4, <2>5, <2>6, <2>7, <2>8, <2>9, <2>10, <2>11 DEF GuestAction
<1>5. ASSUME NEW m \in Member, Break(m) PROVE TicketInv'
  BY <1>5, BreakCalm, CalmInv
<1>6. ASSUME NEW t \in Ticket, TicketAction(t) PROVE TicketInv'
  <2>1. CASE FinishArming(t)
    BY <2>1, FinishArmingCalm, CalmInv
  <2>2. CASE FailArming(t)
    BY <2>2, FailArmingCalm, CalmInv
  <2>3. CASE Expire(t)
    BY <2>3, ExpireCalm, CalmInv
  <2>4. CASE RequestTimeout(t)
    BY <2>4, RequestTimeoutCalm, CalmInv
  <2>5. CASE ReadOffer(t)
    BY <2>5, ReadOfferCalm, CalmInv
  <2>6. CASE ReadOfferAsHost(t)
    BY <2>6, ReadOfferAsHostCalm, CalmInv
  <2>7. CASE ConsumeTimeout(t)
    BY <2>7, ConsumeTimeoutCalm, CalmInv
  <2>8. CASE \E m \in Member : ExpireArmed(m, t)
    BY <2>8, ExpireArmedCalm, CalmInv
  <2> QED
    BY <1>6, <2>1, <2>2, <2>3, <2>4, <2>5, <2>6, <2>7, <2>8 DEF TicketAction
<1> QED
  BY <1>1, <1>2, <1>3, <1>4, <1>5, <1>6 DEF Next

\* In every reachable state each frame in flight between the host and a member
\* still means what it meant when it was written: the inductive invariant that
\* the results below are parts of.
THEOREM TicketInvariant ==
  ASSUME GroupTicketsAssumption
  PROVE  Spec => []TicketInv
<1>1. Init => TicketInv
  BY InitInv
<1>2. TicketInv /\ [Next]_vars => TicketInv'
  BY NextInv, StutterInv
<1> QED
  BY <1>1, <1>2, PTL DEF Spec

\* The host's and the members' books and the streams between them have their
\* types; in particular no stream number exceeds its bound.
THEOREM TicketTypeCorrect ==
  ASSUME GroupTicketsAssumption
  PROVE  Spec => []TypeOK
<1>1. TicketInv => TypeOK
  BY DEF TicketInv
<1> QED
  BY <1>1, TicketInvariant, PTL

\* A ticket that was issued when the room paused (setRoomPaused) or one of its
\* parties was removed (removeMember) is never consumed afterwards, and nobody
\* accepts an offer the host has not consumed the ticket for.
THEOREM RevokedStaysUnused ==
  ASSUME GroupTicketsAssumption
  PROVE  Spec => []RevokedNeverUsed
<1>1. TicketInv => RevokedNeverUsed
  BY DEF TicketInv, Ledger, RevokedNeverUsed
<1> QED
  BY <1>1, TicketInvariant, PTL

\* A ticket the host honours after issueTransferTickets has returned is held by
\* its recipient, whatever streams were replaced and pauses crossed the arm.
THEOREM GrantsAreArmed ==
  ASSUME GroupTicketsAssumption
  PROVE  Spec => []GrantIsArmed
<1>1. TicketInv => GrantIsArmed
  <2> SUFFICES ASSUME TicketInv, NEW t \in issued, arming[t] = Idle,
                      deal[t].to \notin left, use[t] \in {"none", "consuming"}
               PROVE  t \in tickets[deal[t].to]
    BY DEF GrantIsArmed
  <2>1. Answered(t)
    BY DEF Answered, Idle
  <2> QED
    BY <2>1 DEF TicketInv, Held
<1> QED
  BY <1>1, TicketInvariant, PTL

\* No sender has more tickets outstanding than maxOutstandingTicketsPerMember,
\* though its next request may be decided while a recipient is being armed.
THEOREM OutstandingIsBounded ==
  ASSUME GroupTicketsAssumption
  PROVE  Spec => []OutstandingBound
<1>1. TicketInv => OutstandingBound
  BY DEF TicketInv
<1> QED
  BY <1>1, TicketInvariant, PTL

\* Once a member has read that the room is paused, or that somebody has left, it
\* holds nothing that could start a transfer of theirs (invalidateAllTickets,
\* invalidateMemberTickets), whatever was on its way before.
THEOREM NoticeClearsTickets ==
  ASSUME GroupTicketsAssumption
  PROVE  Spec => []NothingHeldAfterNotice
<1>1. TicketInv => NothingHeldAfterNotice
  BY DEF TicketInv
<1> QED
  BY <1>1, TicketInvariant, PTL
=============================================================================
