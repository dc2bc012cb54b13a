------------------------------ MODULE RoomLog -------------------------------
(***************************************************************************)
(* What the ordered room promises, without streams, recovery or queues:    *)
(* one log that only grows, that tells every member's stay as one interval *)
(* and holds every submitted text at most once; and per member a cursor    *)
(* that moves over the log one event at a time, or jumps when told to, and *)
(* texts that are confirmed exactly when the cursor passes their event.    *)
(* GroupLog implements it.                                                 *)
(***************************************************************************)
EXTENDS Integers, Sequences

CONSTANTS
    Member,     \* applicants and members other than the host
    Owner,      \* the host
    MaxText     \* texts one member may submit

VARIABLES
    log,        \* the events committed so far
    cursor,     \* cursor[m]: the number of the last event m has passed
    draft       \* draft[m][k]: what m is told of its k-th text

vars == <<log, cursor, draft>>

Text == 1..MaxText

\* About m, the log holds an event of this type.
Told(m, type) == \E i \in 1..Len(log) : log[i].who = m /\ log[i].type = type

\* The last thing the log says of m's presence: 0 when it says nothing.
LastPresence(m) ==
    LET said == {i \in 1..Len(log) : log[i].who = m /\ log[i].type # "TEXT"}
    IN  IF said = {} THEN 0 ELSE CHOOSE i \in said : \A j \in said : j <= i

Here(m)  == /\ LastPresence(m) # 0
            /\ log[LastPresence(m)].type \in {"MEMBER_JOINED", "MEMBER_ONLINE"}
Away(m)  == /\ LastPresence(m) # 0
            /\ log[LastPresence(m)].type = "MEMBER_RECONNECTING"

\* What may be committed next.
Admissible(e) ==
    \/ e.who = Owner /\ e.type = "TEXT"
    \/ /\ e.who \in Member
       /\ \/ e.type = "MEMBER_JOINED" /\ LastPresence(e.who) = 0
          \/ e.type = "MEMBER_RECONNECTING" /\ Here(e.who)
          \/ e.type = "MEMBER_ONLINE" /\ Away(e.who)
          \/ e.type = "MEMBER_LEFT" /\ (Here(e.who) \/ Away(e.who))
          \/ /\ e.type = "TEXT" /\ Here(e.who)
             /\ e.id \in Text /\ draft[e.who][e.id] # "unsent"
             /\ \A i \in 1..Len(log) : log[i] # e

Init ==
    /\ log = <<>>
    /\ cursor = [m \in Member |-> 0]
    /\ draft = [m \in Member |-> [k \in Text |-> "unsent"]]

\* The host commits an event; two are never committed in one step.
Post ==
    /\ Len(log') = Len(log) + 1
    /\ log' = Append(log, log'[Len(log')])
    /\ Admissible(log'[Len(log')])
    /\ UNCHANGED <<cursor, draft>>

\* m applies the next event; if it is a text m waits for, m is told so.
Deliver(m) ==
    /\ cursor[m] < Len(log)
    /\ cursor' = [cursor EXCEPT ![m] = @ + 1]
    /\ LET e == log[cursor[m] + 1]
       IN  draft' = IF e.type = "TEXT" /\ e.who = m /\ draft[m][e.id] = "sending"
                    THEN [draft EXCEPT ![m][e.id] = "delivered"]
                    ELSE draft
    /\ UNCHANGED log

\* m is given a member list instead of the events: on joining, on a resync.
Jump(m) ==
    /\ \E n \in cursor[m]..Len(log) : cursor' = [cursor EXCEPT ![m] = n]
    /\ UNCHANGED <<log, draft>>

\* m submits its next text, or is told at once that it cannot be taken.
Submit(m) ==
    /\ \E k \in Text, d \in {"sending", "failed"} :
        /\ \A j \in Text : draft[m][j] = "unsent" <=> j >= k
        /\ draft' = [draft EXCEPT ![m][k] = d]
    /\ UNCHANGED <<log, cursor>>

\* m is told that a text it waits for has failed.
Fail(m) ==
    /\ \E k \in Text :
        /\ draft[m][k] = "sending"
        /\ draft' = [draft EXCEPT ![m][k] = "failed"]
    /\ UNCHANGED <<log, cursor>>

Next == Post \/ \E m \in Member : Deliver(m) \/ Jump(m) \/ Submit(m) \/ Fail(m)

Spec == Init /\ [][Next]_vars
=============================================================================
