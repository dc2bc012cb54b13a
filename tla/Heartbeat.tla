----------------------------- MODULE Heartbeat ------------------------------
(***************************************************************************)
(* The heartbeat of a group room for one member (src/web/group-room.js):   *)
(* at each tick the host counts an unanswered PING as missed and sends the *)
(* next one, and gives the stream up after heartbeatFailureLimit of them.  *)
(* The member answers each PING with a PONG, as late as its page and the   *)
(* stream like; a PONG the host does not know of costs it the stream.      *)
(*                                                                         *)
(* A ping id is its number.  A member that resumes does so on a new        *)
(* stream, and what the old one carried is not read any more.              *)
(***************************************************************************)
EXTENDS Integers, Sequences

CONSTANTS heartbeatFailureLimit,
          MaxPing,     \* bound: pings
          MaxStream    \* bound: streams, one after the other

VARIABLES online,       \* member.status
          outstanding,  \* outstandingPings
          stale,        \* stalePings, in the order they were added
          failures,     \* heartbeatFailures
          sent,         \* pings sent so far
          stream,       \* streams used so far
          down, up      \* PINGs and PONGs under way on the current one

vars == <<online, outstanding, stale, failures, sent, stream, down, up>>

Init == /\ online = TRUE
        /\ outstanding = {}
        /\ stale = <<>>
        /\ failures = 0
        /\ sent = 0
        /\ stream = 1
        /\ down = <<>>
        /\ up = <<>>

\* What markMemberReconnecting does here.
MarkMemberReconnecting ==
  /\ online' = FALSE
  /\ outstanding' = {}
  /\ stale' = <<>>
  /\ failures' = 0
  /\ down' = <<>>
  /\ up' = <<>>

\* The last entries of s, at most n: the oldest ids are deleted first.
Newest(s, n) == SubSeq(s, IF Len(s) > n THEN Len(s) - n + 1 ELSE 1, Len(s))

\* A tick of startOwnerHeartbeat.  There is never more than one outstanding
\* ping, so the order in which they become stale does not matter.
Tick ==
  LET missed == outstanding # {}
      late == IF missed THEN Append(stale, CHOOSE n \in outstanding : TRUE) ELSE stale
      count == IF missed THEN failures + 1 ELSE failures
  IN /\ online
     /\ sent < MaxPing
     /\ \/ /\ count >= heartbeatFailureLimit
           /\ MarkMemberReconnecting
           /\ UNCHANGED sent
        \/ /\ count < heartbeatFailureLimit
           /\ sent' = sent + 1
           /\ outstanding' = {sent + 1}
           /\ stale' = Newest(late, 2 * heartbeatFailureLimit)
           /\ failures' = count
           /\ down' = Append(down, sent + 1)
           /\ UNCHANGED <<online, up>>
     /\ UNCHANGED stream

\* handleOwnerFrame of the member.
ReadPing ==
  /\ down # <<>>
  /\ up' = Append(up, Head(down))
  /\ down' = Tail(down)
  /\ UNCHANGED <<online, outstanding, stale, failures, sent, stream>>

\* A Set without its entry n.
Deleted(s, n) == LET i == CHOOSE i \in DOMAIN s : s[i] = n
                 IN SubSeq(s, 1, i - 1) \o SubSeq(s, i + 1, Len(s))

Known(n) == n \in outstanding \/ \E i \in DOMAIN stale : stale[i] = n

\* handleMemberFrame of the host: the answer is in time, late, or unknown, when
\* it is taken for forged and ends the stream.
ReadPong ==
  /\ up # <<>>
  /\ LET n == Head(up) IN
       IF ~Known(n) THEN MarkMemberReconnecting
       ELSE /\ IF n \in outstanding
               THEN /\ outstanding' = outstanding \ {n}
                    /\ stale' = <<>>
                    /\ failures' = 0
               ELSE /\ stale' = Deleted(stale, n)
                    /\ UNCHANGED <<outstanding, failures>>
            /\ up' = Tail(up)
            /\ UNCHANGED <<online, down>>
  /\ UNCHANGED <<sent, stream>>

\* The stream is lost for another reason, and the member resumes.
Lose ==
  /\ online
  /\ MarkMemberReconnecting
  /\ UNCHANGED <<sent, stream>>

Resume ==
  /\ ~online
  /\ stream < MaxStream
  /\ stream' = stream + 1
  /\ online' = TRUE
  /\ outstanding' = {}
  /\ stale' = <<>>
  /\ failures' = 0
  /\ UNCHANGED <<sent, down, up>>

Next == Tick \/ ReadPing \/ ReadPong \/ Lose \/ Resume
Spec == Init /\ [][Next]_vars

-----------------------------------------------------------------------------
TypeOK ==
  /\ online \in BOOLEAN
  /\ outstanding \subseteq 1 .. MaxPing
  /\ stale \in Seq(1 .. MaxPing)
  /\ failures \in 0 .. heartbeatFailureLimit - 1
  /\ sent \in 0 .. MaxPing
  /\ stream \in 1 .. MaxStream
  /\ down \in Seq(1 .. MaxPing)
  /\ up \in Seq(1 .. MaxPing)

\* The host knows every ping that is still under way to the member or back, so
\* an answer is never taken for a forged one, however late it is ("a PONG can
\* arrive after the next heartbeat cycle has already counted that ping as
\* missed").
LateAnswersKnown ==
  \A n \in 1 .. MaxPing :
    (\E i \in DOMAIN down : down[i] = n) \/ (\E i \in DOMAIN up : up[i] = n)
      => Known(n)

=============================================================================
