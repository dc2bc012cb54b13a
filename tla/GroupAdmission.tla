--------------------------- MODULE GroupAdmission ---------------------------
(***************************************************************************)
(* How a group room admits its members (src/web/group-room.js): requests   *)
(* wait at the host until they expire; an approval reserves a seat,        *)
(* verifies the applicant's address on a stream of its own, writes         *)
(* JOIN_ACCEPT and only then commits.  Every one of these awaits can meet  *)
(* the expiry, a rejection, a cancelled join, a lost stream, a pause, a    *)
(* rotated invitation or the closing of the room.                          *)
(*                                                                         *)
(* What a member does after its admission is GroupLog; here it may be      *)
(* lost, resume, leave or be removed, because that frees seats.            *)
(*                                                                         *)
(* Abstracted: a request is well formed and an address either answers its  *)
(* challenge or fails; the challenge stream is the flag `proof'.  A closed *)
(* stream may still deliver what was written to it, or nothing.            *)
(***************************************************************************)
EXTENDS Integers, Sequences, FiniteSets

CONSTANTS Guest,         \* applicants, one join request each
          MaxMembers,    \* config.maxMembers, the host included
          MaxPending,    \* config.maxPendingJoins
          MaxToggle      \* bound: pauses, unpauses and rotations, together

ASSUME AdmissionAssumption ==
  /\ IsFiniteSet(Guest)
  /\ MaxMembers \in Nat \ {0}
  /\ {MaxPending, MaxToggle} \subseteq Nat

VARIABLES host,     \* what the host keeps of the room
          entry,    \* the host's entry of each request: pending or member
          guest,    \* what each applicant believes
          stream    \* the control stream of each applicant

vars == <<host, entry, guest, stream>>

NoEntry == [st |-> "none", token |-> 0, gen |-> 0, proof |-> FALSE]
NoGuest == [mode |-> "none", token |-> 0, cancelling |-> FALSE]
NoStream == [open |-> FALSE, up |-> <<>>, down |-> <<>>]

Init == /\ host = [mode |-> "owner", roomPaused |-> FALSE, joinsPaused |-> FALSE,
                   gen |-> 0, token |-> 0]
        /\ entry = [g \in Guest |-> NoEntry]
        /\ guest = [g \in Guest |-> NoGuest]
        /\ stream = [g \in Guest |-> NoStream]

In(st) == {g \in Guest : entry[g].st \in st}
Pending == In({"pending", "approving", "committing"})
Members == In({"online", "reconnecting"})

\* Mutation: a reserved seat is not counted.
OccupiedMembersOnly == 1 + Cardinality(Members)

\* occupiedSeats: the host, its members and the seats kept for approvals.
OccupiedSeats == 1 + Cardinality(Members) + Cardinality(In({"approving", "committing"}))

\* The stream s closed, with or without frame as last words; by the host also
\* for reading.
Closed(s) == [s EXCEPT !.open = FALSE]
Shut(s) == [s EXCEPT !.open = FALSE, !.up = <<>>]
Told(s, frame) == [Shut(s) EXCEPT !.down = IF s.open THEN Append(@, frame) ELSE @]

-----------------------------------------------------------------------------
\* requestJoin with the invitation of the moment: dialled and written.
Request(g) ==
  /\ guest[g] = NoGuest
  /\ guest' = [guest EXCEPT ![g].mode = "pending", ![g].token = host.token]
  /\ stream' = [stream EXCEPT ![g] = [open |-> TRUE, up |-> <<"JOIN">>, down |-> <<>>]]
  /\ UNCHANGED <<host, entry>>

\* The next frame the host reads on the stream of g, and what is left.
HostReads(g, frame) == stream[g].up # <<>> /\ Head(stream[g].up) = frame
Read(g) == [stream[g] EXCEPT !.up = Tail(@)]

\* acceptJoinRequest: whether a request that holds token is turned away.
TurnedAway(token) == \/ host.mode = "none"
                     \/ token # host.token
                     \/ host.roomPaused
                     \/ host.joinsPaused
                     \/ 1 + Cardinality(Members) >= MaxMembers
                     \/ Cardinality(Pending) >= MaxPending

AcceptJoinRequest(g) ==
  /\ HostReads(g, "JOIN")
  /\ IF TurnedAway(guest[g].token)
     THEN /\ stream' = [stream EXCEPT ![g] = Told(Read(g), "REJECT")]
          /\ UNCHANGED entry
     ELSE /\ stream' = [stream EXCEPT ![g] = Read(g)]
          /\ entry' = [entry EXCEPT ![g].st = "pending", ![g].token = guest[g].token]
  /\ UNCHANGED <<host, guest>>

\* rejectPending with a notice, and dropPending, of the entries in G.
Rejected(G) ==
  /\ entry' = [g \in Guest |-> IF g \in G THEN [NoEntry EXCEPT !.st = "gone"]
                               ELSE entry[g]]
  /\ stream' = [g \in Guest |-> IF g \notin G THEN stream[g]
                                ELSE IF entry[g].st = "committing" THEN Shut(stream[g])
                                ELSE Told(stream[g], "REJECT")]

\* Mutation: a revoked admission keeps its stream.
DroppedOnly(G) ==
  /\ entry' = [g \in Guest |-> IF g \in G THEN [NoEntry EXCEPT !.st = "gone"]
                               ELSE entry[g]]
  /\ UNCHANGED stream

Dropped(G) ==
  /\ entry' = [g \in Guest |-> IF g \in G THEN [NoEntry EXCEPT !.st = "gone"]
                               ELSE entry[g]]
  /\ stream' = [g \in Guest |-> IF g \in G THEN Shut(stream[g]) ELSE stream[g]]

\* The host's user rejects the request, or it expires, before the acceptance
\* is being written.
Reject(g) ==
  /\ host.mode # "none"
  /\ entry[g].st \in {"pending", "approving"}
  /\ Rejected({g})
  /\ UNCHANGED <<host, guest>>

\* Mutation: the timer covers only requests nobody has approved.
ExpirePendingOnly(g) == entry[g].st = "pending" /\ Reject(g)

Expire(g) == Reject(g)

\* approvePending up to its first await: a seat is reserved, or the request
\* is rejected because of a pause or for want of one.
Approve(g) ==
  LET allowed == ~host.roomPaused /\ ~host.joinsPaused /\ OccupiedSeats < MaxMembers
  IN /\ host.mode # "none"
     /\ entry[g].st = "pending"
     /\ IF allowed
        THEN /\ entry' = [entry EXCEPT ![g].st = "approving", ![g].gen = host.gen]
             /\ UNCHANGED stream
        ELSE Rejected({g})
     /\ UNCHANGED <<host, guest>>

\* answerAddressChallenge: the applicant proves that it owns the address, as
\* long as it still waits for an answer.
AnswerAddressChallenge(g) ==
  /\ entry[g].st = "approving"
  /\ ~entry[g].proof
  /\ guest[g].mode = "pending"
  /\ entry' = [entry EXCEPT ![g].proof = TRUE]
  /\ UNCHANGED <<host, guest, stream>>

\* The rest of the transaction looks at the room again after every await.
StillAllowed(g) == /\ host.mode = "owner"
                   /\ ~host.roomPaused
                   /\ ~host.joinsPaused
                   /\ entry[g].gen = host.gen

\* The proof has come: JOIN_ACCEPT is written, unless the room has changed.
Verified(g) ==
  /\ entry[g].st = "approving"
  /\ entry[g].proof
  /\ IF StillAllowed(g)
     THEN /\ entry' = [entry EXCEPT ![g].st = "committing"]
          /\ stream' = [stream EXCEPT ![g].down =
                          IF stream[g].open THEN Append(@, "ACCEPT") ELSE @]
     ELSE Rejected({g})
  /\ UNCHANGED <<host, guest>>

\* No proof: the dial or the challenge failed.
VerifyFails(g) ==
  /\ entry[g].st = "approving"
  /\ Rejected({g})
  /\ UNCHANGED <<host, guest>>

\* Mutation: the member keeps the approval.
CommitKept(g) ==
  /\ entry[g].st = "committing"
  /\ StillAllowed(g)
  /\ entry' = [entry EXCEPT ![g].st = "online"]
  /\ UNCHANGED <<host, guest, stream>>

\* JOIN_ACCEPT is written: the request becomes a member.
Commit(g) ==
  /\ entry[g].st = "committing"
  /\ StillAllowed(g)
  /\ entry' = [entry EXCEPT ![g] = [NoEntry EXCEPT !.st = "online"]]
  /\ UNCHANGED <<host, guest, stream>>

\* It could not be written in time, or the room has changed.
CommitFails(g) ==
  /\ entry[g].st = "committing"
  /\ Dropped({g})
  /\ UNCHANGED <<host, guest>>

-----------------------------------------------------------------------------
\* The stream loop of an applicant or member: JOIN_CANCEL, a frame before
\* the commit and the end of the stream all end it; a member is then lost.
StreamEnds(g) ==
  IF g \in Members
  THEN /\ entry' = [entry EXCEPT ![g].st = "reconnecting"]
       /\ stream' = [stream EXCEPT ![g] = Shut(@)]
  ELSE Dropped({g})

ReadFrame(g) ==
  /\ entry[g].st \in {"pending", "approving", "committing", "online"}
  /\ stream[g].up # <<>>
  /\ IF Head(stream[g].up) = "TEXT" /\ g \in Members
     THEN /\ stream' = [stream EXCEPT ![g] = Read(g)]
          /\ UNCHANGED entry
     ELSE StreamEnds(g)
  /\ UNCHANGED <<host, guest>>

ReadEnd(g) ==
  /\ entry[g].st \in {"pending", "approving", "committing", "online"}
  /\ ~stream[g].open
  /\ StreamEnds(g)
  /\ UNCHANGED <<host, guest>>

\* A member is lost for longer than the grace time.
GraceTimeout(g) ==
  /\ entry[g].st = "reconnecting"
  /\ Dropped({g})
  /\ UNCHANGED <<host, guest>>

\* The host removes a member, or the member leaves.
MemberGone(g) ==
  /\ g \in Members
  /\ Dropped({g})
  /\ guest' = [guest EXCEPT ![g].mode = "out"]
  /\ UNCHANGED host

-----------------------------------------------------------------------------
\* cancelPendingApprovals: every approval is revoked, and when the room
\* closes every request.  No notice is sent.
Revoked == Dropped(In({"approving", "committing"}))

Toggle == /\ host.mode # "none"
          /\ host.gen < MaxToggle

\* setJoinsPaused and setRoomPaused; a room that is closing still obeys them.
SetJoinsPaused ==
  /\ Toggle
  /\ host' = [host EXCEPT !.gen = @ + 1, !.joinsPaused = ~@]
  /\ IF host.joinsPaused THEN UNCHANGED <<entry, stream>> ELSE Revoked
  /\ UNCHANGED guest

SetRoomPaused ==
  /\ Toggle
  /\ host' = [host EXCEPT !.gen = @ + 1, !.roomPaused = ~@]
  /\ IF host.roomPaused THEN UNCHANGED <<entry, stream>> ELSE Revoked
  /\ UNCHANGED guest

\* Mutation: an admission in progress is spared.
RotateInvitationUnforced ==
  /\ Toggle
  /\ host' = [host EXCEPT !.gen = @ + 1, !.token = @ + 1]
  /\ Rejected(In({"pending", "approving"}))
  /\ UNCHANGED guest

\* rotateInvitation: whoever waits with the old token is rejected, even when
\* its admission is about to commit.
RotateInvitation ==
  /\ Toggle
  /\ host' = [host EXCEPT !.gen = @ + 1, !.token = @ + 1]
  /\ Rejected(Pending)
  /\ UNCHANGED guest

\* close() on the host: its authority is revoked at once, the streams are
\* closed after the members have been told.
BeginClose ==
  /\ host.mode = "owner"
  /\ host' = [host EXCEPT !.mode = "closing", !.gen = @ + 1, !.roomPaused = TRUE,
                          !.joinsPaused = TRUE]
  /\ Dropped(Pending)
  /\ UNCHANGED guest

EndClose ==
  /\ host.mode = "closing"
  /\ host' = [host EXCEPT !.mode = "none"]
  /\ Dropped(Pending \cup Members)
  /\ UNCHANGED guest

-----------------------------------------------------------------------------
\* guestLoop of an applicant.
ReadAnswer(g) ==
  /\ guest[g].mode = "pending"
  /\ stream[g].down # <<>>
  /\ LET accepted == Head(stream[g].down) = "ACCEPT"
         rest == [stream[g] EXCEPT !.down = Tail(@)]
     IN /\ guest' = [guest EXCEPT ![g].mode = IF accepted THEN "member" ELSE "out"]
        /\ stream' = [stream EXCEPT ![g] = IF accepted THEN rest ELSE Closed(rest)]
  /\ UNCHANGED <<host, entry>>

ReadNoAnswer(g) ==
  /\ guest[g].mode = "pending"
  /\ ~stream[g].open
  /\ guest' = [guest EXCEPT ![g].mode = "out"]
  /\ UNCHANGED <<host, entry, stream>>

\* Somebody who believes to be a member says something.
Speak(g) ==
  /\ guest[g].mode = "member"
  /\ stream[g].open
  /\ stream[g].up = <<>>
  /\ stream' = [stream EXCEPT ![g].up = <<"TEXT">>]
  /\ UNCHANGED <<host, entry, guest>>

\* cancelJoin writes JOIN_CANCEL and, after this await, closes the stream; an
\* applicant that has been accepted meanwhile goes on as a member.
CancelJoin(g) ==
  /\ guest[g].mode = "pending"
  /\ ~guest[g].cancelling
  /\ guest' = [guest EXCEPT ![g].cancelling = TRUE]
  /\ stream' = [stream EXCEPT ![g].up = IF stream[g].open THEN Append(@, "CANCEL") ELSE @]
  /\ UNCHANGED <<host, entry>>

EndCancelJoin(g) ==
  /\ guest[g].cancelling
  /\ guest' = [guest EXCEPT ![g].cancelling = FALSE,
                            ![g].mode = IF @ = "pending" THEN "out" ELSE @]
  /\ stream' = [stream EXCEPT ![g] = Closed(@)]
  /\ UNCHANGED <<host, entry>>

\* Recovery of a member whose stream has ended: the host takes it back, or
\* there is nothing to come back to.
Recover(g) ==
  /\ guest[g].mode = "member"
  /\ ~stream[g].open
  /\ ~guest[g].cancelling
  /\ \/ /\ entry[g].st = "reconnecting"
        /\ host.mode = "owner"
        /\ entry' = [entry EXCEPT ![g].st = "online"]
        /\ stream' = [stream EXCEPT ![g] = [NoStream EXCEPT !.open = TRUE]]
        /\ UNCHANGED guest
     \/ /\ g \notin Members
        /\ guest' = [guest EXCEPT ![g].mode = "out"]
        /\ UNCHANGED <<entry, stream>>
  /\ UNCHANGED host

\* A stream breaks, or its page is closed; an applicant that is gone no
\* longer waits for anything.
Break(g) ==
  /\ stream[g].open
  /\ stream' = [stream EXCEPT ![g] = Closed(@)]
  /\ \E quits \in BOOLEAN :
       guest' = [guest EXCEPT ![g].mode = IF quits THEN "out" ELSE @]
  /\ UNCHANGED <<host, entry>>

-----------------------------------------------------------------------------
HostStep(g) == \/ AcceptJoinRequest(g)
               \/ Approve(g)
               \/ Reject(g)
               \/ Verified(g)
               \/ VerifyFails(g)
               \/ Commit(g)
               \/ CommitFails(g)
               \/ ReadFrame(g)
               \/ ReadEnd(g)
               \/ GraceTimeout(g)
               \/ MemberGone(g)

GuestStep(g) == \/ Request(g)
                \/ AnswerAddressChallenge(g)
                \/ ReadAnswer(g)
                \/ ReadNoAnswer(g)
                \/ Speak(g)
                \/ CancelJoin(g)
                \/ EndCancelJoin(g)
                \/ Recover(g)

Next == \/ \E g \in Guest : HostStep(g) \/ GuestStep(g) \/ Break(g)
        \/ SetJoinsPaused
        \/ SetRoomPaused
        \/ RotateInvitation
        \/ BeginClose
        \/ EndClose

\* Both event loops go on, and every timer of the host fires: the expiry of
\* a request and of an admission that is being written, and the time a
\* closing room waits for its members.
Fairness ==
  /\ \A g \in Guest : /\ WF_vars(AcceptJoinRequest(g))
                      /\ WF_vars(Expire(g))
                      /\ WF_vars(CommitFails(g))
                      /\ WF_vars(ReadEnd(g))
                      /\ WF_vars(ReadNoAnswer(g) \/ ReadAnswer(g))
                      /\ WF_vars(EndCancelJoin(g))
  /\ WF_vars(EndClose)

Spec == Init /\ [][Next]_vars /\ Fairness

-----------------------------------------------------------------------------
\* Every variable keeps its shape, the host never lists more requests than
\* maxPendingJoins, and nothing of an approval outlives it.
TypeOK ==
  /\ host \in [mode : {"owner", "closing", "none"}, roomPaused : BOOLEAN,
               joinsPaused : BOOLEAN, gen : 0 .. MaxToggle + 1,
               token : 0 .. MaxToggle]
  /\ entry \in [Guest -> [st : {"none", "pending", "approving", "committing",
                                "online", "reconnecting", "gone"},
                          token : 0 .. MaxToggle, gen : 0 .. MaxToggle + 1,
                          proof : BOOLEAN]]
  /\ guest \in [Guest -> [mode : {"none", "pending", "member", "out"},
                          token : 0 .. MaxToggle, cancelling : BOOLEAN]]
  /\ stream \in [Guest -> [open : BOOLEAN, up : Seq({"JOIN", "CANCEL", "TEXT"}),
                           down : Seq({"ACCEPT", "REJECT"})]]
  /\ Cardinality(Pending) <= MaxPending
  /\ \A g \in Guest \ Pending : entry[g] = [NoEntry EXCEPT !.st = entry[g].st]

\* However approvals overlap, fail and commit, the room never has more members
\* than maxMembers (approvePending reserves before its first await).
SeatBound == 1 + Cardinality(Members) <= MaxMembers

\* After a rotation no request of an older invitation can still be admitted
\* (rotateInvitation), not even one that came in while another was rejected.
PendingHasToken == \A g \in Pending : entry[g].token = host.token

\* An applicant that believes to be a member, but whose admission was revoked
\* after JOIN_ACCEPT was written, sits on a closed stream, and so finds out.
NoGhostMember ==
  \A g \in Guest : guest[g].mode = "member" /\ entry[g].st = "gone" => ~stream[g].open

\* Whoever asks to join is told, or finds its stream closed, even when nobody
\* at the host ever decides.
JoinAnswered ==
  \A g \in Guest : guest[g].mode = "pending" ~> guest[g].mode # "pending"

=============================================================================
